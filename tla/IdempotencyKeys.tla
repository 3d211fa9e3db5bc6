----------------------------- MODULE IdempotencyKeys -----------------------------
(*****************************************************************************)
(* How the keys of activities and signals are derived (activity.go,          *)
(* signal.go): a SHA-1 uuid in the namespace of the workflow's id, over the   *)
(* name and the discriminator written one after the other.  The hash is taken *)
(* to be injective; writing two strings one after the other is not.           *)
(*                                                                           *)
(* A site is a call of a handler: the name of the activity or signal and the *)
(* discriminator str, which is "" when the key is the default one.           *)
(*****************************************************************************)
EXTENDS Sequences

\* Mutant: the name is left out.
IdempotencyKeyOfDiscriminator(w, name, str) == <<w, str>>

IdempotencyKeyByString(w, name, str) == <<w, name \o str>>

KeyOfSite(w, site) == IdempotencyKeyByString(w, site[1], site[2])

KeyOf(workflowIDs, sites) ==
  [ws \in workflowIDs \X sites |-> KeyOfSite(ws[1], ws[2])]

KeysOf(workflowIDs, sites) == {KeyOfSite(w, site) : w \in workflowIDs, site \in sites}
=============================================================================
