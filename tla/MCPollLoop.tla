------------------------------- MODULE MCPollLoop -------------------------------
EXTENDS PollLoop

\* One of the rows has a handler that may never return.
OneSlowJob == {CHOOSE j \in Jobs : TRUE}

=============================================================================
