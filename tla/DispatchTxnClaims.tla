------------------------- MODULE DispatchTxnClaims --------------------------
EXTENDS MCDispatchTxn

\* "it must produce the same result as dispatch_state_current.state for every job
\* (AC4)" (replay_state, which folds the events in the order of their ids).
ReplayMatches == state = StateAfter(last.event)

=============================================================================
