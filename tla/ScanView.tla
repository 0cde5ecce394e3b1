------------------------------ MODULE ScanView ------------------------------
(***************************************************************************)
(* What the import panel of the dashboard promises about the scan of the   *)
(* account.  It shows only statuses the server has had.  A status reaches  *)
(* the user in three steps: the panel shows it (it is the React state),    *)
(* draws it (a render) and settles on it (the effects of that render have  *)
(* run).  A new status never takes the panel behind both the one shown and *)
(* the one settled on: once a scan is shown and settled on, no older scan  *)
(* replaces it, and if it was finished it is not at work again.  Before    *)
(* that an event of the old live stream may still do both.                 *)
(*                                                                         *)
(* How polls, live events and the replies to clicks compete for the panel  *)
(* is the business of ScanProgress, which implements this module.          *)
(***************************************************************************)
EXTENDS Integers

CONSTANTS
  Statuses,     \* records with the fields seq, job and state
  FirstStatus   \* what a fresh panel shows: no scan

VARIABLES
  server, \* the status the server would report now
  past,   \* every status the server has had
  shown,  \* the status the panel holds
  drawn,  \* the status on the screen
  settled \* the status the effects last ran for

vars == <<server, past, shown, drawn, settled>>

Active(s)   == s.state \in {"running", "stopping"}
Finished(s) == s.state = "done"

\* s may follow t on the screen.
Follows(s, t) ==
  /\ s.job >= t.job
  /\ s.job = t.job /\ Finished(t) => Finished(s)

Init ==
  /\ server \in Statuses
  /\ past = {server}
  /\ shown = FirstStatus /\ drawn = FirstStatus /\ settled = FirstStatus

ServerMoves ==
  /\ server' \in Statuses
  /\ past' = past \union {server'}
  /\ UNCHANGED <<shown, drawn, settled>>

Shows(s) ==
  /\ s \in past
  /\ Follows(s, shown) \/ Follows(s, settled)
  /\ shown' = s
  /\ UNCHANGED <<server, past, drawn, settled>>

\* The next render waits for the effects of the last one.
Draws ==
  /\ settled = drawn
  /\ drawn' = shown
  /\ UNCHANGED <<server, past, shown, settled>>

SettlesOnIt ==
  /\ settled' = drawn
  /\ UNCHANGED <<server, past, shown, drawn>>

Next == ServerMoves \/ (\E s \in past : Shows(s)) \/ Draws \/ SettlesOnIt

Spec == Init /\ [][Next]_vars
=============================================================================
