----------------------------- MODULE SecretTool -----------------------------
(***************************************************************************)
(* What getpfxfile promises the script that runs it: it ends; when it      *)
(* exits with 0 it has printed exactly one line, the secret the vault      *)
(* served; when it exits with 1 it has printed no line of a secret.  Out   *)
(* of memory it may print an empty line in place of a secret that outgrows *)
(* its first buffer, and a message when it cannot even start.              *)
(***************************************************************************)
EXTENDS Sequences, Naturals

CONSTANTS Secrets, NULL, Diagnostic,
          Room,           \* a secret of this length needs a second buffer
          AllocMayFail

VARIABLES
  served,    \* the secret in what the vault has answered so far, or NULL
  out,       \* lines on standard output
  status     \* "running", or the outcome the exit code tells

stvars == <<served, out, status>>

Init == served = NULL /\ out = <<>> /\ status = "running"

Serve(s) ==
  /\ status = "running" /\ out = <<>>
  /\ served' = s
  /\ UNCHANGED <<out, status>>

Lines == {served} \cup IF AllocMayFail /\ Len(served) >= Room THEN {<<>>} ELSE {}

PrintSecret ==
  /\ status = "running" /\ out = <<>> /\ served # NULL
  /\ \E line \in Lines : out' = <<line>>
  /\ UNCHANGED <<served, status>>

Exit ==
  /\ status = "running"
  /\ status' = IF out = <<>> THEN "failed" ELSE "ok"
  /\ UNCHANGED <<served, out>>

CannotStart ==
  /\ AllocMayFail /\ status = "running" /\ out = <<>>
  /\ out' = <<Diagnostic>> /\ status' = "failed"
  /\ UNCHANGED served

Next == (\E s \in Secrets \cup {NULL} : Serve(s)) \/ PrintSecret \/ Exit \/ CannotStart

Spec == Init /\ [][Next]_stvars /\ WF_stvars(Exit)
=============================================================================
