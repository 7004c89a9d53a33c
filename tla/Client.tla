------------------------------- MODULE Client -------------------------------
(***************************************************************************)
(* The library's `run` (src/src/lib.rs): it opens both connections, then   *)
(* polls the two connection runners, the driver and the command loop in    *)
(* one select, as one task, until the first of them completes; the others  *)
(* are dropped where they stand.  The servers and the embedder that sends  *)
(* commands are its environment.                                           *)
(***************************************************************************)
EXTENDS CspConnection, D2mConnection, CspE2eDriver

CONSTANTS
  ConnectFaults,    \* bound: connections whose opening may fail, a subset of {"csp", "d2m"}
  MaxCommands       \* bound: commands the embedder sends, and may drop its sender instead of one

ASSUME ClientAssumption == ConnectFaults \subseteq {"csp", "d2m"} /\ MaxCommands \in Nat

VARIABLES
  runPc,       \* where `run` is, or what its select returned for
  commands,    \* the unbounded command channel
  issued       \* how the embedder uses it: [count, open]

run == <<runPc, commands, issued>>
vars == <<channels, chatServer, csp, mediator, d2m, reporting, driver, run>>

Outcome == {"connectFailed", "cspEnded", "d2mEnded", "processingEnded", "shutdown"}
Ended == runPc \in Outcome
Running == runPc = "running"

ClientTypeOK ==
  /\ runPc \in {"connectCsp", "connectD2m", "running"} \cup Outcome
  /\ commands \in Seq({"SendText", "Shutdown"})
  /\ issued \in [count: 0..MaxCommands, open: BOOLEAN]

Init ==
  /\ WiringInit /\ ServerInit /\ CspInit /\ MediatorInit /\ D2mInit
  /\ ReportingInit /\ DriverInit
  /\ runPc = "connectCsp" /\ commands = <<>> /\ issued = [count |-> 0, open |-> TRUE]

-----------------------------------------------------------------------------
(* `run`, up to its select: nothing else of the client runs meanwhile.     *)

ConnectFails ==
  /\ \/ runPc = "connectCsp" /\ "csp" \in ConnectFaults
     \/ runPc = "connectD2m" /\ "d2m" \in ConnectFaults
  /\ runPc' = "connectFailed"
  /\ UNCHANGED <<channels, chatServer, csp, mediator, d2m, reporting, driver, commands, issued>>

ConnectCsp ==
  /\ runPc = "connectCsp"
  /\ runPc' = "connectD2m"
  /\ UNCHANGED <<channels, chatServer, csp, mediator, d2m, reporting, driver, commands, issued>>

\* `new` returns with the WebSocket open, and Connected is reported at once.
ConnectD2m ==
  /\ runPc = "connectD2m"
  /\ D2mConnect
  /\ events' = Append(events, Event("Connected", 0))
  /\ runPc' = "running"
  /\ UNCHANGED <<channels, chatServer, csp, seen, driver, commands, issued>>

-----------------------------------------------------------------------------
(* The select.  Its branches share one task: while the chat connection's   *)
(* spins, no other is polled.                                              *)

CspRuns == Running /\ CspNext /\ UNCHANGED <<mediator, d2m, reporting, driver, run>>
D2mRuns == Running /\ ~Spins /\ D2mNext /\ UNCHANGED <<chatServer, csp, reporting, driver, run>>
DriverRuns == Running /\ ~Spins /\ DriverNext /\ UNCHANGED <<chatServer, csp, mediator, d2m, run>>

\* Sending is not implemented: a SendText is logged and dropped.
TakeSendText ==
  /\ Running /\ ~Spins /\ commands # <<>> /\ Head(commands) = "SendText"
  /\ commands' = Tail(commands)
  /\ UNCHANGED <<channels, chatServer, csp, mediator, d2m, reporting, driver, runPc, issued>>

\* Shutdown, or the end of a channel whose senders are gone.
ShutsDown ==
  \/ commands # <<>> /\ Head(commands) = "Shutdown"
  \/ commands = <<>> /\ ~issued.open

RunEnds ==
  /\ Running
  /\ \/ CspFails /\ runPc' = "cspEnded"
     \/ ~Spins /\ D2mFails /\ runPc' = "d2mEnded"
     \/ ~Spins /\ DriverFails /\ runPc' = "processingEnded"
     \/ ~Spins /\ ShutsDown /\ runPc' = "shutdown"
  /\ UNCHANGED <<channels, chatServer, csp, mediator, d2m, reporting, driver, commands, issued>>

-----------------------------------------------------------------------------
(* The environment, until the run has ended.                               *)

Command(command) ==
  /\ ~Ended /\ issued.open /\ issued.count < MaxCommands
  /\ commands' = Append(commands, command)
  /\ issued' = [issued EXCEPT !.count = @ + 1]
  /\ UNCHANGED <<channels, chatServer, csp, mediator, d2m, reporting, driver, runPc>>

\* The embedder drops its sender.
DropSender ==
  /\ ~Ended /\ issued.open /\ issued.count < MaxCommands
  /\ issued' = [issued EXCEPT !.open = FALSE]
  /\ UNCHANGED <<channels, chatServer, csp, mediator, d2m, reporting, driver, runPc, commands>>

ChatServerActs ==
  /\ Running
  /\ \/ ServerSendsMessage
     \/ \E type \in ExtraFrames : ServerSendsExtra(type)
     \/ \E how \in LinkFaults : ServerEnds(how)
  /\ UNCHANGED <<channels, csp, mediator, d2m, reporting, driver, run>>

MediatorActs ==
  /\ Running
  /\ MediatorPromotes \/ MediatorRunsDry \/ MediatorReflects \/ SiblingBegins \/ SiblingEnds \/ MediatorCloses
  /\ UNCHANGED <<channels, chatServer, csp, d2m, reporting, driver, run>>

Next ==
  \/ ConnectFails \/ ConnectCsp \/ ConnectD2m
  \/ CspRuns \/ D2mRuns \/ DriverRuns \/ TakeSendText \/ RunEnds
  \/ \E command \in {"SendText", "Shutdown"} : Command(command)
  \/ DropSender \/ ChatServerActs \/ MediatorActs

Spec == Init /\ [][Next]_vars
=============================================================================
