------------------------------- MODULE Device -------------------------------
(***************************************************************************)
(* The program over its runs: it is started again whenever it has ended or *)
(* died, with the nonce file as all it kept, while the servers keep what   *)
(* was not acknowledged.  The end of a message's task is taken apart here: *)
(* the message is handed to the conversation provider and its nonce is     *)
(* saved, in an order that is libthreema's, and the process may die        *)
(* between any two system calls of it.  `task.poll` is synchronous, so     *)
(* nothing else of the program runs meanwhile.  A result without an ack    *)
(* (src/src/e2e.rs:170) is left to the runs of Client: NoAck is empty here.*)
(***************************************************************************)
EXTENDS Cli

CONSTANTS
  SaveFirst,    \* the messages whose nonce is saved before they are handed over
  MaxRuns,      \* bound: runs; nothing goes wrong in the last one
  IoFaults      \* bound: as in AtomicFile

ASSUME DeviceAssumption ==
  /\ SaveFirst \subseteq 1..Total /\ MaxRuns \in Nat \ {0} /\ NoAck = {}
  /\ IoFaults \subseteq {"create", "write", "sync", "rename"}

VARIABLES
  memory, path, tmp, synced, durable, powerLost, step, adding, accepted,  \* of NonceStore
  effects,    \* what the last poll of the task has done so far, of {"handed", "saved"}
  runs,       \* runs begun
  reports,    \* auxiliary: how often an item was reported
  shown       \* auxiliary: the keys printed by earlier runs

Nonces == INSTANCE NonceStore WITH Nonce <- 1..Total, CrashKinds <- {"process"}

nonceFile == <<memory, path, tmp, synced, durable, powerLost, step, adding, accepted>>
deviceVars == <<cliVars, nonceFile, effects, runs, reports, shown>>

Message(n) == <<"Direct", n>>
Envelope(i) == <<"Reflected", i>>
Item == {Message(n) : n \in 1..Total} \cup {Envelope(i) : i \in 1..Reflections}

DeviceInit ==
  /\ CliInit /\ Nonces!Init
  /\ effects = {} /\ runs = 0 /\ reports = [item \in Item |-> 0] /\ shown = {}

Up == step = "idle"

\* Mutant: looks the nonce up in the other scope.
HasOtherScope(n) == n \in memory["d2x"]

\* ScopedNonceStore::has.
Has(n) == n \in memory["csp_e2e"]

-----------------------------------------------------------------------------
(* The end of a task.                                                      *)

Finishing == Up /\ Running /\ ~Spins /\ e2ePc = "poll" /\ Quiet /\ txn = "none"

\* A message whose nonce is known is a replay: neither effect comes about.
HandsOver ==
  /\ Finishing
  /\ IF task \in SaveFirst THEN effects = {"saved"} ELSE effects = {} /\ ~Has(task)
  /\ AddOrUpdateIncomingMessage(Content[task])
  /\ reports' = IF events' # events THEN [reports EXCEPT ![Message(task)] = @ + 1] ELSE reports
  /\ effects' = effects \cup {"handed"}
  /\ UNCHANGED <<channels, chatServer, csp, mediator, d2m, driver, run, printed, nonceFile,
                 runs, shown>>

SavesNonce ==
  /\ Finishing
  /\ IF task \in SaveFirst THEN effects = {} /\ ~Has(task) ELSE effects = {"handed"}
  /\ Nonces!AddMany("csp_e2e", {task})
  /\ UNCHANGED <<cliVars, effects, runs, reports, shown>>

SaveSteps ==
  /\ \/ Nonces!CreateTmp \/ Nonces!WriteTmp \/ Nonces!SyncTmp
     \/ runs < MaxRuns /\ Nonces!IoFails
  /\ UNCHANGED <<cliVars, adding, accepted, effects, runs, reports, shown>>

NonceSaved ==
  /\ Nonces!Saved
  /\ effects' = effects \cup {"saved"}
  /\ UNCHANGED <<cliVars, runs, reports, shown>>

\* The Err of the save comes out of `task.poll`, and so out of `run` and `main`.
SaveFailed ==
  /\ Nonces!RunFails
  /\ runPc' = "processingEnded" /\ effects' = {}
  /\ UNCHANGED <<channels, chatServer, csp, mediator, d2m, reporting, driver, commands, issued,
                 printed, adding, accepted, runs, reports, shown>>

-----------------------------------------------------------------------------
(* The program and its environment.                                        *)

TaskEnds == task # 0 /\ task' = 0
TaskDone == effects = {"handed", "saved"} \/ (effects = {} /\ Has(task))

\* What the environment does not do in the last run.
Untroubled ==
  UNCHANGED <<issued, cspLink>> /\ d2mLink' # "closed" /\ runPc' # "connectFailed"

\* Every step of Cli but the effects of a task's end, which come before it.
Works ==
  /\ Up /\ CliNext
  /\ IF TaskEnds THEN TaskDone /\ UNCHANGED reporting ELSE effects = {}
  /\ runs = MaxRuns => Untroubled
  /\ effects' = {}
  /\ reports' = [item \in Item |->
       IF events' # events /\ item = Envelope(events'[Len(events')].key)
                           /\ events'[Len(events')].kind = "Reflected"
       THEN reports[item] + 1 ELSE reports[item]]
  /\ UNCHANGED <<nonceFile, runs, shown>>

Printed == {events[i].key : i \in {j \in 1..printed : events[j].kind = "Direct"}}

\* The process exits at the end of `main`, or is killed.
Exits ==
  /\ Ended \/ runs < MaxRuns
  /\ Nonces!Dies
  /\ effects' = {}
  /\ UNCHANGED <<cliVars, adding, accepted, runs, reports, shown>>

\* The next run loads the nonces and starts from nothing else; the servers start
\* again from the first message, and the first envelope, not acknowledged.
Boots ==
  /\ runs < MaxRuns
  /\ Nonces!Load
  /\ runs' = runs + 1 /\ shown' = shown \cup Printed
  /\ cspIn' = <<>> /\ cspOut' = <<>> /\ d2mIn' = <<>> /\ d2mOut' = <<>> /\ d2mOpen' = TRUE
  /\ cspPc' = "start" /\ cspBuf' = <<>> /\ cspHand' = <<>>
  /\ d2mPc' = "connect" /\ d2mHand' = <<>>
  /\ seen' = {} /\ events' = <<>>
  /\ e2ePc' = "idle" /\ task' = 0 /\ stage' = 0 /\ txn' = "none" /\ role' = "none"
  /\ outCsp' = <<>> /\ outD2m' = <<>> /\ pending' = 0 /\ acked' = <<>> /\ expected' = {}
  /\ runPc' = "connectCsp" /\ commands' = <<>> /\ issued' = [count |-> 0, open |-> TRUE]
  /\ printed' = 0
  /\ cspWire' = <<>> /\ cspLink' = "open" /\ unblocked' = FALSE /\ sent' = Len(acks)
  /\ d2mWire' = <<>> /\ d2mLink' = "hello" /\ promoted' = FALSE /\ dry' = 0
  /\ holder' = (IF holder = "client" THEN "nobody" ELSE holder)
  /\ reflected' = Len(reflectedAcks)
  /\ UNCHANGED <<acks, extra, siblingTxns, reflectedAcks, reflectLog, adding, accepted, effects,
                 reports>>

DeviceNext ==
  \/ HandsOver \/ SavesNonce \/ SaveSteps \/ NonceSaved \/ SaveFailed
  \/ Works \/ Exits \/ Boots

DeviceSpec == DeviceInit /\ [][DeviceNext]_deviceVars

\* tokio polls what is ready, whoever runs the program starts it again, and the
\* servers promote the device, send what they hold, and end other transactions.
DeviceFairness ==
  /\ WF_deviceVars(\/ HandsOver \/ SavesNonce \/ SaveSteps \/ NonceSaved \/ SaveFailed
                   \/ Works /\ (ConnectCsp \/ ConnectD2m \/ RunEnds)
                   \/ Boots \/ (Exits /\ Ended))
  /\ WF_deviceVars(Works /\ CspRuns) /\ WF_deviceVars(Works /\ D2mRuns)
  /\ WF_deviceVars(Works /\ DriverRuns)
  /\ WF_deviceVars(Works /\ ChatServerActs) /\ WF_deviceVars(Works /\ MediatorActs)

FairDeviceSpec == DeviceSpec /\ DeviceFairness

-----------------------------------------------------------------------------
(* Properties.                                                             *)

Acked == {acks[i] : i \in 1..Len(acks)}

\* A message that repeats another one's sender and id, and so its key, need not
\* be reported itself.
Box == INSTANCE Inbox WITH
  Text <- {Message(n) : n \in {m \in 1..Total : Content[m] \in TextKey}}
            \cup {Envelope(i) : i \in TextReflection},
  AtMostOnce <- {Message(n) : n \in SaveFirst},
  AtLeastOnce <- {Message(n) : n \in {m \in (1..Total) \ SaveFirst :
                    Content[m] \in TextKey /\ \A k \in 1..m - 1 : Content[k] # Content[m]}}
                   \cup {Envelope(i) : i \in TextReflection},
  acked <- {Message(n) : n \in Acked}
             \cup {Envelope(reflectedAcks[i]) : i \in 1..Len(reflectedAcks)}

\* Over all runs, wherever one ends: nothing is reported again after its server
\* saw it acknowledged; a message whose nonce is saved first is never reported
\* twice, one that is handed over first, and an envelope, never acknowledged
\* unreported (conversation.rs:96-104, store.rs:103-122, e2e.rs:169-215).
Delivers == Box!Spec

\* A message whose ack is under way is never processed again, even if the ack is
\* lost with the run: its nonce is in the file the next run loads (store.rs:112-122).
AckedIsSaved ==
  LET underWay == {(cspOut \o outCsp)[i].n : i \in 1..Len(cspOut \o outCsp)} \ {0}
  IN Acked \cup underWay \subseteq path.value["csp_e2e"]

\* Whatever of a failing connect, a reset, a failing save, a shutdown and the
\* death of the process befell earlier runs, at any moment, everything is
\* acknowledged in the end.
AllAcked ==
  <>(Len(acks) = Total /\ Len(reflectedAcks) = Reflections)

\* src/src/main.rs:1-2: the program "prints every reported message to stdout": when
\* `main` returns, every text the chat server need not send again has been printed.
AckedIsPrinted ==
  Ended => \A n \in Acked : Content[n] \in TextKey => Content[n] \in shown \cup Printed
=============================================================================
