-------------------------------- MODULE Client ---------------------------------
(***************************************************************************)
(* The client program: the thread of the user interface, the thread that   *)
(* talks to the server, and the two queues between them, which no lock     *)
(* protects.                                                               *)
(*                                                                         *)
(* A push or a pop is one step. When both threads are about to do one on   *)
(* the same queue they may also do it at the same time: Collide has what   *)
(* may come of it. The server is the matter of Sessions; here it answers   *)
(* CONNECT when it likes, and the session answers in order. A datagram is  *)
(* neither lost nor overtaken.                                             *)
(***************************************************************************)
EXTENDS Integers, Sequences, FiniteSets

CONSTANTS
  MaxLines,         \* bound: the lines that the user enters
  MaxNotifications  \* bound: the notifications that the session sends

ASSUME ClientAssumption == MaxLines \in Nat /\ MaxNotifications \in Nat

(* A line is a "follow", a "send", a "send" that is "long", a follow or a   *)
(* send that is "bare", with nothing behind the word, an "exit", or "other".*)
Kinds == {"follow", "send", "long", "bare", "exit", "other"}
Line == [kind : Kinds, id : 1 .. MaxLines]
NoLine == [kind |-> "none", id |-> 0]

VARIABLES
  ui,         \* the thread of the user interface, and the line just entered
  srv,        \* the thread of the server, and what it is about to push
  running,    \* the flag that ends both
  commands,   \* the queue from the first to the second
  responses,  \* the queue of what is to be shown
  shown,      \* what was shown of the server's
  toServer,   \* the datagrams on their way to the server, or to the session
  toClient,   \* those on their way back
  session,    \* what the server has for this client
  typed,      \* history: the lines entered so far
  sent,       \* history: the lines of which a datagram was sent, or that were too long
  answers,    \* history: what the session has sent
  collided    \* history: whether two operations on one queue were ever done at once

queues == <<commands, responses, shown>>
network == <<toServer, toClient, session>>
history == <<typed, sent, answers, collided>>
vars == <<ui, srv, running, queues, network, history>>

Local(text) == [from |-> "client", text |-> text, id |-> 0]

Init ==
  /\ ui = [pc |-> "poll", line |-> NoLine]
  /\ srv = [pc |-> "start", item |-> Local("none"), next |-> "start"]
  /\ running = TRUE
  /\ commands = <<>> /\ responses = <<>> /\ shown = <<>>
  /\ toServer = <<>> /\ toClient = <<>> /\ session = "none"
  /\ typed = <<>> /\ sent = <<>> /\ answers = <<>> /\ collided = FALSE

Died == ui.pc = "died"
Ended == ui.pc = "done" /\ srv.pc = "done"

-----------------------------------------------------------------------------
(* handleUI.                                                                *)

UI(pc) == ui' = [ui EXCEPT !.pc = pc]

ShowResponse ==
  /\ ui.pc = "poll" /\ running /\ responses # <<>>
  /\ shown' = IF Head(responses).from = "server" THEN Append(shown, Head(responses)) ELSE shown
  /\ responses' = Tail(responses)
  /\ UNCHANGED <<ui, srv, running, commands, network, history>>

StopUI ==
  /\ ui.pc = "poll" /\ ~running
  /\ UI("done")
  /\ UNCHANGED <<srv, running, queues, network, history>>

\* processCommand looks at the first letters only.
EnterLine(kind) ==
  /\ ui.pc = "poll" /\ running /\ Len(typed) < MaxLines
  /\ LET line == [kind |-> kind, id |-> Len(typed) + 1]
     IN  /\ typed' = Append(typed, line)
         /\ ui' = [pc |-> IF kind = "other" THEN "invalid" ELSE "command", line |-> line]
  /\ UNCHANGED <<srv, running, queues, network, sent, answers, collided>>

\* Mutant: the line goes in front.
PushCommandInFront ==
  /\ ui.pc = "command"
  /\ commands' = <<ui.line>> \o commands
  /\ UI("poll")
  /\ UNCHANGED <<srv, running, responses, shown, network, history>>

PushCommand ==
  /\ ui.pc = "command"
  /\ commands' = Append(commands, ui.line)
  /\ UI("poll")
  /\ UNCHANGED <<srv, running, responses, shown, network, history>>

PushInvalid ==
  /\ ui.pc = "invalid"
  /\ responses' = Append(responses, Local("invalid command"))
  /\ UI("poll")
  /\ UNCHANGED <<srv, running, commands, shown, network, history>>

-----------------------------------------------------------------------------
(* connectToServer.                                                         *)

Push(item, next) == srv' = [pc |-> "push", item |-> item, next |-> next]
Srv(pc) == srv' = [srv EXCEPT !.pc = pc]

\* Mutant: the response goes in front.
PushResponseInFront ==
  /\ srv.pc = "push"
  /\ responses' = <<srv.item>> \o responses
  /\ srv' = [pc |-> srv.next, item |-> Local("none"), next |-> "start"]
  /\ UNCHANGED <<ui, running, commands, shown, network, history>>

PushResponse ==
  /\ srv.pc = "push"
  /\ responses' = Append(responses, srv.item)
  /\ srv' = [pc |-> srv.next, item |-> Local("none"), next |-> "start"]
  /\ UNCHANGED <<ui, running, commands, shown, network, history>>

StartConnecting ==
  /\ srv.pc = "start"
  /\ Push(Local("Connecting to server..."), "connect")
  /\ UNCHANGED <<ui, running, queues, network, history>>

SendConnect ==
  /\ srv.pc = "connect"
  /\ toServer' = Append(toServer, [type |-> "CONNECT", id |-> 0])
  /\ Srv("await")
  /\ UNCHANGED <<ui, running, queues, toClient, session, history>>

ReceiveAnswer ==
  /\ srv.pc = "await" /\ toClient # <<>>
  /\ toClient' = Tail(toClient)
  /\ Push(Head(toClient), IF Head(toClient).text = "REDIRECT" THEN "redirected" ELSE "refused")
  /\ UNCHANGED <<ui, running, queues, toServer, session, history>>

\* A second of the processor's time is over, and no answer is there.
GiveUp ==
  /\ srv.pc = "await" /\ toClient = <<>>
  /\ Srv("refused")
  /\ UNCHANGED <<ui, running, queues, network, history>>

\* The new connection.
Redirect ==
  /\ srv.pc = "redirected"
  /\ toServer' = Append(toServer, [type |-> "NOOP", id |-> 0])
  /\ Push(Local("Connected to server"), "loop")
  /\ UNCHANGED <<ui, running, queues, toClient, session, history>>

Refused ==
  /\ srv.pc = "refused"
  /\ Push(Local("Could not connect to server"), "leave")
  /\ UNCHANGED <<ui, running, queues, network, history>>

Leave ==
  /\ srv.pc = "leave"
  /\ running' = FALSE
  /\ Srv("done")
  /\ UNCHANGED <<ui, queues, network, history>>

-----------------------------------------------------------------------------
(* handleServer.                                                            *)

\* Every three seconds; bound: one is on its way at a time.
SendNoop ==
  /\ srv.pc = "loop" /\ running
  /\ ~\E i \in DOMAIN toServer : toServer[i].type = "NOOP"
  /\ toServer' = Append(toServer, [type |-> "NOOP", id |-> 0])
  /\ UNCHANGED <<ui, srv, running, queues, toClient, session, history>>

NoCommand ==
  /\ srv.pc = "loop"
  /\ running => commands = <<>>
  /\ Srv(IF running THEN "listen" ELSE "done")
  /\ UNCHANGED <<ui, running, queues, network, history>>

PopThen(kind) ==
  /\ srv.pc = "loop" /\ running
  /\ commands # <<>> /\ Head(commands).kind = kind
  /\ commands' = Tail(commands)
  /\ sent' = Append(sent, Head(commands))
  /\ UNCHANGED <<ui, responses, shown, toClient, session, typed, answers, collided>>

Datagram(type) == toServer' = Append(toServer, [type |-> type, id |-> Head(commands).id])

SendFollow == PopThen("follow") /\ Datagram("FOLLOW") /\ Srv("listen") /\ UNCHANGED running
SendSend == PopThen("send") /\ Datagram("SEND") /\ Srv("listen") /\ UNCHANGED running

\* Mutant: a message that is too long is sent all the same.
SendLong ==
  /\ PopThen("long") /\ Datagram("too long")
  /\ Push(Local("Message too long"), "listen") /\ UNCHANGED running

RefuseLong ==
  /\ PopThen("long")
  /\ Push(Local("Message too long"), "listen")
  /\ UNCHANGED <<toServer, running>>

\* Mutant: the session is not told.
SendExitUntold == PopThen("exit") /\ running' = FALSE /\ Srv("listen") /\ UNCHANGED toServer

\* Mutant: the threads are not told.
SendExitOn == PopThen("exit") /\ Datagram("EXIT") /\ Srv("listen") /\ UNCHANGED running

SendExit == PopThen("exit") /\ Datagram("EXIT") /\ running' = FALSE /\ Srv("listen")

Dies == /\ ui' = [ui EXCEPT !.pc = "died"]
        /\ Srv("died")

\* substr behind the end throws, and nobody catches it.
ThrowBare ==
  /\ srv.pc = "loop" /\ running
  /\ commands # <<>> /\ Head(commands).kind = "bare"
  /\ Dies
  /\ UNCHANGED <<running, queues, network, history>>

Listen ==
  /\ srv.pc = "listen" /\ toClient # <<>>
  /\ toClient' = Tail(toClient)
  /\ Push(Head(toClient), "loop")
  /\ UNCHANGED <<ui, running, queues, toServer, session, history>>

ListenTimesOut ==
  /\ srv.pc = "listen" /\ toClient = <<>>
  /\ Srv("loop")
  /\ UNCHANGED <<ui, running, queues, network, history>>

\* Both threads use one queue at once: one of two pushes is lost, or the process
\* dies of what it reads. A push and a pop change different ends of the deque behind
\* std::queue: that they skip or repeat an item is not among their outcomes here.
Collide ==
  /\ collided' = TRUE
  /\ \/ /\ srv.pc = "push" /\ ui.pc = "invalid"
        /\ srv' = [pc |-> srv.next, item |-> Local("none"), next |-> "start"]
        /\ UI("poll")
        /\ \E item \in {srv.item, Local("invalid command")} :
             responses' = Append(responses, item)
     \/ /\ \/ srv.pc = "push" /\ ui.pc = "invalid"
           \/ srv.pc = "push" /\ ui.pc = "poll" /\ running /\ responses # <<>>
           \/ srv.pc = "loop" /\ running /\ commands # <<>> /\ ui.pc = "command"
        /\ Dies
        /\ UNCHANGED responses
  /\ UNCHANGED <<running, commands, shown, network, typed, sent, answers>>

-----------------------------------------------------------------------------
(* The server and the session.                                              *)

\* The answers are numbered as they are sent.
Answer(text) ==
  LET answer == [from |-> "server", text |-> text, id |-> Len(answers) + 1]
  IN  toClient' = Append(toClient, answer) /\ answers' = Append(answers, answer)

Arrives(type) ==
  /\ toServer # <<>> /\ Head(toServer).type = type
  /\ toServer' = Tail(toServer)
  /\ UNCHANGED <<ui, srv, running, queues, typed, sent, collided>>

\* An ERROR when two sessions are open.
AnswerConnect ==
  /\ Arrives("CONNECT")
  /\ \/ session' = "open" /\ Answer("REDIRECT")
     \/ session' = "refused" /\ Answer("ERROR")

AnswerSession ==
  \/ Arrives("NOOP") /\ session' = "joined" /\ UNCHANGED <<toClient, answers>>
  \/ Arrives("FOLLOW") /\ UNCHANGED <<session, toClient, answers>>
  \/ Arrives("SEND") /\ Answer("SEND") /\ UNCHANGED session
  \/ Arrives("EXIT") /\ Answer("Exiting") /\ session' = "closed"

Notifications == Cardinality({i \in DOMAIN answers : answers[i].text = "NOTIFICATION"})

\* Once it has had the NOOP.
Notify ==
  /\ session = "joined"
  /\ Notifications < MaxNotifications
  /\ Answer("NOTIFICATION")
  /\ UNCHANGED <<ui, srv, running, queues, toServer, session, typed, sent, collided>>

-----------------------------------------------------------------------------
UIStep == ShowResponse \/ StopUI \/ PushCommand \/ PushInvalid

ConnectStep ==
  \/ StartConnecting \/ SendConnect \/ ReceiveAnswer \/ GiveUp \/ Redirect \/ Refused \/ Leave

ServeStep ==
  \/ NoCommand \/ SendFollow \/ SendSend \/ RefuseLong \/ SendExit \/ ThrowBare
  \/ Listen \/ ListenTimesOut \/ PushResponse

ServerStep == AnswerConnect \/ AnswerSession

Next ==
  \/ UIStep \/ \E kind \in Kinds : EnterLine(kind)
  \/ ConnectStep \/ ServeStep \/ SendNoop \/ Collide
  \/ ServerStep \/ Notify

Spec == Init /\ [][Next]_vars

(* Both threads poll and never wait; so does the server. The user need not  *)
(* enter anything.                                                          *)
Fairness ==
  /\ WF_vars(UIStep) /\ WF_vars(ConnectStep \/ ServeStep) /\ WF_vars(ServerStep)
FairSpec == Spec /\ Fairness

-----------------------------------------------------------------------------
(* Properties.                                                              *)

DatagramType ==
  [type : {"CONNECT", "NOOP"}, id : {0}] \cup [type : {"FOLLOW", "SEND", "EXIT"}, id : 1 .. MaxLines]
OwnTexts ==
  {"none", "Connecting to server...", "Connected to server", "Could not connect to server",
   "Message too long", "invalid command"}
ServerTexts == {"REDIRECT", "ERROR", "SEND", "Exiting", "NOTIFICATION"}
ResponseType ==
  [from : {"client"}, text : OwnTexts, id : {0}]
    \cup [from : {"server"}, text : ServerTexts, id : Nat \ {0}]

\* Every variable has its type; only commands that the session knows are sent.
TypeOK ==
  /\ ui \in [pc : {"poll", "command", "invalid", "done", "died"},
             line : Line \cup {NoLine}]
  /\ srv \in [pc : {"start", "connect", "await", "redirected", "refused", "leave", "loop",
                    "listen", "push", "done", "died"},
              item : ResponseType,
              next : {"start", "connect", "redirected", "refused", "leave", "listen", "loop"}]
  /\ running \in BOOLEAN /\ collided \in BOOLEAN
  /\ commands \in Seq(Line) /\ typed \in Seq(Line) /\ sent \in Seq(Line)
  /\ \A q \in {responses, shown, toClient, answers} : q \in Seq(ResponseType)
  /\ toServer \in Seq(DatagramType)
  /\ session \in {"none", "refused", "open", "joined", "closed"}

\* The numbered items of q, which may have others between them, are those of S
\* out of all, each of them once and in the order of their numbers.
InOrder(q, all, S) ==
  /\ \A i \in DOMAIN q : q[i].id # 0 => q[i].id \in S /\ q[i] = all[q[i].id]
  /\ \A i, j \in DOMAIN q : i < j /\ q[i].id # 0 /\ q[j].id # 0 => q[i].id < q[j].id
  /\ \A k \in S : \E i \in DOMAIN q : q[i].id = k

\* The commands are done in the order in which the user entered them, none is
\* skipped or done twice, and EXIT is the last. A push and a pop of commands at the
\* same time leave both done, or end the process (Collide).
Commands(n) == {k \in 1 .. n : typed[k].kind # "other"}
LastSent == IF sent = <<>> THEN 0 ELSE sent[Len(sent)].id
CommandsInOrder ==
  /\ InOrder(sent, typed, Commands(LastSent))
  /\ \A i \in DOMAIN sent : sent[i].kind = "exit" => i = Len(sent)

\* Unless two pushes collide, each answer of the server is shown, or waits to be,
\* in the order in which they were sent.
Pushing == IF srv.pc = "push" THEN <<srv.item>> ELSE <<>>
AnswersKept ==
  ~collided => InOrder(shown \o responses \o Pushing \o toClient, answers, DOMAIN answers)

\* A client whose user enters EXIT ends, connected or not.
ExitEntered == \E i \in DOMAIN typed : typed[i].kind = "exit"
ExitEnds == ExitEntered ~> Ended \/ Died

\* And leaves no session behind it once it was connected.
ExitSent == \E i \in DOMAIN sent : sent[i].kind = "exit"
SessionCloses == ExitSent ~> session = "closed"
=============================================================================
