------------------------------ MODULE Command ------------------------------
(***************************************************************************)
(* The command line (command/command.cc) at work on the chirp service: a     *)
(* process per command, which turns its flags into one RPC, or into two if a *)
(* chirp replies to another, and prints what comes back.  The handlers are   *)
(* those of ChirpService; they also serve clients other than the command,    *)
(* which need not check anything before they call.                          *)
(*                                                                         *)
(* -monitor is left to Monitor.                                            *)
(***************************************************************************)
EXTENDS ChirpService

CONSTANTS
  Client,    \* the command processes that run at one time
  Nobody,    \* the client of a handler that no command waits for
  Text,      \* the text of a chirp; what it says does not matter
  OtherOps,  \* the kinds of requests that other clients make
  MaxLost    \* bound: times that a connection breaks, by itself or with the service

ASSUME CommandAssumption == Nobody \notin Client /\ Text # NoId /\ NoId \notin User
ASSUME LostAssumption == MaxLost \in Nat

VARIABLES
  from,      \* the command that waits for each handler, or Nobody
  task,      \* what each command is asked for, or NoRequest if it does not run
  state,     \* whether it is about to call, or waits for an answer
  call,      \* the request of its RPC
  answer,    \* the status and the chirps that came back
  lost

process == <<task, state, call, answer>>
commands == <<from, process, lost>>
cvars == <<vars, commands>>

-----------------------------------------------------------------------------
(* Flags.  A flag that is not given is the empty string.                    *)

Flags == [regist : User \cup {NoId}, user : User \cup {NoId}, chirp : {Text, NoId},
          reply : Id \cup {NoParent, NoId}, read : Id \cup {NoId},
          follow : User \cup {NoId}, monitor : BOOLEAN]

\* The flags that are given, by name.
Given(flags) == {name \in DOMAIN flags \ {"monitor"} : flags[name] # NoId}
                  \cup {name \in {"monitor"} : flags.monitor}

CommandHandler(flags) ==
  CASE Given(flags) = {"regist"}                 -> "kREGIST"
    [] Given(flags) = {}                         -> "kNULL"
    [] Given(flags) = {"user", "chirp"}          -> "kCHIRP"
    [] Given(flags) = {"user", "chirp", "reply"} -> "kREPLY"
    [] Given(flags) = {"read"}                   -> "kREAD"
    [] Given(flags) = {"user", "monitor"}        -> "kMONITOR"
    [] Given(flags) = {"user", "follow"}         -> "kFOLLOW"
    [] OTHER                                     -> "kOTHERS"

Called == {"kREGIST", "kCHIRP", "kREPLY", "kREAD", "kFOLLOW"}

\* Command lines that call a handler of ChirpService; the others print help.
CommandLine == {flags \in Flags : CommandHandler(flags) \in Called}

ChirpRequestMaker(user, parent) ==
  [op |-> "chirp", username |-> user, parent_id |-> parent]
FollowRequestMaker(user, tofollow) ==
  [op |-> "follow", username |-> user, to_follow |-> tofollow]
ReadRequestMaker(id) == [op |-> "read", chirp_id |-> id]

\* What a command line asks for.
Asked(flags) ==
  CASE CommandHandler(flags) = "kREGIST" -> [op |-> "register", username |-> flags.regist]
    [] CommandHandler(flags) = "kCHIRP"  -> ChirpRequestMaker(flags.user, NoParent)
    [] CommandHandler(flags) = "kREPLY"  -> ChirpRequestMaker(flags.user, flags.reply)
    [] CommandHandler(flags) = "kREAD"   -> ReadRequestMaker(flags.read)
    [] CommandHandler(flags) = "kFOLLOW" -> FollowRequestMaker(flags.user, flags.follow)

\* ChirpPost: a reply is preceded by a read of its parent, unless that is given as "-1".
FirstCall(goal) ==
  IF goal.op = "chirp" /\ goal.parent_id # NoParent
  THEN ReadRequestMaker(goal.parent_id) ELSE goal

-----------------------------------------------------------------------------
(* A command.                                                              *)

NoAnswer == [status |-> "none", chirps |-> <<>>]
Running(c) == task[c] # NoRequest
Posts(c) == task[c].op = "chirp"

\* Bound: nothing that may ask for an id starts unless there is one to spare.
WillPost(c) == Posts(c) /\ ~(call[c].op = "chirp" /\ state[c] = "wait")
IdToSpare == Cardinality({c \in Client : WillPost(c)})
               + Cardinality({h \in Handler : At(h, "ChirpHas")})
                 < Cardinality(Id \ issued)

Start(c) ==
  /\ ~Running(c)
  /\ \E flags \in CommandLine :
       /\ FirstCall(Asked(flags)).op \in Ops
       /\ Asked(flags).op = "chirp" => IdToSpare
       /\ task' = [task EXCEPT ![c] = Asked(flags)]
       /\ call' = [call EXCEPT ![c] = FirstCall(Asked(flags))]
       /\ state' = [state EXCEPT ![c] = "send"]
  /\ UNCHANGED <<vars, from, answer, lost>>

FirstStep(r) ==
  CASE r.op = "register" -> "RegisterHas"
    [] r.op = "chirp"    -> "ChirpHas"
    [] r.op = "follow"   -> "FollowHas"
    [] r.op = "read"     -> "ReadHas"

\* gRPC has a thread for the request.
Call(c) ==
  /\ Running(c) /\ state[c] = "send"
  /\ \E h \in Handler : /\ Receive(h, call[c], FirstStep(call[c]))
                        /\ from' = [from EXCEPT ![h] = c]
  /\ state' = [state EXCEPT ![c] = "wait"]
  /\ UNCHANGED <<task, call, answer, lost>>

\* (mutant) The status of the read is not looked at.
ParentFoundOrNot(c) ==
  Posts(c) /\ call[c].op = "read" /\ answer[c] # NoAnswer

\* The parent has been found: the chirp is sent.
ParentFound(c) ==
  Posts(c) /\ call[c].op = "read" /\ answer[c].status = "OK"

\* (mutant) The reply that the read filled is used again for the chirp.
PostReplyKeeps(c) ==
  /\ ParentFound(c)
  /\ call' = [call EXCEPT ![c] = task[c]]
  /\ state' = [state EXCEPT ![c] = "send"]
  /\ UNCHANGED <<vars, from, task, answer, lost>>

PostReply(c) ==
  /\ ParentFound(c)
  /\ call' = [call EXCEPT ![c] = task[c]]
  /\ state' = [state EXCEPT ![c] = "send"]
  /\ answer' = [answer EXCEPT ![c] = NoAnswer]
  /\ UNCHANGED <<vars, from, task, lost>>

\* What PrintChirp prints: if there is no chirp in the reply, a blank one.
Printed(c) ==
  IF Posts(c) /\ (call[c].op = "read" \/ answer[c].status # "OK") THEN <<NoId>>
  ELSE answer[c].chirps

\* The command prints what it got, and ends.
Exit(c) ==
  /\ answer[c] # NoAnswer /\ ~ParentFound(c)
  /\ task' = [task EXCEPT ![c] = NoRequest]
  /\ call' = [call EXCEPT ![c] = NoRequest]
  /\ answer' = [answer EXCEPT ![c] = NoAnswer]
  /\ UNCHANGED <<vars, from, state, lost>>

-----------------------------------------------------------------------------
(* The service, and what is between it and the command.                     *)

\* A reply with a status other than OK carries no message.
Message(h) ==
  CASE status'[h] # "OK"       -> <<>>
    [] pc[h] = "ChirpReplyPut" -> <<cid[h]>>
    [] pc[h] = "ReadLoop"      -> thread[h]
    [] OTHER                   -> <<>>

Serve(h) ==
  /\ Handle(h)
  /\ \/ /\ pc'[h] # "idle"
        /\ UNCHANGED <<from, answer>>
     \/ /\ pc'[h] = "idle"
        /\ from' = [from EXCEPT ![h] = Nobody]
        /\ answer' = [c \in Client |->
                        IF c = from[h] THEN [status |-> status'[h], chirps |-> Message(h)]
                        ELSE answer[c]]
  /\ UNCHANGED <<task, state, call, lost>>

Unavailable == [status |-> "UNAVAILABLE", chirps |-> <<>>]
Waiting(c) == Running(c) /\ answer[c] = NoAnswer

\* (mutant) The late answer of the handler goes to whatever the command waits for then.
LoseLate(c) ==
  /\ lost < MaxLost /\ lost' = lost + 1
  /\ Waiting(c)
  /\ answer' = [answer EXCEPT ![c] = Unavailable]
  /\ state' = [state EXCEPT ![c] = "wait"]
  /\ UNCHANGED <<vars, from, task, call>>

\* The connection breaks: the handler, if there is one, does not notice.
Lose(c) ==
  /\ lost < MaxLost /\ lost' = lost + 1
  /\ Waiting(c)
  /\ answer' = [answer EXCEPT ![c] = Unavailable]
  /\ state' = [state EXCEPT ![c] = "wait"]
  /\ from' = [h \in Handler |-> IF from[h] = c THEN Nobody ELSE from[h]]
  /\ UNCHANGED <<vars, task, call>>

ServiceRestart ==
  /\ Restart
  /\ lost < MaxLost /\ lost' = lost + 1
  /\ from' = [h \in Handler |-> Nobody]
  /\ answer' = [c \in Client |-> IF Waiting(c) /\ state[c] = "wait" THEN Unavailable
                                ELSE answer[c]]
  /\ UNCHANGED <<task, state, call>>

\* Any other client of the service.
Others(h) ==
  /\ Arrive(h)
  /\ req'[h].op \in OtherOps
  /\ req'[h].op = "chirp" => IdToSpare
  /\ UNCHANGED commands

-----------------------------------------------------------------------------
CInit ==
  /\ Init
  /\ from = [h \in Handler |-> Nobody]
  /\ task = [c \in Client |-> NoRequest]
  /\ state = [c \in Client |-> "wait"]
  /\ call = [c \in Client |-> NoRequest]
  /\ answer = [c \in Client |-> NoAnswer]
  /\ lost = 0

CommandStep(c) == Call(c) \/ PostReply(c) \/ Exit(c)

CNext == \/ \E c \in Client : Start(c) \/ CommandStep(c) \/ Lose(c)
         \/ \E h \in Handler : Serve(h) \/ Others(h)
         \/ ServiceRestart

CSpec == CInit /\ [][CNext]_cvars

\* What can run does run, and gRPC takes requests in the order of their arrival: a
\* call that finds a thread free time and again gets one.
FairCSpec ==
  /\ CSpec
  /\ \A h \in Handler : WF_cvars(Serve(h))
  /\ \A c \in Client : SF_cvars(CommandStep(c))

-----------------------------------------------------------------------------
(* Properties.                                                             *)

CommandTypeOK ==
  /\ from \in [Handler -> Client \cup {Nobody}]
  /\ state \in [Client -> {"send", "wait"}]
  /\ task \in [Client -> Request \cup {NoRequest}]
  /\ call \in [Client -> Request \cup {NoRequest}]
  /\ answer \in [Client -> [status : {"none", "OK", "ALREADY_EXISTS", "NOT_FOUND",
                                  "UNAVAILABLE"},
                        chirps : Seq(Id \cup {NoId})]]
  /\ lost \in 0 .. MaxLost

\* A handler that a command waits for serves the command's request, and no other does.
Serves(h) ==
  from[h] # Nobody =>
    /\ ~At(h, "idle") /\ req[h] = call[from[h]]
    /\ Waiting(from[h]) /\ state[from[h]] = "wait"
    /\ \A g \in Handler : from[g] = from[h] => g = h

\* The types, and who serves whom.
CTypeOK == TypeOK /\ CommandTypeOK /\ \A h \in Handler : Serves(h)

\* Whoever replies with the command replies to a chirp that is there: between the
\* read of the parent and the last step of the chirp (command.cc:52-62) the service
\* may die, and other requests run.
ReplyHasParent ==
  \A h \in Handler :
    from[h] # Nobody /\ req[h].op = "chirp" /\ req[h].parent_id # NoParent =>
      idChirp[req[h].parent_id] # Absent

\* What a command reports has happened and can still be seen when it is printed: the
\* name is registered, also if it is said to be taken; a chirp is stored as it was
\* asked for, and has a list; a thread that was read from a store that did not fail
\* begins with the chirp asked for, and all of it is stored.
ReportedIsDone ==
  \A c \in Client :
    LET Ok(op) == call[c].op = op /\ answer[c].status = "OK"
        shown  == Printed(c)
    IN  /\ call[c].op = "register" /\ answer[c].status \in {"OK", "ALREADY_EXISTS"} =>
             userId[call[c].username] # Absent
        /\ Ok("register") => userFollowed[call[c].username] # Absent
        /\ answer[c] # NoAnswer /\ call[c].op = "chirp" /\ shown # <<NoId>> =>
             /\ Len(shown) = 1 /\ shown[1] \in Id
             /\ idChirp[shown[1]] = [username |-> call[c].username,
                                     parent_id |-> call[c].parent_id]
             /\ idReply[shown[1]] # Absent
        /\ Ok("read") /\ ~ParentFound(c) /\ faults = 0 =>
             /\ shown[1] = call[c].chirp_id
             /\ \A n \in DOMAIN shown : idChirp[shown[n]] # Absent

\* Every command ends, whatever becomes of its RPCs.
EveryCommandEnds == \A c \in Client : Running(c) ~> ~Running(c)
=============================================================================
