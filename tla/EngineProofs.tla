---------------------------- MODULE EngineProofs ----------------------------
(***************************************************************************)
(* The command pipeline of the core engine for every set of listener plans, *)
(* every limit of concurrency and any number of frames and sessions: the    *)
(* gates come first, a command is answered and audited once, permits are    *)
(* accounted for, and what has obligations is not relayed unread.           *)
(***************************************************************************)
EXTENDS Engine, TLAPS

USE LimitsAssumption

(* A session between two commands.                                          *)
Between == [stage : {"read", "next", "closed"}]

Gates == {"plugins", "translate", "authorize"}
Results == {"no", "relay", "stream", "complete", "error"}

(* A command in hand or just ended.                                         *)
Command ==
  [stage : {"plugins", "translate", "authorize", "execute", "answer", "done"}, kind : Kinds,
   reads : BOOLEAN, permit : BOOLEAN, obl : BOOLEAN, passed : SUBSET Gates, executed : Results,
   audits : Nat, replies : Nat,
   end : {"open", "cursor", "unsupported", "plugin_reject", "no_permit", "translation_reject",
          "denied", "ticket", "executed"}]

(* The gates behind a command that waits at stage s.                        *)
Behind(s) ==
  CASE s = "plugins" -> {}
    [] s = "translate" -> {"plugins"}
    [] s = "authorize" -> {"plugins", "translate"}
    [] OTHER -> Gates

(* What is known of a command by how far it got.                            *)
Progress ==
  /\ InFlight => /\ cmd.passed = Behind(cmd.stage)
                 /\ cmd.audits = 0 /\ cmd.replies = 0 /\ cmd.end = "open"
                 /\ cmd.executed # "no" <=> cmd.stage = "answer"
                 /\ cmd.stage = "plugins" => ~cmd.permit
  /\ RelayedUnbound
  /\ GatesFirst /\ OneEvent /\ OneReply

(* The inductive invariant: the shape of the command, its progress, and the *)
(* two counters that every way out of the pipeline must settle.             *)
EngineInv ==
  /\ cmd \in Between \cup Command
  /\ rule.permits \in Nat /\ lost \in Nat /\ gauge \in Int
  /\ DOMAIN rule = {"permits", "started"}
  /\ Progress
  /\ PermitsAccounted
  /\ GaugeTells

LEMMA EngineInvInit == EngineInit => EngineInv
BY DEF EngineInit, EngineInv, Between, Idle, Progress, RelayedUnbound, GatesFirst, OneEvent, OneReply,
       PermitsAccounted, GaugeTells, InFlight, Over, Holding

(* A command that gets no further leaves the session between commands; its  *)
(* permit was given back or is counted as lost.                             *)
LEMMA EngineLeaves ==
  ASSUME EngineInv, cmd' \in Between, gauge' \in Int, clean' => ~InFlight /\ clean /\ gauge' = gauge,
         rule'.permits \in Nat, lost' \in Nat, DOMAIN rule' = {"permits", "started"},
         rule'.permits + lost' = MaxConcurrency
  PROVE  EngineInv'
<1>1. cmd'.stage \in {"read", "next", "closed"}
  BY DEF Between
<1>2. ~InFlight' /\ ~Over' /\ cmd'.stage # "answer"
  BY <1>1 DEF InFlight, Over
<1>3. PermitsAccounted'
  BY <1>2 DEF PermitsAccounted, Holding
<1>4. GaugeTells'
  BY <1>2 DEF GaugeTells, EngineInv
<1>5. Progress'
  BY <1>1, <1>2 DEF Progress, RelayedUnbound, GatesFirst, OneEvent, OneReply
<1> QED
  BY <1>3, <1>4, <1>5 DEF EngineInv

(* The command in hand is a full one, and the counters have room for it.    *)
LEMMA EngineInHand ==
  ASSUME EngineInv, InFlight
  PROVE  /\ cmd \in Command
         /\ rule.permits + (IF cmd.permit THEN 1 ELSE 0) + lost = MaxConcurrency
         /\ clean => gauge = 1
BY DEF EngineInv, Between, InFlight, PermitsAccounted, GaugeTells, Holding

(* An error that leaves handle_frame_inner settles the permit as lost.      *)
LEMMA EngineFrameFails ==
  ASSUME EngineInv, InFlight, FrameFails, gauge' \in Int,
         rule'.permits = rule.permits, DOMAIN rule' = DOMAIN rule
  PROVE  EngineInv'
<1>1. cmd' \in Between
  BY DEF FrameFails, Idle, Between
<1>2. lost' = lost + (IF cmd.permit THEN 1 ELSE 0) /\ clean' = FALSE
  BY EngineInHand DEF FrameFails, Lose, EngineInv, Command
<1> QED
  BY <1>1, <1>2, EngineInHand, EngineLeaves DEF EngineInv

(* A command that ends with an answer.                                      *)
LEMMA EngineEnds ==
  ASSUME EngineInv, cmd' \in Command, cmd'.stage = "done",
         GatesFirst', OneEvent', OneReply',
         gauge' \in Int, clean' => clean /\ gauge' = 0,
         rule'.permits \in Nat, lost' \in Nat, DOMAIN rule' = {"permits", "started"},
         rule'.permits + lost' = MaxConcurrency
  PROVE  EngineInv'
<1>1. ~InFlight'
  BY DEF InFlight
<1>2. PermitsAccounted' /\ GaugeTells'
  BY <1>1 DEF PermitsAccounted, GaugeTells, Holding
<1>3. Progress'
  BY <1>1 DEF Progress, RelayedUnbound
<1> QED
  BY <1>2, <1>3 DEF EngineInv

(* Every step of the session loop and of the pipeline keeps the invariant.  *)
LEMMA EngineInvStep == EngineInv /\ [EngineNext]_engineVars => EngineInv'
<1> SUFFICES ASSUME EngineInv, [EngineNext]_engineVars PROVE EngineInv'
  OBVIOUS
<1> DEFINE Typed == rule.permits \in Nat /\ lost \in Nat /\ gauge \in Int
                    /\ DOMAIN rule = {"permits", "started"}
<1>0. Typed
  BY DEF EngineInv
<1>1. ASSUME cmd.stage \in {"read", "next", "closed", "done"}
      PROVE  ~InFlight /\ rule.permits + lost = MaxConcurrency /\ (clean => gauge = 0)
  BY <1>1 DEF EngineInv, InFlight, PermitsAccounted, GaugeTells, Holding
<1>2. CASE ReadFrame
  <2>1. cmd.stage = "read" /\ cmd \in Between
    BY <1>2 DEF ReadFrame, EngineInv, Between, Command
  <2>2. cmd' \in Between /\ UNCHANGED <<rule, gauge, lost, clean>>
    BY <1>2, <2>1 DEF ReadFrame, Between
  <2> QED
    BY <1>0, <1>1, <2>1, <2>2, EngineLeaves
<1>3. CASE DecodeFails
  <2>1. cmd.stage = "read" /\ cmd \in Between
    BY <1>3 DEF DecodeFails, EngineInv, Between, Command
  <2>2. cmd' \in Between /\ UNCHANGED <<rule, gauge, lost>> /\ clean' = FALSE
    BY <1>3, <2>1 DEF DecodeFails, Between
  <2> QED
    BY <1>0, <1>1, <2>1, <2>2, EngineLeaves
<1>4. CASE NextCommand \/ FrameDone
  <2>1. cmd.stage \in {"next", "done"} /\ cmd' \in Between /\ UNCHANGED <<rule, gauge, lost, clean>>
    BY <1>4 DEF NextCommand, FrameDone, Idle, Between
  <2> QED
    BY <1>0, <1>1, <2>1, EngineLeaves
<1>5. CASE SessionEnds
  <2>1. cmd.stage \in {"read", "closed"} /\ cmd' \in Between /\ UNCHANGED <<gauge, clean>>
    BY <1>5 DEF SessionEnds, Idle, Between
  <2>2. rule' = [permits |-> MaxConcurrency, started |-> FALSE] /\ lost' = 0
    BY <1>5 DEF SessionEnds, build_connection
  <2> QED
    BY <1>0, <1>1, <2>1, <2>2, EngineLeaves
<1>6. ASSUME NEW kind \in Kinds, NEW reads \in BOOLEAN, Route(kind, reads) PROVE EngineInv'
  <2>1. cmd.stage = "next" /\ gauge' = gauge + 1 /\ cmd' = InHand(kind, reads) /\ UNCHANGED <<rule, lost, clean>>
    BY <1>6 DEF Route
  <2>2. cmd' \in Command /\ cmd'.stage = "plugins" /\ ~cmd'.permit
    BY <2>1 DEF InHand, Command, Results
  <2>3. Progress'
    BY <2>1 DEF Progress, InHand, InFlight, Over, Behind, RelayedUnbound, GatesFirst, OneEvent, OneReply
  <2>4. PermitsAccounted' /\ GaugeTells'
    BY <1>0, <1>1, <2>1, <2>2 DEF PermitsAccounted, GaugeTells, Holding, InFlight
  <2> QED
    BY <1>0, <2>1, <2>2, <2>3, <2>4 DEF EngineInv
<1>7. ASSUME NEW kind \in {"query", "params"}, reject_unsupported_capability(kind) PROVE EngineInv'
  <2>1. /\ cmd.stage = "next" /\ UNCHANGED <<rule, lost, clean, gauge>>
        /\ cmd' = [InHand(kind, FALSE) EXCEPT !.stage = "done", !.end = "unsupported",
                                              !.audits = 1, !.replies = 1]
    BY <1>7 DEF reject_unsupported_capability
  <2>2. cmd' \in Command /\ cmd'.stage = "done" /\ GatesFirst' /\ OneEvent' /\ OneReply'
    BY <2>1, Zenon DEF InHand, Command, Kinds, Results, GatesFirst, OneEvent, OneReply, Over
  <2> QED
    BY <1>0, <1>1, <2>1, <2>2, EngineEnds
<1>8. ASSUME NEW executed \in {"no", "stream", "complete"}, NEW c,
             cmd.stage = "plugins", CursorDone(executed, c)
      PROVE  EngineInv'
  <2>1. InFlight /\ cmd \in Command /\ ~cmd.permit /\ cmd.audits = 0
    BY <1>8, EngineInHand DEF InFlight, EngineInv, Progress
  <2>2. /\ cmd' = [cmd EXCEPT !.stage = "done", !.end = "cursor", !.replies = 1, !.executed = executed]
        /\ gauge' = gauge - 2 /\ clean' = FALSE /\ UNCHANGED <<rule, lost>>
    BY <1>8 DEF CursorDone
  <2>3. cmd' \in Command /\ cmd'.stage = "done" /\ GatesFirst' /\ OneEvent' /\ OneReply'
    BY <2>1, <2>2, Zenon DEF Command, Results, GatesFirst, OneEvent, OneReply, Over
  <2>4. rule.permits + lost = MaxConcurrency
    BY <1>0, <2>1, EngineInHand
  <2> QED
    BY <1>0, <2>2, <2>3, <2>4, EngineEnds
<1>9. ASSUME cmd.stage = "plugins", FrameFails, gauge' \in Int,
             rule'.permits = rule.permits, DOMAIN rule' = DOMAIN rule
      PROVE  EngineInv'
  BY <1>9, EngineFrameFails DEF InFlight
<1>10. ASSUME NEW n \in Cursors, NEW hold \in BOOLEAN, Fetch(n) \/ CloseCursor(n) \/ Declare(n, hold)
       PROVE  EngineInv'
  <2>1. CASE Fetch(n)
    BY <1>0, <1>8, <1>9, <2>1 DEF Fetch, CursorFailed
  <2>2. CASE CloseCursor(n)
    BY <1>8, <2>2 DEF CloseCursor, CursorFailed
  <2>3. CASE Declare(n, hold)
    BY <1>0, <1>8, <1>9, <2>3 DEF Declare, CursorFailed
  <2> QED
    BY <1>10, <2>1, <2>2, <2>3
<1>11. CASE UnsupportedCursor
  BY <1>8, <1>11 DEF UnsupportedCursor
<1>12. ASSUME NEW how \in {"plugin_reject", "no_permit", "translation_reject"}, InFlight, cmd.executed = "no",
              Replied(how), finish_command_metrics,
              rule'.permits \in Nat, lost' \in Nat, DOMAIN rule' = {"permits", "started"},
              rule'.permits + lost' = MaxConcurrency
       PROVE  EngineInv'
  <2>1. cmd \in Command /\ cmd.audits = 0 /\ cmd.replies = 0 /\ (clean => gauge = 1)
    BY <1>12, EngineInHand DEF EngineInv, Progress
  <2>2. cmd' = [cmd EXCEPT !.stage = "done", !.end = how, !.replies = 1] /\ gauge' = gauge - 1 /\ UNCHANGED clean
    BY <1>12, <2>1 DEF Replied, Ended, finish_command_metrics
  <2>3. /\ cmd' \in Command /\ cmd'.stage = "done" /\ cmd'.end = how
        /\ cmd'.executed = "no" /\ cmd'.audits = 0 /\ cmd'.replies = 1
    BY <1>12, <2>1, <2>2, Zenon DEF Command
  <2>4. GatesFirst' /\ OneEvent' /\ OneReply'
    BY <2>3 DEF GatesFirst, OneEvent, OneReply, Over
  <2> QED
    BY <1>0, <1>12, <2>1, <2>2, <2>3, <2>4, EngineEnds
<1>13. CASE PluginReject
  <2>1. InFlight /\ cmd.executed = "no" /\ ~cmd.permit /\ rule.permits + lost = MaxConcurrency
    BY <1>0, <1>13, EngineInHand DEF PluginReject, InFlight, EngineInv, Progress
  <2> QED
    BY <1>0, <1>9, <1>12, <1>13, <2>1 DEF PluginReject
<1>14. CASE ConcurrencyReject
  <2>1. InFlight /\ cmd.executed = "no" /\ ~cmd.permit /\ rule.permits + lost = MaxConcurrency
    BY <1>0, <1>14, EngineInHand DEF ConcurrencyReject, InFlight, EngineInv, Progress
  <2>2. rule'.permits = rule.permits /\ DOMAIN rule' = DOMAIN rule
    BY <1>0, <1>14 DEF ConcurrencyReject
  <2> QED
    BY <1>0, <1>9, <1>12, <1>14, <2>1, <2>2 DEF ConcurrencyReject
<1>15. CASE Evaluate
  <2>1. InFlight /\ cmd.stage = "plugins" /\ cmd \in Command /\ cmd.executed = "no" /\ ~cmd.permit
        /\ cmd.passed = {} /\ cmd.audits = 0 /\ cmd.replies = 0 /\ cmd.end = "open"
        /\ rule.permits + lost = MaxConcurrency
    BY <1>0, <1>15, EngineInHand DEF Evaluate, InFlight, EngineInv, Progress, Behind
  <2> DEFINE Passes(permit) ==
        cmd' = [cmd EXCEPT !.stage = "translate", !.passed = {"plugins"}, !.permit = permit]
  <2>2. \/ Passes(TRUE) /\ rule.permits > 0 /\ rule' = [permits |-> rule.permits - 1, started |-> TRUE] /\ lost' = lost
        \/ Passes(FALSE) /\ rule' = [permits |-> MaxConcurrency, started |-> FALSE] /\ lost' = 0
        \/ Passes(FALSE) /\ UNCHANGED <<rule, lost>>
    <3>2. ASSUME cmd' = [cmd EXCEPT !.stage = "translate", !.passed = @ \cup {"plugins"}] PROVE Passes(FALSE)
      <4>1. cmd' = [cmd EXCEPT !.stage = "translate", !.passed = {"plugins"}]
        BY <2>1, <3>2
      <4>2. cmd.permit = FALSE
        BY <2>1 DEF Command
      <4> QED
        BY <2>1, <4>1, <4>2, Zenon DEF Command
    <3>3. cmd' = [cmd EXCEPT !.stage = "translate", !.passed = @ \cup {"plugins"}, !.permit = TRUE] => Passes(TRUE)
      BY <2>1 DEF Command
    <3> HIDE DEF Passes
    <3> QED
      BY <1>15, <3>2, <3>3, Zenon DEF Evaluate, is_allow
  <2>3. cmd' \in Command /\ cmd'.stage = "translate" /\ cmd'.passed = {"plugins"} /\ cmd'.executed = "no"
        /\ cmd'.audits = 0 /\ cmd'.replies = 0 /\ cmd'.end = "open"
    <3>1. CASE Passes(TRUE)
      BY <2>1, <3>1, Zenon DEF Command, Gates
    <3>2. CASE Passes(FALSE)
      BY <2>1, <3>2, Zenon DEF Command, Gates
    <3> QED
      BY <2>2, <3>1, <3>2
  <2>4. /\ rule'.permits \in Nat /\ lost' \in Nat /\ DOMAIN rule' = {"permits", "started"}
        /\ rule'.permits + (IF cmd'.permit THEN 1 ELSE 0) + lost' = MaxConcurrency
    <3>1. Passes(TRUE) => cmd'.permit
      BY <2>1 DEF Command
    <3>2. Passes(FALSE) => ~cmd'.permit
      BY <2>1 DEF Command
    <3> HIDE DEF Passes
    <3>3. CASE Passes(TRUE) /\ rule.permits > 0 /\ rule' = [permits |-> rule.permits - 1, started |-> TRUE] /\ lost' = lost
      BY <1>0, <2>1, <3>1, <3>3
    <3>4. CASE Passes(FALSE) /\ rule' = [permits |-> MaxConcurrency, started |-> FALSE] /\ lost' = 0
      BY <3>2, <3>4
    <3>5. CASE Passes(FALSE) /\ UNCHANGED <<rule, lost>>
      BY <1>0, <2>1, <3>2, <3>5
    <3> QED
      BY <2>2, <3>3, <3>4, <3>5, Zenon
  <2>5. Progress'
    BY <2>3 DEF Progress, InFlight, Over, Behind, RelayedUnbound, GatesFirst, OneEvent, OneReply
  <2>6. UNCHANGED <<gauge, clean>>
    BY <1>15 DEF Evaluate
  <2>7. PermitsAccounted' /\ GaugeTells'
    BY <2>1, <2>3, <2>4, <2>6, EngineInHand DEF PermitsAccounted, GaugeTells, Holding, InFlight
  <2> QED
    BY <1>0, <2>3, <2>4, <2>5, <2>6, <2>7 DEF EngineInv
<1>16. ASSUME InFlight, cmd' \in Command, InFlight', cmd'.permit = cmd.permit,
              UNCHANGED <<rule, gauge, lost, clean>>, Progress'
       PROVE  EngineInv'
  <2>1. PermitsAccounted' /\ GaugeTells'
    BY <1>16, EngineInHand DEF PermitsAccounted, GaugeTells, Holding
  <2> QED
    BY <1>0, <1>16, <2>1 DEF EngineInv
<1>17. CASE TranslationReject
  <2>1. InFlight /\ cmd \in Command /\ cmd.executed = "no"
        /\ rule.permits + (IF cmd.permit THEN 1 ELSE 0) + lost = MaxConcurrency
    BY <1>17, EngineInHand DEF TranslationReject, InFlight, EngineInv, Progress
  <2>2. CASE Replied("translation_reject") /\ finish_command_metrics /\ Lose /\ UNCHANGED rule
    <3>1. lost' \in Nat /\ rule'.permits + lost' = MaxConcurrency
      BY <1>0, <2>1, <2>2 DEF Lose, Command
    <3> QED
      BY <1>0, <1>12, <2>1, <2>2, <3>1
  <2>3. CASE FrameFails /\ UNCHANGED <<gauge, rule>>
    BY <1>0, <2>1, <2>3, EngineFrameFails
  <2> QED
    BY <1>17, <2>2, <2>3 DEF TranslationReject
<1>18. CASE Translate
  <2>1. InFlight /\ cmd \in Command /\ cmd.stage = "translate" /\ cmd.executed = "no"
        /\ cmd.passed = {"plugins"} /\ cmd.audits = 0 /\ cmd.replies = 0 /\ cmd.end = "open"
    BY <1>18, EngineInHand DEF Translate, InFlight, EngineInv, Progress, Behind
  <2>2. cmd' = [cmd EXCEPT !.stage = "authorize", !.passed = @ \cup {"translate"}]
        /\ UNCHANGED <<rule, gauge, lost, clean>>
    BY <1>18 DEF Translate
  <2>3. cmd' \in Command /\ InFlight' /\ cmd'.permit = cmd.permit
    BY <2>1, <2>2, Zenon DEF Command, Gates, InFlight
  <2>4. Progress'
    BY <2>1, <2>2 DEF Progress, Command, InFlight, Over, Behind, RelayedUnbound, GatesFirst, OneEvent, OneReply
  <2> QED
    BY <1>16, <2>1, <2>2, <2>3, <2>4
<1>19. ASSUME NEW how \in {"denied", "ticket", "executed"}, InFlight,
              how = "executed" <=> cmd.stage = "answer",
              cmd' = [Ended(how, 1) EXCEPT !.audits = 1],
              release_concurrency, finish_command_metrics, UNCHANGED <<lost, clean>>
       PROVE  EngineInv'
  <2>1. /\ cmd \in Command /\ cmd.audits = 0 /\ cmd.replies = 0 /\ (clean => gauge = 1)
        /\ cmd.stage = "answer" => cmd.passed = Gates
        /\ cmd.stage # "answer" => cmd.executed = "no"
        /\ rule.permits + (IF cmd.permit THEN 1 ELSE 0) + lost = MaxConcurrency
    BY <1>19, EngineInHand DEF EngineInv, Progress, Behind
  <2>2. /\ cmd' = [cmd EXCEPT !.stage = "done", !.end = how, !.replies = 1, !.audits = 1]
        /\ gauge' = gauge - 1
    BY <1>19, <2>1 DEF Ended, finish_command_metrics
  <2>3. /\ cmd' \in Command /\ cmd'.stage = "done" /\ cmd'.end = how
        /\ cmd'.executed = cmd.executed /\ cmd'.passed = cmd.passed
        /\ cmd'.audits = 1 /\ cmd'.replies = 1
    <3>1. /\ cmd'.stage = "done" /\ cmd'.end = how
          /\ cmd'.executed = cmd.executed /\ cmd'.passed = cmd.passed
          /\ cmd'.audits = 1 /\ cmd'.replies = 1
      BY <2>1, <2>2 DEF Command
    <3>2. cmd' \in Command
      BY <2>1, <2>2, Zenon DEF Command
    <3> QED
      BY <3>1, <3>2
  <2>4. GatesFirst' /\ OneEvent' /\ OneReply'
    BY <1>19, <2>1, <2>3 DEF GatesFirst, OneEvent, OneReply, Over, Gates
  <2>5. /\ rule'.permits \in Nat /\ DOMAIN rule' = {"permits", "started"}
        /\ rule'.permits + lost' = MaxConcurrency
    BY <1>0, <1>19, <2>1 DEF release_concurrency, Command
  <2> QED
    BY <1>0, <1>19, <2>1, <2>2, <2>3, <2>4, <2>5, EngineEnds
<1>20. CASE Deny \/ RequireTicket
  <2>1. InFlight /\ cmd.stage # "answer"
    BY <1>20 DEF Deny, RequireTicket, InFlight
  <2>2. CASE FrameFails /\ UNCHANGED <<gauge, rule>>
    BY <1>0, <2>1, <2>2, EngineFrameFails
  <2> QED
    BY <1>19, <1>20, <2>1, <2>2 DEF Deny, RequireTicket
<1>21. ASSUME NEW obl \in BOOLEAN, Authorize(obl) PROVE EngineInv'
  <2>1. InFlight /\ cmd \in Command /\ cmd.stage = "authorize" /\ cmd.executed = "no"
        /\ cmd.passed = {"plugins", "translate"} /\ cmd.audits = 0 /\ cmd.replies = 0 /\ cmd.end = "open"
    BY <1>21, EngineInHand DEF Authorize, InFlight, EngineInv, Progress, Behind
  <2>2. cmd' = [cmd EXCEPT !.stage = "execute", !.passed = @ \cup {"authorize"}, !.obl = obl]
        /\ UNCHANGED <<rule, gauge, lost, clean>>
    BY <1>21 DEF Authorize
  <2>3. cmd' \in Command /\ InFlight' /\ cmd'.permit = cmd.permit
    BY <2>1, <2>2, Zenon DEF Command, Gates, InFlight
  <2>4. Progress'
    BY <2>1, <2>2 DEF Progress, Command, Gates, InFlight, Over, Behind, RelayedUnbound, GatesFirst, OneEvent, OneReply
  <2> QED
    BY <1>16, <2>1, <2>2, <2>3, <2>4
<1>22. ASSUME NEW o \in {"relay", "stream", "complete", "error"}, Execute(o) PROVE EngineInv'
  <2>1. InFlight /\ cmd \in Command /\ cmd.stage = "execute"
        /\ cmd.passed = Gates /\ cmd.audits = 0 /\ cmd.replies = 0 /\ cmd.end = "open"
    BY <1>22, EngineInHand DEF Execute, InFlight, EngineInv, Progress, Behind
  <2>2. cmd' = [cmd EXCEPT !.stage = "answer", !.executed = o]
        /\ UNCHANGED <<plan, rule, gauge, lost, clean>>
    BY <1>22 DEF Execute
  <2>3. cmd' \in Command /\ InFlight' /\ cmd'.permit = cmd.permit
    BY <2>1, <2>2, Zenon DEF Command, Results, InFlight
  <2>4. o = "relay" => ~cmd.obl /\ ~plan.cross
    BY <1>22 DEF Execute, Outcomes, exec_mode, want_passthrough
  <2>5. RelayedUnbound'
    BY <2>1, <2>2, <2>4 DEF RelayedUnbound, Command
  <2>6. Progress'
    BY <2>1, <2>2, <2>5 DEF Progress, Command, Gates, InFlight, Over, Behind, GatesFirst, OneEvent, OneReply
  <2> QED
    BY <1>16, <2>1, <2>2, <2>3, <2>6
<1>23. CASE AnswerRelay \/ AnswerStream
  <2>1. InFlight /\ cmd.stage = "answer"
    BY <1>23 DEF AnswerRelay, AnswerStream, InFlight
  <2>2. CASE Sent
    BY <1>19, <2>1, <2>2 DEF Sent
  <2>3. CASE FrameFails /\ UNCHANGED <<gauge, rule>>
    BY <1>0, <2>1, <2>3, EngineFrameFails
  <2> QED
    BY <1>23, <2>2, <2>3 DEF AnswerRelay, AnswerStream
<1>24. CASE AnswerComplete
  <2>1. InFlight /\ cmd.stage = "answer"
    BY <1>24 DEF AnswerComplete, InFlight
  <2>2. CASE /\ cmd' = [Ended("executed", 1) EXCEPT !.audits = 1]
             /\ release_concurrency /\ finish_command_metrics /\ UNCHANGED <<lost, clean>>
    BY <1>19, <2>1, <2>2
  <2>3. CASE release_concurrency /\ clean' = FALSE /\ cmd' \in Between /\ UNCHANGED <<gauge, lost>>
    <3>1. /\ rule'.permits \in Nat /\ DOMAIN rule' = {"permits", "started"}
          /\ rule'.permits + lost' = MaxConcurrency
      BY <1>0, <2>1, <2>3, EngineInHand DEF release_concurrency, Command
    <3> QED
      BY <1>0, <2>3, <3>1, EngineLeaves
  <2>4. CASE /\ release_concurrency /\ clean' = FALSE
             /\ cmd' = Idle \/ cmd' = [stage |-> "closed"]
             /\ UNCHANGED <<gauge, lost>>
    <3>1. cmd' \in Between
      BY <2>4 DEF Idle, Between
    <3> QED
      BY <2>3, <2>4, <3>1, Zenon
  <2> QED
    BY <1>24, <2>2, <2>4, Zenon DEF AnswerComplete
<1>25. CASE UNCHANGED engineVars
  BY <1>25 DEF engineVars, EngineInv, Progress, RelayedUnbound, GatesFirst, OneEvent, OneReply,
               PermitsAccounted, GaugeTells, InFlight, Over, Holding
<1> QED
  BY <1>2, <1>3, <1>4, <1>5, <1>6, <1>7, <1>10, <1>11, <1>13, <1>14, <1>15, <1>17, <1>18, <1>20, <1>21,
     <1>22, <1>23, <1>24, <1>25 DEF EngineNext

(* The gates of handle_frame_inner come first for every listener plan and   *)
(* every limit, and relayed packets carry no obligation (want_passthrough). *)
THEOREM GatesAlwaysHold == EngineSpec => []GatesHold
<1>1. EngineInv => GatesHold
  BY DEF EngineInv, Progress, GatesHold
<1> QED
  BY <1>1, EngineInvInit, EngineInvStep, PTL DEF EngineSpec

(* No path gives back a permit it did not take or gives one back twice, and *)
(* the gauge is 0 between commands (release_concurrency, is_allow,          *)
(* finish_command_metrics).                                                 *)
THEOREM CountersAlwaysSettle == EngineSpec => []CountersSettle
<1>1. EngineInv => CountersSettle
  BY DEF EngineInv, CountersSettle
<1> QED
  BY <1>1, EngineInvInit, EngineInvStep, PTL DEF EngineSpec

(* A command that ends was answered once and left the audit events of its   *)
(* end (try_audit).                                                         *)
THEOREM OutcomeAlwaysOne == EngineSpec => []OneOutcome
<1>1. EngineInv => OneOutcome
  BY DEF EngineInv, Progress, OneOutcome
<1> QED
  BY <1>1, EngineInvInit, EngineInvStep, PTL DEF EngineSpec

-----------------------------------------------------------------------------
(* A session of a listener with plan p.                                     *)
Conn(p) == [ext : BOOLEAN, err : BOOLEAN, txn : {"idle", "active", "failed"}, ep : DOMAIN p.endpoints,
            cursors : SUBSET [name : Cursors, hold : BOOLEAN]]

(* With read/write splitting a transaction is open at a primary only, which *)
(* is why sticking to its endpoint is enough.                               *)
TransactionAtPrimary ==
  plan.kind = "split" /\ conn.txn = "active" => plan.endpoints[conn.ep] # "read"

(* Packets and streams answer only what may return rows, so no transaction  *)
(* ends and no session is left by them.                                     *)
RowsOnly ==
  InFlight /\ cmd.executed \in {"relay", "stream"} => cmd.kind \in RowKinds \cup {"sync"}

(* The inductive invariant of the session.                                  *)
SessionInv ==
  /\ plan \in Plans /\ conn \in Conn(plan) /\ left \in 0..MaxBatch
  /\ TransactionAtPrimary /\ RowsOnly /\ WritesAtPrimary /\ UnitStops

(* What a step may do to the endpoint and to the cursors.                   *)
EndpointMove == conn.txn = "active" /\ conn'.txn = "active" /\ sessions' = sessions => conn'.ep = conn.ep
CursorMove ==
  InFlight /\ cmd'.stage = "done" /\ cmd'.end = "executed" =>
       conn'.cursors = CASE cmd.kind = "quit" -> {}
                         [] cmd.kind = "end" -> {c \in conn.cursors : c.hold}
                         [] OTHER -> conn.cursors

LEMMA SessionInvInit == EngineInit => SessionInv
BY PlansAssumption DEF EngineInit, SessionInv, Conn, Idle, TransactionAtPrimary, RowsOnly, WritesAtPrimary, UnitStops, InFlight, Over

(* An error in an extended unit keeps the endpoint and the cursors, makes   *)
(* the rest of the unit be skipped and leaves no transaction active.        *)
LEMMA UnitFailsKeeps ==
  ASSUME conn \in Conn(plan)
  PROVE  /\ UnitFails \in Conn(plan) /\ UnitFails.ep = conn.ep /\ UnitFails.cursors = conn.cursors
         /\ UnitFails.ext = conn.ext
         /\ UnitFails.txn = "active" => conn.txn = "active"
         /\ plan.front = "pg" /\ conn.ext => UnitFails.err /\ UnitFails.txn # "active"
BY Zenon DEF Conn, UnitFails, Failed

(* A step after which no command is in hand.                                *)
LEMMA SessionRests ==
  ASSUME SessionInv, plan' = plan, left' \in 0..MaxBatch,
         conn' \in Conn(plan), conn'.ep = conn.ep, TransactionAtPrimary',
         ~InFlight', UnitStops'
  PROVE  SessionInv' /\ EndpointMove
BY DEF SessionInv, EndpointMove, RowsOnly, WritesAtPrimary

(* A step that leaves the session between two commands.                     *)
LEMMA SessionBetween ==
  ASSUME SessionInv, plan' = plan, left' \in 0..MaxBatch,
         conn' \in Conn(plan), conn'.ep = conn.ep, conn'.txn = "active" => conn.txn = "active",
         cmd' \in Between
  PROVE  SessionInv' /\ EndpointMove /\ CursorMove
<1>1. cmd'.stage \in {"read", "next", "closed"}
  BY DEF Between
<1>2. ~InFlight' /\ ~Over' /\ UnitStops' /\ CursorMove
  BY <1>1 DEF InFlight, Over, UnitStops, CursorMove
<1>3. TransactionAtPrimary'
  BY DEF TransactionAtPrimary, SessionInv
<1> QED
  BY <1>2, <1>3, SessionRests

(* An error that leaves handle_frame_inner.                                 *)
LEMMA SessionFrameFails ==
  ASSUME SessionInv, FrameFails
  PROVE  SessionInv' /\ EndpointMove /\ CursorMove
<1>1. cmd' \in Between /\ plan' = plan /\ left' = 0 /\ (conn' = UnitFails \/ conn' = conn)
  BY DEF FrameFails, Idle, Between
<1>2. conn \in Conn(plan) /\ 0 \in 0..MaxBatch
  BY DEF SessionInv
<1> QED
  BY <1>1, <1>2, UnitFailsKeeps, SessionBetween

(* A command that ends by other means than its execution.                   *)
LEMMA SessionRefused ==
  ASSUME SessionInv, plan' = plan, left' \in 0..MaxBatch,
         conn' \in Conn(plan), conn'.ep = conn.ep, conn'.txn = "active" => conn.txn = "active",
         cmd'.stage = "done", cmd'.end # "executed", cmd'.executed # "error",
         cmd'.end \in {"translation_reject", "unsupported"} => conn' = UnitFails
  PROVE  SessionInv' /\ EndpointMove /\ CursorMove
<1>1. ~InFlight' /\ CursorMove
  BY DEF InFlight, CursorMove
<1>2. UnitStops'
  BY UnitFailsKeeps DEF UnitStops, SessionInv
<1>3. TransactionAtPrimary'
  BY DEF TransactionAtPrimary, SessionInv
<1> QED
  BY <1>1, <1>2, <1>3, SessionRests

(* Every step keeps the invariant of the session, the endpoint of an active *)
(* transaction, and the cursors a command does not drop.                    *)
LEMMA SessionStep ==
  ASSUME EngineInv, SessionInv, EngineNext
  PROVE  SessionInv' /\ EndpointMove /\ CursorMove
<1>0. /\ plan \in Plans /\ conn \in Conn(plan) /\ left \in 0..MaxBatch /\ 0 \in 0..MaxBatch
      /\ left > 0 => left - 1 \in 0..MaxBatch
  BY DEF SessionInv
<1>1. /\ InFlight => cmd \in Command
      /\ InFlight /\ cmd.stage # "answer" => cmd.executed = "no"
  BY EngineInHand DEF EngineInv, Progress
<1>2. CASE ReadFrame
  <2>1. cmd.stage = "read" /\ cmd \in Between
    BY <1>2 DEF ReadFrame, EngineInv, Between, Command
  <2>2. cmd' \in Between /\ plan' = plan /\ left' \in 0..MaxBatch
    BY <1>0, <1>2, <2>1 DEF ReadFrame, Between
  <2>3. conn' \in Conn(plan) /\ conn'.ep = conn.ep /\ conn'.txn = conn.txn
    BY <1>0, <1>2, Zenon DEF ReadFrame, Conn
  <2> QED
    BY <2>2, <2>3, SessionBetween
<1>3. CASE DecodeFails
  <2>1. cmd.stage = "read" /\ cmd \in Between
    BY <1>3 DEF DecodeFails, EngineInv, Between, Command
  <2>2. cmd' \in Between /\ plan' = plan /\ left' = 0 /\ (conn' = UnitFails \/ conn' = conn)
    BY <1>3, <2>1 DEF DecodeFails, Between
  <2> QED
    BY <1>0, <2>2, UnitFailsKeeps, SessionBetween
<1>4. CASE NextCommand \/ FrameDone
  <2>1. cmd' \in Between /\ UNCHANGED <<plan, conn, left>>
    BY <1>4 DEF NextCommand, FrameDone, Idle, Between
  <2> QED
    BY <1>0, <2>1, SessionBetween
<1>5. CASE SessionEnds
  <2>1. cmd' = Idle /\ plan' = plan /\ left' = 0 /\ build_connection
    BY <1>5 DEF SessionEnds
  <2>2. plan_for_role("readwrite") \subseteq DOMAIN plan.endpoints
    BY <1>0, PlansAssumption DEF plan_for_role, build_read_write, Role, Endpoints
  <2>3. conn' \in Conn(plan) /\ conn'.txn = "idle"
    BY <2>1, <2>2 DEF build_connection, Conn
  <2> QED
    BY <1>0, <2>1, <2>3 DEF SessionInv, EndpointMove, CursorMove, Idle, InFlight, Over,
                            TransactionAtPrimary, RowsOnly, WritesAtPrimary, UnitStops
<1>6. ASSUME NEW kind \in Kinds, NEW reads \in BOOLEAN, reads => kind \in {"query", "params"}, Route(kind, reads)
      PROVE  SessionInv' /\ EndpointMove /\ CursorMove
  <2>1. PICK e \in plan_command(kind, reads) : conn' = [conn EXCEPT !.ep = e]
    BY <1>6 DEF Route
  <2>2. plan' = plan /\ left' \in 0..MaxBatch /\ cmd' = InHand(kind, reads)
    BY <1>0, <1>6 DEF Route
  <2>3. e \in DOMAIN plan.endpoints
    BY <1>0, PlansAssumption DEF plan_command, plan_for_role, build_read_write, Role, Endpoints, Conn
  <2>4. conn' \in Conn(plan) /\ conn'.ep = e /\ conn'.txn = conn.txn
    BY <1>0, <2>1, <2>3 DEF Conn
  <2>5. conn.txn = "active" => e = conn.ep
    BY DEF plan_command
  <2>6. plan.kind = "split" /\ conn.txn # "active" /\ plan.endpoints[e] = "read"
          => kind \in {"query", "params"} /\ reads
    BY DEF plan_command, plan_for_role, command_target_role, build_read_write, Role
  <2>7. cmd'.stage = "plugins" /\ cmd'.kind = kind /\ cmd'.reads = reads /\ cmd'.executed = "no"
    BY <2>2 DEF InHand
  <2>8. TransactionAtPrimary' /\ WritesAtPrimary'
    BY <2>2, <2>4, <2>5, <2>6, <2>7 DEF TransactionAtPrimary, WritesAtPrimary, SessionInv
  <2> QED
    BY <1>0, <2>2, <2>4, <2>5, <2>7, <2>8 DEF SessionInv, EndpointMove, CursorMove, RowsOnly, UnitStops, Over
<1>7. ASSUME NEW kind \in {"query", "params"}, reject_unsupported_capability(kind)
      PROVE  SessionInv' /\ EndpointMove /\ CursorMove
  <2>1. conn' = UnitFails /\ plan' = plan /\ left' \in 0..MaxBatch
    BY <1>0, <1>7 DEF reject_unsupported_capability
  <2>2. cmd'.stage = "done" /\ cmd'.end = "unsupported" /\ cmd'.executed = "no"
    BY <1>7 DEF reject_unsupported_capability, InHand
  <2> QED
    BY <1>0, <2>1, <2>2, UnitFailsKeeps, SessionRefused
<1>8. ASSUME NEW executed \in {"no", "stream", "complete"}, NEW c \in Conn(plan),
             c.ep = conn.ep, c.txn = "active" => conn.txn = "active",
             cmd.stage = "plugins", CursorDone(executed, c)
      PROVE  SessionInv' /\ EndpointMove /\ CursorMove
  <2>1. cmd \in Command
    BY <1>1, <1>8 DEF InFlight
  <2>2. cmd'.stage = "done" /\ cmd'.end = "cursor" /\ cmd'.executed = executed
    BY <1>8, <2>1 DEF CursorDone, Command
  <2>3. conn' = c /\ UNCHANGED <<plan, left>>
    BY <1>8 DEF CursorDone
  <2> QED
    BY <1>0, <1>8, <2>2, <2>3, SessionRefused
<1>9. ASSUME cmd.stage = "plugins", CursorFailed(conn)
      PROVE  SessionInv' /\ EndpointMove /\ CursorMove
  <2>1. [conn EXCEPT !.txn = Failed(conn.txn)] \in Conn(plan)
        /\ [conn EXCEPT !.txn = Failed(conn.txn)].ep = conn.ep
        /\ [conn EXCEPT !.txn = Failed(conn.txn)].txn # "active"
    BY <1>0 DEF Conn, Failed
  <2> QED
    BY <1>8, <1>9, <2>1, Zenon DEF CursorFailed
<1>10. ASSUME NEW n \in Cursors, NEW hold \in BOOLEAN, Fetch(n) \/ CloseCursor(n) \/ Declare(n, hold)
       PROVE  SessionInv' /\ EndpointMove /\ CursorMove
  <2> DEFINE Dropped == [conn EXCEPT !.cursors = @ \ Named(n)]
             Lost == [conn EXCEPT !.cursors = @ \ Named(n), !.txn = "failed"]
             Added == [conn EXCEPT !.cursors = @ \cup {[name |-> n, hold |-> hold]}]
  <2>1. cmd.stage = "plugins"
    BY <1>10 DEF Fetch, CloseCursor, Declare
  <2>2. \A c \in {Dropped, Lost, Added} :
           c \in Conn(plan) /\ c.ep = conn.ep /\ (c.txn = "active" => conn.txn = "active")
    <3>1. Dropped \in Conn(plan) /\ Dropped.ep = conn.ep /\ Dropped.txn = conn.txn
      BY <1>0 DEF Conn
    <3>2. Lost \in Conn(plan) /\ Lost.ep = conn.ep /\ Lost.txn = "failed"
      BY <1>0, Zenon DEF Conn
    <3>3. Added \in Conn(plan) /\ Added.ep = conn.ep /\ Added.txn = conn.txn
      BY <1>0 DEF Conn
    <3> HIDE DEF Dropped, Lost, Added
    <3> QED
      BY <3>1, <3>2, <3>3
  <2>3. \/ CursorFailed(conn)
        \/ FrameFails
        \/ \E x \in {"no", "stream", "complete"}, c \in {conn, Dropped, Lost, Added} : CursorDone(x, c)
    BY <1>10 DEF Fetch, CloseCursor, Declare
  <2> HIDE DEF Dropped, Lost, Added
  <2> QED
    BY <1>0, <1>8, <1>9, <2>1, <2>2, <2>3, SessionFrameFails
<1>11. CASE UnsupportedCursor
  BY <1>0, <1>8, <1>11 DEF UnsupportedCursor
<1>12. ASSUME NEW how \in {"plugin_reject", "no_permit", "translation_reject"},
              InFlight, cmd.stage # "answer", Replied(how),
              conn' = UnitFails \/ (conn' = conn /\ how # "translation_reject")
       PROVE  SessionInv' /\ EndpointMove /\ CursorMove
  <2>1. cmd \in Command /\ cmd.executed = "no"
    BY <1>1, <1>12
  <2>2. cmd'.stage = "done" /\ cmd'.end = how /\ cmd'.executed = "no"
    BY <1>12, <2>1 DEF Replied, Ended, Command
  <2>3. UNCHANGED <<plan, left>>
    BY <1>12 DEF Replied
  <2> QED
    BY <1>0, <1>12, <2>2, <2>3, UnitFailsKeeps, SessionRefused
<1>13. CASE PluginReject \/ ConcurrencyReject \/ TranslationReject
  <2>1. InFlight /\ cmd.stage # "answer"
    BY <1>13 DEF PluginReject, ConcurrencyReject, TranslationReject, InFlight
  <2>2. CASE FrameFails
    BY <2>2, SessionFrameFails
  <2> QED
    BY <1>12, <1>13, <2>1, <2>2 DEF PluginReject, ConcurrencyReject, TranslationReject
<1>14. ASSUME InFlight, InFlight', UNCHANGED <<plan, conn, left>>, cmd'.executed = "no",
              cmd'.kind = cmd.kind, cmd'.reads = cmd.reads
       PROVE  SessionInv' /\ EndpointMove /\ CursorMove
  BY <1>14 DEF SessionInv, EndpointMove, CursorMove, TransactionAtPrimary, RowsOnly, WritesAtPrimary,
               UnitStops, InFlight, Over
<1>15. CASE Evaluate \/ Translate \/ \E obl \in BOOLEAN : Authorize(obl)
  <2>1. cmd.stage \in {"plugins", "translate", "authorize"} /\ UNCHANGED <<plan, conn, left>>
    BY <1>15, Zenon DEF Evaluate, Translate, Authorize
  <2>2. cmd \in Command /\ cmd.executed = "no"
    BY <1>1, <2>1 DEF InFlight
  <2>3. cmd'.stage \in {"translate", "authorize", "execute"} /\ cmd'.executed = "no"
        /\ cmd'.kind = cmd.kind /\ cmd'.reads = cmd.reads
    <3>1. CASE Evaluate
      BY <2>2, <3>1, Zenon DEF Evaluate, is_allow, Command
    <3>2. CASE Translate
      BY <2>2, <3>2 DEF Translate, Command
    <3>3. CASE \E obl \in BOOLEAN : Authorize(obl)
      BY <2>2, <3>3 DEF Authorize, Command
    <3> QED
      BY <1>15, <3>1, <3>2, <3>3
  <2> QED
    BY Zenon, <1>14, <2>1, <2>3 DEF InFlight
<1>16. CASE Deny \/ RequireTicket
  <2>1. cmd \in Command /\ cmd.executed = "no"
    BY <1>1, <1>16 DEF Deny, RequireTicket, InFlight
  <2>2. CASE FrameFails
    BY <2>2, SessionFrameFails
  <2>3. ASSUME NEW how \in {"denied", "ticket"}, cmd' = [Ended(how, 1) EXCEPT !.audits = 1],
               UNCHANGED <<plan, conn, left>>
        PROVE  SessionInv' /\ EndpointMove /\ CursorMove
    <3>1. cmd'.stage = "done" /\ cmd'.end = how /\ cmd'.executed = "no"
      BY <2>1, <2>3 DEF Ended, Command
    <3> QED
      BY <1>0, <2>3, <3>1, SessionRefused
  <2> QED
    BY <1>16, <2>2, <2>3 DEF Deny, RequireTicket
<1>17. ASSUME NEW o \in {"relay", "stream", "complete", "error"}, Execute(o)
       PROVE  SessionInv' /\ EndpointMove /\ CursorMove
  <2>1. InFlight /\ cmd \in Command /\ UNCHANGED <<plan, left>>
    BY <1>1, <1>17 DEF Execute, InFlight
  <2>2. cmd'.stage = "answer" /\ cmd'.executed = o /\ cmd'.kind = cmd.kind /\ cmd'.reads = cmd.reads
    BY <1>17, <2>1 DEF Execute, Command
  <2>3. conn' \in Conn(plan) /\ conn'.ep = conn.ep /\ conn'.txn = TxnAfter(o)
    BY <1>0, <1>17 DEF Execute, Conn, TxnAfter
  <2>4. cmd.kind \in {"query", "params"} => TxnAfter(o) = conn.txn
    BY DEF TxnAfter
  <2>5. TxnAfter(o) = "active" => conn.txn = "active" \/ cmd.kind = "begin"
    BY DEF TxnAfter
  <2>6. TransactionAtPrimary' /\ WritesAtPrimary'
    BY <2>1, <2>2, <2>3, <2>4, <2>5 DEF TransactionAtPrimary, WritesAtPrimary, SessionInv
  <2>7. RowsOnly'
    <3>1. plan.stream # "passthrough"
      BY <1>0, PlansAssumption
    <3>2. exec_mode = "passthrough" => cmd.kind \in RowKinds \cup {"sync"}
      BY <3>1 DEF exec_mode, want_passthrough
    <3>3. o \in {"relay", "stream"} => cmd.kind \in RowKinds \cup {"sync"}
      BY <1>17, <3>2 DEF Execute, Outcomes
    <3> QED
      BY <2>2, <3>3 DEF RowsOnly
  <2> QED
    BY <1>0, <2>1, <2>2, <2>3, <2>6, <2>7 DEF SessionInv, EndpointMove, CursorMove, UnitStops, Over
<1>18. CASE AnswerRelay \/ AnswerStream
  <2>1. InFlight /\ cmd \in Command /\ cmd.executed \in {"relay", "stream"} /\ cmd.kind \in RowKinds \cup {"sync"}
    BY <1>1, <1>18 DEF AnswerRelay, AnswerStream, InFlight, SessionInv, RowsOnly
  <2>2. CASE FrameFails
    BY <2>2, SessionFrameFails
  <2>3. CASE Sent /\ \/ conn' = UnitFails \/ conn' = conn
                     \/ \E txn \in ReadyStatus : conn' = [conn EXCEPT !.txn = txn]
    <3>1. cmd'.stage = "done" /\ cmd'.end = "executed" /\ cmd'.executed = cmd.executed
      BY <2>1, <2>3 DEF Sent, Ended, Command
    <3>2. UNCHANGED <<plan, left>>
      BY <2>3 DEF Sent
    <3>3. conn' \in Conn(plan) /\ conn'.ep = conn.ep /\ conn'.cursors = conn.cursors
          /\ (conn'.txn = "active" => conn.txn = "active" \/ ~cmd.reads)
      <4>1. CASE conn' = UnitFails \/ conn' = conn
        BY <1>0, <4>1, UnitFailsKeeps
      <4>2. CASE \E txn \in ReadyStatus : conn' = [conn EXCEPT !.txn = txn]
        BY <1>0, <4>2 DEF Conn, ReadyStatus
      <4> QED
        BY <2>3, <4>1, <4>2
    <3>4. TransactionAtPrimary'
      BY <2>1, <3>2, <3>3 DEF TransactionAtPrimary, WritesAtPrimary, SessionInv
    <3>5. ~InFlight' /\ UnitStops'
      BY <2>1, <3>1 DEF InFlight, UnitStops
    <3>6. CursorMove
      BY <2>1, <3>3 DEF CursorMove, RowKinds
    <3> QED
      BY <1>0, <3>2, <3>3, <3>4, <3>5, <3>6, SessionRests
  <2> QED
    BY <1>18, <2>2, <2>3 DEF AnswerRelay, AnswerStream
<1>19. CASE AnswerComplete
  <2>1. InFlight /\ cmd \in Command /\ cmd.executed \in {"complete", "error"}
    BY <1>1, <1>19 DEF AnswerComplete, InFlight
  <2>2. /\ Errored \in Conn(plan) /\ Errored.ep = conn.ep /\ Errored.cursors = conn.cursors /\ Errored.ext = conn.ext
        /\ Errored.txn = "active" => conn.txn = "active"
        /\ plan.front = "pg" /\ conn.ext /\ cmd.executed = "error" => Errored.err /\ Errored.txn # "active"
    BY <1>0, Zenon DEF Errored, Conn, Failed
  <2>3. CASE /\ cmd' = [Ended("executed", 1) EXCEPT !.audits = 1]
             /\ conn' = CursorsAfter(Errored) /\ UNCHANGED <<plan, left>>
    <3>1. cmd'.stage = "done" /\ cmd'.end = "executed" /\ cmd'.executed = cmd.executed
      BY <2>1, <2>3 DEF Ended, Command
    <3>2. /\ conn' \in Conn(plan) /\ conn'.ep = conn.ep /\ conn'.ext = Errored.ext
          /\ conn'.err = Errored.err /\ conn'.txn = Errored.txn
      BY <2>2, <2>3 DEF CursorsAfter, drop_all_named_cursors, drop_non_hold_named_cursors, Conn
    <3>3. CursorMove
      BY <2>2, <2>3 DEF CursorMove, CursorsAfter, drop_all_named_cursors, drop_non_hold_named_cursors, Conn
    <3>4. ~InFlight' /\ UnitStops'
      BY <2>1, <2>2, <2>3, <3>1, <3>2 DEF InFlight, UnitStops
    <3>5. TransactionAtPrimary'
      BY <2>2, <2>3, <3>2 DEF TransactionAtPrimary, SessionInv
    <3> QED
      BY <1>0, <2>3, <3>2, <3>3, <3>4, <3>5, SessionRests
  <2>4. CASE /\ cmd' \in Between /\ left' = 0 /\ plan' = plan
             /\ \/ conn' = [Errored EXCEPT !.err = @ \/ conn.ext, !.txn = IF conn.ext THEN Failed(@) ELSE @]
                \/ conn' = conn
    <3>1. conn' \in Conn(plan) /\ conn'.ep = conn.ep /\ (conn'.txn = "active" => conn.txn = "active")
      BY <1>0, <2>2, <2>4, Zenon DEF Conn, Failed
    <3> QED
      BY <1>0, <2>4, <3>1, SessionBetween
  <2> QED
    BY <1>19, <2>3, <2>4 DEF AnswerComplete, Idle, Between
<1> QED
  BY <1>2, <1>3, <1>4, <1>5, <1>6, <1>7, <1>10, <1>11, <1>13, <1>15, <1>16, <1>17, <1>18, <1>19, Zenon DEF EngineNext

(* Transactions stick to their endpoint, which with read/write splitting is *)
(* a primary; writes go there too; a unit that failed stops; COMMIT, ROLLBACK*)
(* and QUIT drop exactly the cursors they should (plan_command,             *)
(* command_target_role, drop_non_hold_named_cursors, pg_extended_error).    *)
THEOREM SessionAlwaysKept == EngineSpec => SessionKept
<1>1. EngineInit => EngineInv /\ SessionInv
  BY EngineInvInit, SessionInvInit
<1>2. ASSUME EngineInv, SessionInv, [EngineNext]_engineVars
      PROVE  SessionInv' /\ [EndpointMove]_engineVars /\ [CursorMove]_engineVars
  <2>1. CASE EngineNext
    BY <1>2, <2>1, SessionStep
  <2>2. CASE UNCHANGED engineVars
    BY <1>2, <2>2 DEF engineVars, SessionInv, Conn, TransactionAtPrimary, RowsOnly, WritesAtPrimary, UnitStops,
                      InFlight, Over, Endpoints
  <2> QED
    BY <1>2, <2>1, <2>2
<1>3. EngineInv /\ SessionInv => EngineTypeOK /\ WritesAtPrimary /\ UnitStops
  BY DEF EngineInv, SessionInv, Conn, EngineTypeOK, Endpoints, PermitsAccounted
<1>4. TransactionSticks <=> [][EndpointMove]_engineVars
  BY DEF TransactionSticks, EndpointMove
<1>5. CursorsSurvive <=> [][CursorMove]_engineVars
  BY DEF CursorsSurvive, CursorMove
<1> QED
  BY <1>1, <1>2, <1>3, <1>4, <1>5, EngineInvStep, PTL DEF EngineSpec, SessionKept

=============================================================================
