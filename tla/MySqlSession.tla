---------------------------- MODULE MySqlSession ----------------------------
(***************************************************************************)
(* The session of a MySQL client on the core engine: the loop of            *)
(* run_mysql_core_session, the commands MySqlFrontendProtocol decodes and   *)
(* the replies it encodes, the registry of prepared statements behind them, *)
(* and the numbering of packets by PacketCodec.  What a statement is, and   *)
(* what the policies and the backend make of it, is one choice: rows, OK,   *)
(* an error to encode, or an error that leaves the engine.                  *)
(***************************************************************************)
EXTENDS Naturals, Sequences, FiniteSets

CONSTANTS MaxFrames,    \* commands of a client
          IdLimit       \* the statement ids wrap here (2^32 in the code)

VARIABLES
  client,   \* the command the client is waiting for: [com, id, frames]
  flags,    \* suppress_next_response and prefer_binary_result
  reg,      \* the registry: next_id, and the text under each id
  known,    \* the ids the client was given, with the texts it prepared
  seq,      \* PacketCodec's sequence number
  reply,    \* the packets of the reply to the last command
  ran,      \* the text the last Execute ran (0: none)
  frames,   \* commands so far
  skipped   \* an Execute or a Close has failed before its reply was encoded

sessVars == <<client, flags, reg, known, seq, reply, ran, frames, skipped>>

Quiet == [com |-> "none", id |-> 0, packets |-> 0]
Ids == 0 .. IdLimit - 1

SessInit ==
  /\ client = Quiet /\ flags = [suppress |-> FALSE, binary |-> FALSE]
  /\ reg = [next |-> 0, sql |-> [i \in {} |-> 0]] /\ known = [i \in {} |-> 0]
  /\ seq = 0 /\ reply = <<>> /\ ran = 0 /\ frames = 0 /\ skipped = FALSE

(* A frame arrives.  One of 16 MB comes in two packets: Decoder::decode     *)
(* counts both.                                                             *)
ReadFrame ==
  /\ client = Quiet /\ frames < MaxFrames /\ frames' = frames + 1
  /\ \E com \in {"query", "init_db", "ping", "prepare", "execute", "close", "reset", "other", "quit"} :
       \E id \in IF com \in {"execute", "close"} THEN Ids ELSE {0} :
         \E packets \in IF com = "query" THEN {1, 2} ELSE {1} :
           /\ client' = [com |-> com, id |-> id, packets |-> packets]
           /\ seq' = seq + packets
  /\ reply' = <<>> /\ ran' = 0 /\ UNCHANGED <<flags, reg, known, skipped>>

(* The packets of a reply, each with the next sequence number, and the      *)
(* reset behind the last one.                                               *)
Numbered(kinds) == [i \in DOMAIN kinds |-> [kind |-> kinds[i], seq |-> seq + i - 1]]
Answer(kinds) == reply' = Numbered(kinds) /\ seq' = 0 /\ client' = Quiet /\ UNCHANGED frames

(* Mutant of EncodeReply: the flag for binary rows stays set.               *)
EncodeReplyKeeps(kinds) ==
  /\ Answer(IF flags.suppress THEN <<>> ELSE kinds)
  /\ flags' = [suppress |-> FALSE, binary |-> flags.binary \/ client.com = "execute"]
  /\ UNCHANGED skipped

(* encode() swallows the one reply after Close; encode_response_to_writer   *)
(* then takes the flag for binary rows back.                                *)
EncodeReply(kinds) ==
  /\ Answer(IF flags.suppress \/ client.com = "close" THEN <<>> ELSE kinds)
  /\ flags' = [suppress |-> FALSE, binary |-> FALSE] /\ UNCHANGED skipped

(* The rows of a result are written by header, rows and footer: they do not *)
(* ask whether the reply is suppressed.                                     *)
EncodeRows ==
  /\ Answer(<<"count", "def", "eof",
              IF flags.binary \/ client.com = "execute" THEN "binary" ELSE "text", "eof">>)
  /\ flags' = [flags EXCEPT !.binary = FALSE] /\ UNCHANGED skipped

(* An error that leaves the engine: the loop sends an error packet itself.  *)
(* What decode() set before it failed stays set.                            *)
Escape ==
  /\ Answer(<<"err">>)
  /\ flags' = [suppress |-> flags.suppress \/ client.com = "close",
               binary |-> flags.binary \/ client.com = "execute"]
  /\ skipped' = (skipped \/ client.com \in {"close", "execute"})

HandleSimple ==
  /\ client.com \in {"query", "init_db", "ping", "reset", "other"}
  /\ \/ client.com # "other" /\ EncodeReply(<<"ok">>)
     \/ client.com = "query" /\ EncodeRows
     \/ client.com \in {"query", "init_db"} /\ EncodeReply(<<"err">>)
     \/ client.com # "ping" /\ Escape
  /\ UNCHANGED <<reg, known, ran>>

(* PreparedRegistry::prepare: the counter wraps, the text goes under its    *)
(* number.                                                                  *)
prepare ==
  LET id == (reg.next + 1) % IdLimit
  IN reg' = [next |-> id, sql |-> [i \in DOMAIN reg.sql \cup {id} |->
                                     IF i = id THEN frames ELSE reg.sql[i]]]

(* Prepare: the id, the parameters' and the columns' definitions each with  *)
(* an EOF, if there are any.                                                *)
HandlePrepare ==
  /\ client.com = "prepare" /\ UNCHANGED ran
  /\ \/ /\ prepare
        /\ known' = [i \in DOMAIN known \cup {reg'.next} |->
                       IF i = reg'.next THEN frames ELSE known[i]]
        /\ \E params, cols \in {<<>>, <<"def", "eof">>} : EncodeReply(<<"prepared">> \o params \o cols)
     \/ Escape /\ UNCHANGED <<reg, known>>

(* Execute: the parameters may not decode; then the registry is asked.      *)
HandleExecute ==
  /\ client.com = "execute" /\ UNCHANGED <<reg, known>>
  /\ \/ Escape /\ ran' = 0
     \/ /\ client.id \notin DOMAIN reg.sql /\ EncodeReply(<<"err">>) /\ ran' = 0
     \/ /\ client.id \in DOMAIN reg.sql /\ ran' = reg.sql[client.id]
        /\ EncodeRows \/ EncodeReply(<<"ok">>) \/ EncodeReply(<<"err">>)

(* Close: no reply, whatever the registry says.                             *)
HandleClose ==
  /\ client.com = "close" /\ UNCHANGED ran
  /\ \/ Escape /\ UNCHANGED <<reg, known>>
     \/ /\ EncodeReply(<<"ok">>)
        /\ reg' = [reg EXCEPT !.sql = [i \in DOMAIN reg.sql \ {client.id} |-> reg.sql[i]]]
        /\ known' = [i \in DOMAIN known \ {client.id} |-> known[i]]

(* Quit: the leases and the registry are dropped, and the loop ends.        *)
HandleQuit ==
  /\ client.com = "quit" /\ reg' = [reg EXCEPT !.sql = [i \in {} |-> 0]]
  /\ reply' = Numbered(<<"ok">>) /\ frames' = MaxFrames /\ client' = [Quiet EXCEPT !.com = "gone"]
  /\ known' = [i \in {} |-> 0] /\ UNCHANGED <<flags, seq, ran, skipped>>

SessNext == ReadFrame \/ HandleSimple \/ HandlePrepare \/ HandleExecute \/ HandleClose \/ HandleQuit

-----------------------------------------------------------------------------
SessTypeOK ==
  /\ flags \in [suppress : BOOLEAN, binary : BOOLEAN] /\ reg.next \in Ids
  /\ DOMAIN reg.sql \subseteq Ids /\ seq \in 0 .. 2 /\ frames \in 0 .. MaxFrames

(* The reply a command gets is its own: Close gets none and every other     *)
(* command some, rows are binary for Execute and text for a query, and the  *)
(* packets are numbered from the client's on.  Only when an Execute or a    *)
(* Close has failed before its reply was encoded do decode()'s flags        *)
(* outlive it.                                                              *)
RepliesFit ==
  [][client.com \notin {"none", "gone"} /\ ~skipped' =>
       /\ reply' = <<>> <=> client.com = "close"
       /\ \A i \in DOMAIN reply' :
            /\ reply'[i].seq = client.packets + i - 1
            /\ reply'[i].kind = "binary" => client.com = "execute"
            /\ reply'[i].kind = "text" => client.com = "query"]_sessVars

(* An id in the client's hands names the statement it was given for, until  *)
(* it is closed (or 2^32 statements have been prepared).                    *)
IdsStable == [][\A i \in DOMAIN known \cap DOMAIN known' : known'[i] = known[i]]_sessVars

=============================================================================
