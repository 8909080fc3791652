----------------------------- MODULE MySqlAuth -----------------------------
(***************************************************************************)
(* The two MySQL handshakes of the gateway.  When it dials a backend it is  *)
(* the client of the handshake (protocol/mysql/src/client/auth.rs); when an *)
(* application connects it is the server (server/auth.rs).  The other end   *)
(* is external: it follows the MySQL protocol, and may refuse or hang up.   *)
(* A scramble, an encrypted password and a key are opaque values made of    *)
(* what they were computed from.                                            *)
(***************************************************************************)
EXTENDS Naturals, Sequences, SequencesExt

CONSTANT Logins   \* the handshakes considered

VARIABLES
  login,   \* the handshake of this behaviour (never changes)
  codec,   \* the gateway's codec: [state, plugin, salt, tls, seq]
  other,   \* what the external end is waiting for, and the salt it gave
  inbox,   \* packets on their way to the gateway
  outbox,  \* packets on their way to the other end
  told,    \* every packet of the handshake so far, in the order of sending
  fate     \* how the handshake ended for the gateway

authVars == <<login, codec, other, inbox, outbox, told, fate>>

Plugins == {"mysql_native_password", "caching_sha2_password", "sha256_password"}
Native == "mysql_native_password"
Sha2 == "caching_sha2_password"
Sha256 == "sha256_password"

Dialing == login.side = "dial"
Accepting == login.side = "accept"
Open == fate = "open"

(* A packet names a plugin (or nothing) and carries data: a salt, a status,  *)
(* a proof.                                                                 *)
Packet(kind, what, seq, enc) == [kind |-> kind, what |-> what, seq |-> seq, enc |-> enc]
Nothing == <<"", <<>>>>

(* The data a party can prove a password with, and the requests for a key.  *)
Scramble(plugin, salt, pw) == IF pw = "empty" THEN <<>> ELSE <<"scramble", plugin, salt, pw>>
Clear(pw) == <<"clear", pw>>
AskKey == <<"key?">>
Encrypted(salt, pw) == <<"rsa", salt, pw>>

AuthInit ==
  /\ login \in Logins
  /\ codec = [state |-> IF login.side = "dial" THEN "InitialHandshake" ELSE "WriteInitial",
              plugin |-> "", salt |-> <<"s1">>,
              tls |-> login.side = "dial" /\ login.tls # "disable", seq |-> 0]
  /\ other = [waits |-> IF login.side = "dial" THEN "greet" ELSE "greeting", salt |-> <<"s1">>]
  /\ inbox = <<>> /\ outbox = <<>> /\ told = <<>> /\ fate = "open"

End(how) == fate' = how /\ UNCHANGED <<outbox, told>>

(* The gateway sends one packet more; Encoder::encode numbers it.           *)
Send(packets) ==
  /\ outbox' = outbox \o packets /\ told' = told \o packets /\ UNCHANGED fate

-----------------------------------------------------------------------------
(* The gateway dials: ClientAuth, its decoder and encoder, and the loop of  *)
(* handshake().  Each action decodes one packet and sends what the loop     *)
(* sends for it.                                                            *)

Got == Head(inbox)
Take == inbox' = Tail(inbox) /\ UNCHANGED <<login, other>>

(* ClientAuth::gen_auth_response: the proof in the handshake response; an   *)
(* empty password is a zero byte, and nothing for mysql_native_password.    *)
gen_auth_response(plugin, tls) ==
  CASE login.pw = "empty" -> IF plugin = Native THEN <<>> ELSE <<"nul">>
    [] login.pw # "empty" /\ plugin = Sha256 -> IF tls THEN Clear(login.pw) ELSE AskKey
    [] login.pw # "empty" /\ plugin # Sha256 -> Scramble(plugin, <<"s1">>, login.pw)

(* read_initial_handshake: an error packet ends the handshake; a server     *)
(* without TLS ends it when TLS is required, and clears the options when it *)
(* is only preferred.                                                       *)
read_initial_handshake ==
  IF Got.kind = "err" THEN "broken"
  ELSE IF codec.tls /\ ~login.ssl /\ login.tls = "require" THEN "broken"
  ELSE IF codec.tls /\ login.ssl THEN "tls" ELSE "plain"

(* InitialHandshake: the response goes out at once, or after the SSL        *)
(* request and the TLS handshake, which may fail.                           *)
AnswerGreeting ==
  /\ Dialing /\ Open /\ inbox # <<>> /\ codec.state = "InitialHandshake" /\ Take
  /\ LET how == read_initial_handshake
         seq == Got.seq
         proof == gen_auth_response(Got.what[1], how = "tls")
     IN \/ how = "broken" /\ End("broken") /\ UNCHANGED codec
        \/ /\ how = "plain" /\ Send(<<Packet("response", <<Got.what[1], proof>>, seq + 1, FALSE)>>)
           /\ codec' = [codec EXCEPT !.plugin = Got.what[1], !.tls = FALSE, !.seq = seq + 1,
                                     !.state = "HandshakeAutoSwitch"]
        \/ /\ how = "tls"
           /\ codec' = [codec EXCEPT !.plugin = Got.what[1], !.seq = seq + 2,
                                     !.state = "HandshakeAutoSwitch"]
           /\ \/ Send(<<Packet("ssl", Nothing, seq + 1, FALSE),
                        Packet("response", <<Got.what[1], proof>>, seq + 2, TRUE)>>)
              \/ End("no tls")

(* handle_auth_data: what the data of a "more" or of a switch means to the  *)
(* plugin: the next state, and the proof to send if any.  The salt of a     *)
(* switch is read by caching_sha2_password as if it were its status byte:   *)
(* any byte is possible, so any branch is.                                  *)
handle_auth_data(plugin, salt, data) ==
  LET fast == <<"HandshakeResult", <<>>>>
      full == IF codec.tls THEN <<"HandshakeResult", <<Clear(login.pw)>>>>
              ELSE <<"GetPublicKey", <<AskKey>>>>
      broken == <<"broken", <<>>>>
  IN CASE plugin = Sha2 -> IF data = <<"fast">> THEN {fast}
                           ELSE IF data = <<"full">> THEN {full} ELSE {fast, full, broken}
       [] plugin = Sha256 /\ data = <<"key">> ->
            {<<"HandshakeResult", <<Encrypted(salt, login.pw)>>>>}
       [] plugin = Native ->
            {<<"HandshakeResult", <<Scramble(Native, data, login.pw)>>>>}
       [] OTHER -> {broken}

(* HandshakeAutoSwitch on MORE_DATA (the plugin and the salt stay) or on a  *)
(* switch (both are replaced, and the salt is the data).                    *)
DecodeAuthData(plugin, salt, data) ==
  \E step \in handle_auth_data(plugin, salt, data) :
    IF step[1] = "broken" THEN End("broken") /\ UNCHANGED codec
    ELSE /\ codec' = [codec EXCEPT !.state = step[1], !.plugin = plugin, !.salt = salt,
                                   !.seq = Got.seq + Len(step[2])]
         /\ Send([i \in DOMAIN step[2] |-> Packet("data", <<"", step[2][i]>>, Got.seq + 1, codec.tls)])

ReadAuthData ==
  /\ Dialing /\ Open /\ inbox # <<>> /\ codec.state = "HandshakeAutoSwitch"
  /\ Got.kind = "more" /\ Take
  /\ DecodeAuthData(codec.plugin, codec.salt, Got.what[2])

ReadSwitch ==
  /\ Dialing /\ Open /\ inbox # <<>> /\ codec.state = "HandshakeAutoSwitch"
  /\ Got.kind = "switch" /\ Take
  /\ DecodeAuthData(Got.what[1], Got.what[2], Got.what[2])

(* GetPublicKey: the key, then the encrypted password; anything else fails  *)
(* to parse as a key.                                                       *)
ReadPublicKey ==
  /\ Dialing /\ Open /\ inbox # <<>> /\ codec.state = "GetPublicKey" /\ Take
  /\ IF Got.kind = "more" /\ Got.what[2] = <<"key">>
       THEN /\ codec' = [codec EXCEPT !.state = "HandshakeResult", !.seq = Got.seq + 1]
            /\ Send(<<Packet("data", <<"", Encrypted(codec.salt, login.pw)>>, Got.seq + 1, codec.tls)>>)
       ELSE End("broken") /\ UNCHANGED codec

(* OK in either state that may see it, an error packet, and whatever        *)
(* HandshakeResult does not take for OK.                                    *)
ReadOutcome ==
  /\ Dialing /\ Open /\ inbox # <<>> /\ codec.state \in {"HandshakeAutoSwitch", "HandshakeResult"}
  /\ codec.state = "HandshakeAutoSwitch" => Got.kind \in {"ok", "err"}
  /\ Take /\ codec' = [codec EXCEPT !.state = "HandshakeResult", !.seq = Got.seq]
  /\ End(IF Got.kind = "ok" THEN "in" ELSE "refused")

(* ClientConn::connect gives the handshake ten seconds: a closed connection *)
(* makes the loop spin, an end that waits for us makes it wait.             *)
DialTimeout ==
  /\ Dialing /\ Open /\ inbox = <<>> /\ outbox = <<>>
  /\ End("broken") /\ UNCHANGED <<login, codec, other, inbox>>

-----------------------------------------------------------------------------
(* The external MySQL server the gateway dials.                             *)

Tell(packets) == inbox' = inbox \o packets /\ told' = told \o packets
ServerKeeps == UNCHANGED <<login, codec, fate>>

ServerGreets ==
  /\ Dialing /\ Open /\ other.waits = "greet" /\ ServerKeeps /\ UNCHANGED outbox
  /\ other' = [other EXCEPT !.waits = "response"]
  /\ \/ Tell(<<Packet("greeting", <<login.default, <<"s1">>>>, 0, FALSE)>>)
     \/ Tell(<<Packet("err", Nothing, 0, FALSE)>>)

Heard == Head(outbox)
Right == login.pw # "wrong"
Verdict(good) == IF good THEN "ok" ELSE "err"
Say(kind, what) == Packet(kind, what, Heard.seq + 1, Heard.enc)

(* What the account's plugin makes of a proof: the packets of the answer    *)
(* and what the server waits for next.                                      *)
Judge(proof) ==
  LET end(good) == <<<<Say(Verdict(good), Nothing)>>, "done">>
  IN CASE login.account = Native ->
            end(proof = Scramble(Native, other.salt, login.pw) /\ Right)
       [] login.account = Sha2 /\ other.waits # "full" ->
            IF login.cached /\ Right /\ proof = Scramble(Sha2, other.salt, login.pw)
            THEN <<<<Say("more", <<"", <<"fast">>>>),
                     Packet("ok", Nothing, Heard.seq + 2, Heard.enc)>>, "done">>
            ELSE <<<<Say("more", <<"", <<"full">>>>)>>, "full">>
       [] proof = AskKey -> <<<<Say("more", <<"", <<"key">>>>)>>, "full">>
       [] OTHER -> end(Right /\ \/ proof = Clear(login.pw) /\ Heard.enc
                                \/ proof = Encrypted(other.salt, login.pw))

(* An empty proof is written with the length 0xfb, which the server reads   *)
(* as 251 bytes that are not there.                                         *)
ServerAnswers ==
  /\ Dialing /\ outbox # <<>> /\ other.waits \in {"response", "switched", "full"}
  /\ ServerKeeps /\ outbox' = Tail(outbox)
  /\ CASE Heard.kind = "ssl" -> UNCHANGED <<other, inbox, told>>
       [] Heard.kind = "response" /\ Heard.what[2] = <<>> ->
            other' = [other EXCEPT !.waits = "done"] /\ Tell(<<Say("err", Nothing)>>)
       [] Heard.kind = "response" /\ Heard.what[2] # <<>> /\ Heard.what[1] # login.account ->
            /\ other' = [waits |-> "switched", salt |-> <<"s2">>]
            /\ Tell(<<Say("switch", <<login.account, <<"s2">>>>)>>)
       [] OTHER ->
            LET said == Judge(Heard.what[2])
            IN Tell(said[1]) /\ other' = [other EXCEPT !.waits = said[2]]

(* The other end closes the connection instead of answering.                *)
OtherHangsUp ==
  /\ Open /\ outbox # <<>> /\ other' = [other EXCEPT !.waits = "gone"] /\ outbox' = <<>>
  /\ UNCHANGED <<login, codec, inbox, told, fate>>

-----------------------------------------------------------------------------
(* The gateway accepts: ServerHandshakeCodec and its handshake().           *)

(* The first packet is sent without waiting; the codec counts a packet sent *)
(* and a packet read alike.                                                 *)
WriteInitial ==
  /\ Accepting /\ Open /\ codec.state = "WriteInitial"
  /\ codec' = [codec EXCEPT !.state = "ReadResponseFirst", !.seq = 1]
  /\ Send(<<Packet("greeting", <<Native, <<"s1">>>>, 0, FALSE)>>) /\ UNCHANGED <<login, other, inbox>>

(* Each answer carries the sequence number the codec has reached.           *)
Answered(kind, what, state, how) ==
  /\ codec' = [codec EXCEPT !.state = state, !.seq = codec.seq + 2]
  /\ LET packet == Packet(kind, what, codec.seq + 1, codec.tls)
     IN outbox' = Append(outbox, packet) /\ told' = Append(told, packet)
  /\ fate' = how

(* compare_auth_data, handle_auth_switch_response: the bytes of the proof   *)
(* against the scramble of the configured password.                         *)
compare(proof) == proof = Scramble(Native, codec.salt, login.password)

(* Mutant of decode_handshake_response: the database is not compared.       *)
decode_handshake_response_any_db ==
  LET proof == Got.what[2]
  IN IF ~login.user \/ (login.lenenc /\ proof = <<>>) THEN "err"
     ELSE IF Got.what[1] # Native THEN "switch" ELSE Verdict(compare(proof))

(* decode_handshake_response: the user, the proof (with length-encoded data *)
(* an empty one becomes the byte 0xfb, which no scramble equals), the       *)
(* database if one is named, the plugin.                                    *)
decode_handshake_response ==
  LET proof == Got.what[2]
  IN IF ~login.user \/ login.db = "other" THEN "err"
     ELSE IF Got.what[1] # Native THEN "switch"
     ELSE Verdict(compare(proof) /\ ~(login.lenenc /\ proof = <<>>))

(* ReadResponseFirst: 32 bytes and nothing behind them are an SSL request.  *)
(* The TLS client hello that arrives with the request is taken for the rest *)
(* of a response: it names no user of ours, or is no text at all.           *)
ReadFirst ==
  /\ Accepting /\ Open /\ inbox # <<>> /\ codec.state = "ReadResponseFirst" /\ Take
  /\ CASE Got.kind = "ssl" /\ ~login.together ->
            \/ /\ codec' = [codec EXCEPT !.state = "ReadResponse", !.tls = TRUE, !.seq = @ + 1]
               /\ UNCHANGED <<outbox, told, fate>>
            \/ End("no tls") /\ UNCHANGED codec
       [] Got.kind = "ssl" /\ login.together ->
            \/ Answered("err", Nothing, "ReadResponseFirst", "refused")
            \/ End("broken") /\ UNCHANGED codec
       [] OTHER -> LET how == decode_handshake_response
                   IN CASE how = "switch" -> Answered("switch", <<Native, codec.salt>>,
                                                      "ReadAutoSwitchResponse", "open")
                        [] how = "ok" -> Answered("ok", Nothing, "Complete", "in")
                        [] how = "err" -> Answered("err", Nothing, "ReadResponseFirst", "refused")

ReadResponse ==
  /\ Accepting /\ Open /\ inbox # <<>> /\ codec.state = "ReadResponse" /\ Take
  /\ LET how == decode_handshake_response
     IN CASE how = "switch" -> Answered("switch", <<Native, codec.salt>>,
                                        "ReadAutoSwitchResponse", "open")
          [] how = "ok" -> Answered("ok", Nothing, "Complete", "in")
          [] how = "err" -> Answered("err", Nothing, "ReadResponse", "refused")

ReadAutoSwitchResponse ==
  /\ Accepting /\ Open /\ inbox # <<>> /\ codec.state = "ReadAutoSwitchResponse" /\ Take
  /\ IF compare(Got.what[2]) THEN Answered("ok", Nothing, "Complete", "in")
     ELSE Answered("err", Nothing, "Complete", "refused")

(* framed.next().await.unwrap() on a connection the client closed.          *)
AcceptClosed ==
  /\ Accepting /\ Open /\ other.waits = "gone" /\ inbox = <<>>
  /\ End("broken") /\ UNCHANGED <<login, codec, other, inbox>>

(* The external client: the greeting, perhaps an SSL request (with the TLS  *)
(* hello behind it, which login.together says arrived in the same read),    *)
(* the response once TLS stands, the answer to a switch.                    *)
ClientAnswers ==
  /\ Accepting /\ outbox # <<>> /\ other.waits \in {"greeting", "answer"}
  /\ ServerKeeps /\ outbox' = Tail(outbox)
  /\ LET seq == Heard.seq + 1
         proof == Scramble(Native, Heard.what[2], login.pw)
     IN CASE Heard.kind = "greeting" ->
               /\ other' = [other EXCEPT !.waits = IF login.ssl THEN "tls" ELSE "answer"]
               /\ Tell(<<IF login.ssl THEN Packet("ssl", Nothing, seq, FALSE)
                         ELSE Packet("response", <<login.plugin, proof>>, seq, FALSE)>>)
          [] Heard.kind = "switch" ->
               Tell(<<Packet("data", <<"", proof>>, seq, Heard.enc)>>) /\ UNCHANGED other
          [] OTHER -> other' = [other EXCEPT !.waits = "done"] /\ UNCHANGED <<inbox, told>>

ClientSecured ==
  /\ Accepting /\ other.waits = "tls" /\ codec.tls /\ ServerKeeps /\ UNCHANGED outbox
  /\ other' = [other EXCEPT !.waits = "answer"]
  /\ Tell(<<Packet("response", <<login.plugin, Scramble(Native, other.salt, login.pw)>>, 2, TRUE)>>)

AuthNext ==
  \/ ServerGreets \/ ServerAnswers \/ ClientAnswers \/ ClientSecured \/ OtherHangsUp
  \/ AnswerGreeting \/ ReadAuthData \/ ReadSwitch \/ ReadPublicKey \/ ReadOutcome \/ DialTimeout
  \/ WriteInitial \/ ReadFirst \/ ReadResponse \/ ReadAutoSwitchResponse \/ AcceptClosed

-----------------------------------------------------------------------------
(* The packets of a handshake are records of the shape the two ends read.   *)
AuthTypeOK ==
  /\ login \in Logins /\ codec.plugin \in Plugins \cup {""} /\ codec.salt \in {<<"s1">>, <<"s2">>}
  /\ codec.tls \in BOOLEAN /\ codec.seq \in 0 .. 12
  /\ fate \in {"open", "in", "refused", "broken", "no tls"}
  /\ \A i \in DOMAIN told : told[i].seq \in 0 .. 12 /\ told[i].enc \in BOOLEAN

(* A password leaves the gateway in clear only inside TLS: the TLS options  *)
(* that survive read_initial_handshake, which gen_auth_response and         *)
(* handle_auth_data ask, are there only when the channel is encrypted.      *)
PasswordCovered ==
  Dialing => \A i \in DOMAIN told : told[i].what[2] = Clear(login.pw) => told[i].enc

(* The packets of one handshake are numbered from 0 without a gap, whoever  *)
(* sends them, across the switch to TLS and to another plugin: each end     *)
(* drops a connection whose packets are out of order.                       *)
PacketsInOrder == \A i \in DOMAIN told : told[i].seq = i - 1

(* Who gets in: the gateway is connected to a backend only after its OK,    *)
(* and lets a client in only with the configured user, database and         *)
(* password.                                                                *)
AdmissionEarned ==
  fate = "in" => IF Dialing THEN Last(told).kind = "ok" /\ Right
                 ELSE login.user /\ login.db # "other" /\ login.pw = login.password

(* The logins that must work: the right password, and not one of the cases  *)
(* the codecs do not handle (a switch to another plugin than                *)
(* mysql_native_password, a backend account without password, TLS required  *)
(* of a server without it; a TLS hello read with the SSL request, an empty  *)
(* password as length-encoded data).                                        *)
Supported ==
  IF Dialing
  THEN /\ login.pw = "right" /\ login.account \in {Native, login.default}
       /\ login.tls = "require" => login.ssl
  ELSE /\ login.user /\ login.db # "other" /\ login.pw = login.password
       /\ login.ssl => ~login.together
       /\ ~(login.lenenc /\ login.pw = "empty" /\ login.plugin = Native)

(* A supported login is never turned away and never left waiting until the  *)
(* timeout, through greetings, key exchanges and switches, unless the other *)
(* end never greeted, greeted with an error, or hung up, or TLS failed.     *)
SupportedNotRefused ==
  Supported /\ fate \in {"refused", "broken"} =>
    told = <<>> \/ told[1].kind = "err" \/ other.waits = "gone"

=============================================================================
