----------------------------- MODULE SmtpSession -----------------------------
(***************************************************************************)
(* One SMTP session: the calls sendEmailMessage makes of the ReadyMail     *)
(* library (connect, authenticate, send), the library's state machine      *)
(* (SMTPConnection, SMTPResponse, SMTPSend) and the server behind a        *)
(* connection that may break.                                              *)
(*                                                                         *)
(* One action is one round of awaitLoop: handleResponse reads what is      *)
(* there, at most one line, and conn.loop or sender.loop take the next     *)
(* step.  The read loop takes what has arrived for a line, so a reply that *)
(* TCP delivers in two pieces is two reads: "torn" is a piece without a    *)
(* status code and text behind it.  Texts, the encoding and XOAUTH2 (not   *)
(* used here) are left out; a command is its name, a reply line the        *)
(* command it answers, its code and whether it is the last of its reply.   *)
(***************************************************************************)
EXTENDS Integers, Sequences

CONSTANTS
  Recipients,  \* To headers of a mail
  Pieces,      \* pieces in which headers and text are sent
  MaxTear      \* bound: replies that arrive in pieces

ASSUME SizeAssumption == Recipients \in Nat \ {0} /\ Pieces \in Nat \ {0} /\ MaxTear \in Nat

Command == {"HELLO", "EHLO", "STARTTLS", "PLAIN", "LOGIN", "USER", "PSW", "MAIL", "RCPT", "DATA", "TEXT", "DOT"}
Code    == {220, 235, 250, 334, 354, 451}
Cap     == {"STARTTLS", "PLAIN"}
State   == {"prompt", "initial", "greeting", "start_tls", "start_tls_ack", "auth_plain", "auth_login",
            "login_user", "login_psw", "sender", "recipient", "wait_data", "body", "termination"}
Line    == [to : Command, code : Code, last : BOOLEAN]
Torn    == [to : Command, code : {0}, last : {FALSE}]

VARIABLES
  call,      \* the call of sendEmailMessage that is running
  state,     \* state_info.state
  code,      \* statusCode(): the code of the last complete reply to this command, or 0
  connected, secured, ack,   \* server_status
  caps,      \* auth_caps as parseCaps found them
  rcpt,      \* recipients named
  piece,     \* pieces sent
  result,
  (* the connection and the server *)
  line,      \* "up" while both ends can reach each other
  out, in,   \* what is under way to the server and to the client
  srv,       \* the server: recipients and pieces it has, and whether it takes text
  accepted,  \* mails the server has accepted, each with what it had of it
  (* history *)
  failedIn,  \* the state in which the session failed
  tears      \* replies torn so far

flags  == <<connected, secured, ack>>
client == <<call, state, code, flags, caps, rcpt, piece, result, failedIn>>
wires  == <<line, out, in>>
server == <<srv, accepted>>
vars   == <<client, wires, server, tears>>

ClientOK ==
  /\ call \in {"connect", "auth", "send", "over"} /\ state \in State /\ code \in Code \cup {0}
  /\ connected \in BOOLEAN /\ secured \in BOOLEAN /\ ack \in BOOLEAN
  /\ result \in {"none", "sent", "failed"} /\ failedIn \in State \cup {"none", "invalid"}

SizesOK ==
  /\ caps \subseteq Cap /\ rcpt \in 0 .. Recipients /\ piece \in 0 .. Pieces /\ tears \in 0 .. MaxTear

WiresOK  == line \in {"none", "up", "cut"} /\ out \in Seq(Command) /\ in \in Seq(Line \cup Torn)
ServerOK == srv \in [rcpt : Nat, text : Nat, data : BOOLEAN] /\ accepted \in Seq([rcpt : Nat, text : Nat])

TypeOK == ClientOK /\ SizesOK /\ WiresOK /\ ServerOK

Init ==
  /\ call = "connect" /\ state = "prompt" /\ code = 0
  /\ connected = FALSE /\ secured = FALSE /\ ack = FALSE
  /\ caps = {} /\ rcpt = 0 /\ piece = 0 /\ result = "none" /\ failedIn = "none"
  /\ line = "none" /\ out = <<>> /\ in = <<>>
  /\ srv = [rcpt |-> 0, text |-> 0, data |-> FALSE] /\ accepted = <<>> /\ tears = 0

------------------------------------------------------------------------------
(* What every step of the client is made of *)

\* mutant of SetState: the code of the last reply stays
KeepCode(s) == state' = s /\ code' = code

\* setState: a new state begins with no reply.
SetState(s) == state' = s /\ code' = 0

\* setError and stopImpl: the call fails and the session with it.
Fail(s) ==
  /\ result' = "failed" /\ failedIn' = s /\ call' = "over"
  /\ SetState("prompt") /\ connected' = FALSE /\ secured' = FALSE /\ ack' = FALSE
  /\ line' = "cut" /\ in' = <<>> /\ UNCHANGED out

\* setError without stopping: the session is left as it is.
GiveUp(s) ==
  /\ result' = "failed" /\ failedIn' = s /\ call' = "over"
  /\ UNCHANGED <<state, code, flags, wires>>

\* tcpSend: over a connection that is cut a write fails or seems to work.
Ask(cmd, s, rest) ==
  \/ /\ out' = IF line = "up" THEN Append(out, cmd) ELSE out
     /\ SetState(s) /\ in' = rest /\ UNCHANGED <<call, result, failedIn, flags, line>>
  \/ line = "cut" /\ Fail(state)

\* state_info.status_code > 0: while the text is on its way no code is expected.
Expects == state # "body"

\* getResponseStatus: the last line of a reply has the code.
Parsed(l) == IF Expects /\ l.last THEN l.code ELSE code

Positive(l) ==
  \/ Parsed(l) \in 200 .. 299 \/ Parsed(l) = 354
  \/ Parsed(l) = 334 /\ <<state, l.to>> \in {<<"auth_login", "LOGIN">>, <<"login_user", "USER">>}

\* The line at hand is, or is not, what state s waits for.
Told(s) == state = s /\ in # <<>> /\ Positive(Head(in))
Refused == state # "prompt" /\ in # <<>> /\ Parsed(Head(in)) >= 400

------------------------------------------------------------------------------
(* smtp.connect: SMTPConnection::connectImpl and authenticate *)

connectImpl ==
  /\ call = "connect" /\ state = "prompt"
  /\ \/ /\ connected' = TRUE /\ SetState("initial") /\ line' = "up" /\ out' = <<"HELLO">>
        /\ UNCHANGED <<call, secured, ack, in, result, failedIn>>
     \/ Fail("prompt")
  /\ UNCHANGED <<caps, rcpt, piece, server, tears>>

sendGreeting ==
  /\ Told("initial") /\ Ask("EHLO", "greeting", Tail(in))
  /\ UNCHANGED <<caps, rcpt, piece, server, tears>>

Ready ==
  /\ state' = "prompt" /\ call' = "auth" /\ ack' = TRUE /\ in' = Tail(in)
  /\ UNCHANGED <<code, connected, secured, result, failedIn, line, out>>

\* parseCaps misses what a torn line breaks up.
Greeted ==
  /\ Told("greeting")
  /\ \E found \in SUBSET Cap :
       /\ caps' = caps \cup found
       /\ IF "STARTTLS" \in caps' /\ ~secured THEN Ask("STARTTLS", "start_tls", Tail(in)) ELSE Ready
  /\ UNCHANGED <<rcpt, piece, server, tears>>

\* The handshake needs both ends, and nothing left over in front of it.
tlsHandshake ==
  /\ Told("start_tls")
  /\ \/ /\ line = "up" /\ Len(in) = 1
        /\ secured' = TRUE /\ state' = "start_tls_ack" /\ code' = Parsed(Head(in)) /\ in' = <<>>
        /\ UNCHANGED <<call, connected, ack, result, failedIn, line, out>>
     \/ Fail("start_tls")
  /\ UNCHANGED <<caps, rcpt, piece, server, tears>>

\* Greet again over TLS; after a reply other than 220 connect() returns as if connected.
GreetAgain ==
  /\ state = "start_tls_ack" /\ in = <<>>
  /\ \/ code = 220 /\ Ask("EHLO", "greeting", in)
     \/ code # 220 /\ state' = "prompt" /\ call' = "auth"
        /\ UNCHANGED <<code, flags, result, failedIn, wires>>
  /\ UNCHANGED <<caps, rcpt, piece, server, tears>>

------------------------------------------------------------------------------
(* smtp.authenticate *)

auth ==
  /\ call = "auth" /\ state = "prompt"
  /\ \/ ack /\ Ask(IF "PLAIN" \in caps THEN "PLAIN" ELSE "LOGIN",
                   IF "PLAIN" \in caps THEN "auth_plain" ELSE "auth_login", in)
     \/ ~ack /\ GiveUp("start_tls_ack")
  /\ UNCHANGED <<caps, rcpt, piece, server, tears>>

authLogin ==
  /\ \/ Told("auth_login") /\ Ask("USER", "login_user", Tail(in))
     \/ Told("login_user") /\ Ask("PSW", "login_psw", Tail(in))
  /\ UNCHANGED <<caps, rcpt, piece, server, tears>>

Authenticated ==
  /\ Told("auth_plain") \/ Told("login_psw")
  /\ state' = "prompt" /\ call' = "send" /\ in' = Tail(in)
  /\ UNCHANGED <<code, flags, caps, rcpt, piece, result, failedIn, line, out, server, tears>>

------------------------------------------------------------------------------
(* smtp.send *)

\* checkEmail may find a configured address that is none.
send ==
  /\ call = "send" /\ state = "prompt"
  /\ Ask("MAIL", "sender", in) \/ GiveUp("invalid")
  /\ UNCHANGED <<caps, rcpt, piece, server, tears>>

\* mutant of AllNamed: done after the first recipient
OneNamed == rcpt >= 1
\* msg.send_recipient_complete
AllNamed == rcpt = Recipients

sendRecipient ==
  /\ Told("sender") \/ (Told("recipient") /\ ~AllNamed)
  /\ rcpt' = rcpt + 1 /\ Ask("RCPT", "recipient", Tail(in))
  /\ UNCHANGED <<caps, piece, server, tears>>

startData ==
  /\ Told("recipient") /\ AllNamed /\ Ask("DATA", "wait_data", Tail(in))
  /\ UNCHANGED <<caps, rcpt, piece, server, tears>>

\* The first piece when the server is ready, the next ones whenever there is
\* nothing to read: no reply is waited for.
sendBodyData ==
  /\ \/ Told("wait_data") /\ Ask("TEXT", "body", Tail(in))
     \/ state = "body" /\ in = <<>> /\ piece < Pieces /\ Ask("TEXT", "body", in)
  /\ piece' = piece + 1
  /\ UNCHANGED <<caps, rcpt, server, tears>>

\* mutant of terminateData: the answer is waited for as if it were that to DATA
TerminateAsData ==
  /\ state = "body" /\ in = <<>> /\ piece = Pieces /\ Ask("DOT", "wait_data", in)
  /\ UNCHANGED <<caps, rcpt, piece, server, tears>>

terminateData ==
  /\ state = "body" /\ in = <<>> /\ piece = Pieces /\ Ask("DOT", "termination", in)
  /\ UNCHANGED <<caps, rcpt, piece, server, tears>>

Sent ==
  /\ Told("termination")
  /\ result' = "sent" /\ call' = "over" /\ SetState("prompt") /\ in' = Tail(in)
  /\ UNCHANGED <<flags, caps, rcpt, piece, failedIn, line, out, server, tears>>

------------------------------------------------------------------------------
(* handleResponse where it does not lead on *)

\* A reply of 400 and above ends the session in every state that expects one.
handleRefusal ==
  /\ Refused /\ Fail(state)
  /\ UNCHANGED <<caps, rcpt, piece, server, tears>>

\* A line that is not the last, a torn one, or one nobody asked for.
readOn ==
  /\ state # "prompt"
  /\ in # <<>> /\ ~Positive(Head(in)) /\ ~Refused
  /\ code' = Parsed(Head(in)) /\ in' = Tail(in)
  /\ UNCHANGED <<call, state, flags, caps, rcpt, piece, result, failedIn, line, out, server, tears>>

\* mutant of readTimeout: only a live connection times out
TimeoutWhileUp ==
  /\ state \notin {"prompt", "start_tls_ack", "body"} /\ in = <<>> /\ line = "up" /\ Fail(state)
  /\ UNCHANGED <<caps, rcpt, piece, server, tears>>

\* No line for timeout.read; a slow server may still answer later.
readTimeout ==
  /\ state \notin {"prompt", "start_tls_ack", "body"} /\ in = <<>> /\ Fail(state)
  /\ UNCHANGED <<caps, rcpt, piece, server, tears>>

awaitLoop ==
  \/ connectImpl \/ sendGreeting \/ Greeted \/ tlsHandshake \/ GreetAgain
  \/ auth \/ authLogin \/ Authenticated
  \/ send \/ sendRecipient \/ startData \/ sendBodyData \/ terminateData \/ Sent
  \/ handleRefusal \/ readOn \/ readTimeout

------------------------------------------------------------------------------
(* The server and the network *)

Yes == [HELLO |-> 220, EHLO |-> 250, STARTTLS |-> 220, PLAIN |-> 235, LOGIN |-> 334, USER |-> 334,
        PSW |-> 235, MAIL |-> 250, RCPT |-> 250, DATA |-> 354, DOT |-> 250]

\* A reply is one line or several; TCP may deliver its last line in two pieces,
\* and then the first has the code or not.
Reply(cmd, c) ==
  LET final == [to |-> cmd, code |-> c, last |-> TRUE]
      first == [final EXCEPT !.last = FALSE]
      torn  == [to |-> cmd, code |-> 0, last |-> FALSE]
  IN \/ in' = in \o <<final>> /\ UNCHANGED tears
     \/ in' = in \o <<first, final>> /\ UNCHANGED tears
     \/ tears < MaxTear /\ tears' = tears + 1
        /\ (in' = in \o <<torn, torn>> \/ in' = in \o <<final, torn>>)

Answer(cmd, c) == IF line = "up" THEN Reply(cmd, c) ELSE UNCHANGED <<in, tears>>

ServerAccepts ==
  /\ out # <<>> /\ Head(out) # "TEXT" /\ out' = Tail(out)
  /\ (Head(out) = "DOT" => srv.data)
  /\ \/ Answer(Head(out), Yes[Head(out)])
     \/ Head(out) = "STARTTLS" /\ Answer("STARTTLS", 250)
  /\ srv' = CASE Head(out) = "RCPT" -> [srv EXCEPT !.rcpt = @ + 1]
              [] Head(out) = "DATA" -> [srv EXCEPT !.data = TRUE]
              [] Head(out) = "DOT"  -> [srv EXCEPT !.data = FALSE]
              [] OTHER -> srv
  /\ accepted' = IF Head(out) = "DOT" THEN Append(accepted, [rcpt |-> srv.rcpt, text |-> srv.text]) ELSE accepted
  /\ UNCHANGED <<client, line>>

\* A server may refuse anything; text it does not want it throws away.
ServerRefuses ==
  /\ out # <<>> /\ Head(out) # "TEXT" /\ out' = Tail(out)
  /\ Answer(Head(out), 451)
  /\ srv' = [srv EXCEPT !.data = FALSE]
  /\ UNCHANGED <<client, line, accepted>>

ServerReads ==
  /\ out # <<>> /\ Head(out) = "TEXT" /\ out' = Tail(out)
  /\ \/ srv' = [srv EXCEPT !.text = IF srv.data THEN @ + 1 ELSE @] /\ UNCHANGED <<in, tears>>
     \/ srv.data /\ srv' = [srv EXCEPT !.data = FALSE] /\ Answer("TEXT", 451)
  /\ UNCHANGED <<client, line, accepted>>

\* The connection breaks, or the server closes it with a last word (421).
Cut ==
  /\ line = "up" /\ call # "over" /\ line' = "cut"
  /\ out' \in {out, <<>>}
  /\ in' \in {in, <<>>, Append(in, [to |-> "HELLO", code |-> 451, last |-> TRUE])}
  /\ UNCHANGED <<client, server, tears>>

Next == awaitLoop \/ ServerAccepts \/ ServerRefuses \/ ServerReads \/ Cut

Spec == Init /\ [][Next]_vars

\* emailTask runs awaitLoop without a pause; nothing is asked of the server.
FairSpec == Spec /\ WF_vars(awaitLoop)

------------------------------------------------------------------------------
(* Properties *)

\* The command a state waits to be answered.
Asked(s) ==
  CASE s = "initial" -> "HELLO" [] s = "greeting" -> "EHLO" [] s = "start_tls" -> "STARTTLS"
    [] s = "auth_plain" -> "PLAIN" [] s = "auth_login" -> "LOGIN" [] s = "login_user" -> "USER"
    [] s = "login_psw" -> "PSW" [] s = "sender" -> "MAIL" [] s = "recipient" -> "RCPT"
    [] s = "wait_data" -> "DATA" [] s = "termination" -> "DOT" [] OTHER -> "TEXT"

\* The client never takes the answer to one command for that to another, although
\* it counts any code of its class in any state, replies have several lines and
\* come in pieces: a positive reply not yet read answers what is waited for.
RepliesInStep ==
  \A k \in DOMAIN in : in[k].last /\ in[k].code < 400 => in[k].to = Asked(state)

\* A mail reported as sent was accepted by the server, once, with every
\* recipient and all of its text.
SentMeansAccepted ==
  result = "sent" => accepted = <<[rcpt |-> Recipients, text |-> Pieces]>>

\* A mail reported as failed was accepted, and is sent again by the queue, only
\* if the session failed while it waited for the answer to the text; until
\* the text was terminated a failure means the server does not have the mail.
FailureIsSafe ==
  /\ Len(accepted) <= 1
  /\ result = "failed" /\ (accepted # <<>> \/ "DOT" \in {out[k] : k \in DOMAIN out}) => failedIn = "termination"

\* Whatever the server and the network do, the session ends.
SessionEnds == <>(call = "over")

==============================================================================
