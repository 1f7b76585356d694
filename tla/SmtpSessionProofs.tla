-------------------------- MODULE SmtpSessionProofs --------------------------
(***************************************************************************)
(* Theorems about SmtpSession, for any numbers of recipients, pieces of    *)
(* text and torn replies.  The client and the server stay in step because  *)
(* at most one positive answer is under way, and only while no command is: *)
(* Wire.  What the server then has of the mail follows from what the       *)
(* client has sent of it: Book.                                            *)
(***************************************************************************)
EXTENDS SmtpSession, TLAPS

------------------------------------------------------------------------------
(* The invariant *)

\* A positive answer, as the client counts it.
Pos(l)     == l.last /\ l.code < 400
NoPos(s)   == \A k \in DOMAIN s : ~Pos(s[k])
OnePos(s)  == \A j, k \in DOMAIN s : Pos(s[j]) /\ Pos(s[k]) => j = k
AllText(s) == \A k \in DOMAIN s : s[k] = "TEXT"
Has(s, x)  == \E k \in DOMAIN s : s[k] = x

InStep(l, s) == l.to = Asked(s) /\ l.to # "TEXT" /\ (l.code = 334 => l.to \in {"LOGIN", "USER"})

\* What is under way between the two.
Wire ==
  /\ \A k \in DOMAIN in : Pos(in[k]) => InStep(in[k], state)
  /\ OnePos(in)
  /\ ~NoPos(in) => out = <<>>
  /\ \A k \in DOMAIN out : out[k] # "TEXT" => k = Len(out)
  /\ call # "over" \/ line = "up" => \A k \in DOMAIN out : out[k] # "TEXT" => out[k] = Asked(state)
  /\ code # 0 => state \in {"prompt", "start_tls_ack"}
  /\ call = "over" => state = "prompt"
  /\ result # "none" => call = "over"

\* What the server has of the mail.
Whole == <<[rcpt |-> Recipients, text |-> Pieces]>>

Named ==
  /\ Has(out, "RCPT") => srv.rcpt = rcpt - 1
  /\ state = "recipient" /\ ~NoPos(in) => srv.rcpt = rcpt
  /\ call # "over" /\ state \notin {"recipient", "wait_data", "body", "termination"} => rcpt = 0 /\ srv.rcpt = 0
  /\ state \in {"wait_data", "body", "termination"} => rcpt = Recipients /\ srv.rcpt = Recipients
  /\ Has(out, "DOT") => srv.rcpt = Recipients

Written ==
  /\ call # "over" /\ state \notin {"body", "termination"} => piece = 0
  /\ piece = 0 => srv.text = 0 /\ ~Has(out, "TEXT")
  /\ line = "up" /\ state = "body" /\ srv.data => srv.text + Len(out) = piece
  /\ Has(out, "DOT") /\ srv.data => srv.text + Len(out) - 1 = Pieces

Taken ==
  /\ accepted \in {<<>>, Whole}
  /\ Has(out, "DOT") => accepted = <<>>
  /\ call # "over" /\ state # "termination" => accepted = <<>>
  /\ state = "termination" /\ ~NoPos(in) => accepted = Whole
  /\ result = "failed" /\ (accepted # <<>> \/ Has(out, "DOT")) => failedIn = "termination"
  /\ result = "sent" => accepted = Whole

Book    == Named /\ Written /\ Taken
SmtpInv == TypeOK /\ Wire /\ Book

------------------------------------------------------------------------------
(* Sequences *)

LEMMA HeadTail ==
  ASSUME NEW S, NEW s \in Seq(S), s # <<>>
  PROVE  /\ Head(s) = s[1] /\ 1 \in DOMAIN s /\ Head(s) \in S
         /\ Tail(s) \in Seq(S) /\ Len(Tail(s)) = Len(s) - 1 /\ Len(s) \in Nat
         /\ \A k \in DOMAIN Tail(s) : k \in Nat /\ k # 0 /\ k + 1 \in DOMAIN s /\ Tail(s)[k] = s[k + 1]
         /\ \A k \in DOMAIN s : k # 1 => k - 1 \in DOMAIN Tail(s) /\ Tail(s)[k - 1] = s[k]
OBVIOUS

LEMMA Appended ==
  ASSUME NEW S, NEW s \in Seq(S), NEW x \in S
  PROVE  /\ Append(s, x) \in Seq(S) /\ Len(Append(s, x)) = Len(s) + 1 /\ Len(s) \in Nat
         /\ \A k \in DOMAIN Append(s, x) : \/ k \in DOMAIN s /\ Append(s, x)[k] = s[k]
                                           \/ k = Len(s) + 1 /\ Append(s, x)[k] = x
OBVIOUS

\* Reading on takes positive answers away and adds none.
LEMMA TailNoPos ==
  ASSUME NEW S, NEW s \in Seq(S), s # <<>>
  PROVE  /\ NoPos(s) => NoPos(Tail(s))
         /\ OnePos(s) => OnePos(Tail(s))
         /\ OnePos(s) /\ Pos(Head(s)) => NoPos(Tail(s))
<1> USE HeadTail
<1>1. NoPos(s) => NoPos(Tail(s))
  BY DEF NoPos
<1>2. OnePos(s) => OnePos(Tail(s))
  <2> SUFFICES ASSUME OnePos(s), NEW j \in DOMAIN Tail(s), NEW k \in DOMAIN Tail(s), Pos(Tail(s)[j]), Pos(Tail(s)[k])
               PROVE  j = k
    BY DEF OnePos
  <2>1. j + 1 \in DOMAIN s /\ k + 1 \in DOMAIN s /\ Pos(s[j + 1]) /\ Pos(s[k + 1])
    OBVIOUS
  <2>2. j + 1 = k + 1
    BY <2>1 DEF OnePos
  <2> QED
    BY <2>2
<1>3. OnePos(s) /\ Pos(Head(s)) => NoPos(Tail(s))
  <2> SUFFICES ASSUME OnePos(s), Pos(Head(s)), NEW k \in DOMAIN Tail(s), Pos(Tail(s)[k]) PROVE FALSE
    BY DEF NoPos
  <2>1. 1 \in DOMAIN s /\ k + 1 \in DOMAIN s /\ Pos(s[1]) /\ Pos(s[k + 1])
    OBVIOUS
  <2>2. k + 1 = 1
    BY <2>1 DEF OnePos
  <2> QED
    BY <2>2
<1> QED
  BY <1>1, <1>2, <1>3

------------------------------------------------------------------------------
(* The client keeps Wire *)

Item == Line \cup Torn

LEMMA Codes == \A l \in Item : l.code \in Nat
<1>1. \A l \in Line : l.code \in Nat
  BY DEF Line, Code
<1>2. \A l \in Torn : l.code \in Nat
  BY DEF Torn
<1> QED
  BY <1>1, <1>2 DEF Item

LEMMA Classes == \A l, c : Positive(l) /\ Parsed(l) = c => c \in 200 .. 299 \/ c = 354 \/ c = 334
BY Zenon DEF Positive

\* A positive line where one is waited for is the answer to the last command,
\* and nothing else is under way.
LEMMA NextTold ==
  ASSUME TypeOK, Wire, NEW s \in State \ {"prompt", "start_tls_ack", "body"}, Told(s)
  PROVE  /\ call # "over" /\ result = "none" /\ state = s /\ out = <<>>
         /\ in \in Seq(Item) /\ in # <<>> /\ Tail(in) \in Seq(Item) /\ NoPos(Tail(in)) /\ ~NoPos(in)
<1>1. state = s /\ in # <<>> /\ in \in Seq(Item) /\ Positive(Head(in))
  BY DEF Told, TypeOK, ClientOK, SizesOK, WiresOK, ServerOK, Item
<1>2. code = 0 /\ call # "over" /\ result = "none"
  BY <1>1 DEF Wire, TypeOK, ClientOK, SizesOK, WiresOK, ServerOK
<1>3. Pos(Head(in))
  <2>1. Head(in).code \in Nat
    BY <1>1, HeadTail, Codes
  <2>2. CASE Head(in).last
    <3>1. Parsed(Head(in)) = Head(in).code
      BY <1>1, <2>2 DEF Parsed, Expects
    <3>2. \A c \in Nat : c \in 200 .. 299 \/ c = 354 \/ c = 334 => c < 400
      OBVIOUS
    <3>3. Head(in).code < 400
      BY <1>1, <2>1, <3>1, <3>2, Classes, Zenon
    <3> QED
      BY <2>2, <3>3 DEF Pos
  <2>3. CASE ~Head(in).last
    <3>1. Parsed(Head(in)) = 0
      BY <1>2, <2>3 DEF Parsed
    <3>2. ~(0 \in 200 .. 299 \/ 0 = 354 \/ 0 = 334)
      OBVIOUS
    <3> QED
      BY <1>1, <3>1, <3>2, Classes, Zenon
  <2> QED
    BY <2>2, <2>3
<1>4. ~NoPos(in)
  BY <1>1, <1>3, HeadTail DEF NoPos
<1>5. NoPos(Tail(in)) /\ Tail(in) \in Seq(Item)
  BY <1>1, <1>3, TailNoPos, HeadTail DEF Wire
<1>6. out = <<>>
  BY <1>4 DEF Wire
<1> QED
  BY <1>1, <1>2, <1>4, <1>5, <1>6

\* Where no answer is waited for none is under way, and no command either.
LEMMA NothingAsked ==
  ASSUME TypeOK, Wire, call # "over", state \in {"prompt", "start_tls_ack", "body"}
  PROVE  NoPos(in) /\ AllText(out) /\ result = "none"
<1>1. Asked(state) = "TEXT"
  BY DEF Asked
<1>2. NoPos(in)
  BY <1>1 DEF Wire, NoPos, InStep
<1>3. AllText(out)
  BY <1>1 DEF Wire, AllText
<1> QED
  BY <1>2, <1>3 DEF Wire

LEMMA WireMoves ==
  ASSUME TypeOK, AllText(out), NoPos(in'), NEW cmd \in Command, cmd \in {"TEXT", Asked(state')},
         out' \in {out, Append(out, cmd), <<cmd>>},
         code' # 0 => state' \in {"prompt", "start_tls_ack"},
         call' = "over" => state' = "prompt", result' # "none" => call' = "over"
  PROVE  Wire'
<1>1. \A k \in DOMAIN out' : out'[k] # "TEXT" => k = Len(out') /\ out'[k] = cmd
  <2>1. CASE out' = out
    BY <2>1 DEF AllText
  <2>2. CASE out' = Append(out, cmd)
    BY <2>2, Appended DEF AllText, TypeOK, ClientOK, SizesOK, WiresOK, ServerOK
  <2>3. CASE out' = <<cmd>>
    BY <2>3
  <2> QED
    BY <2>1, <2>2, <2>3
<1>2. \A k \in DOMAIN out' : out'[k] # "TEXT" => out'[k] = Asked(state')
  BY <1>1
<1>3. OnePos(in')
  BY DEF OnePos, NoPos
<1>4. \A k \in DOMAIN in' : Pos(in'[k]) => InStep(in'[k], state')
  BY DEF NoPos
<1> QED
  BY <1>1, <1>2, <1>3, <1>4 DEF Wire

LEMMA WireFails ==
  ASSUME TypeOK, Wire, NEW s, Fail(s)
  PROVE  Wire'
<1>1. in' = <<>> /\ out' = out /\ code' = 0 /\ call' = "over" /\ line' = "cut" /\ state' = "prompt"
  BY DEF Fail, SetState
<1>2. NoPos(in')
  BY <1>1 DEF NoPos
<1>3. OnePos(in')
  BY <1>2 DEF OnePos, NoPos
<1>4. \A k \in DOMAIN in' : Pos(in'[k]) => InStep(in'[k], state')
  BY <1>2 DEF NoPos
<1>5. \A k \in DOMAIN out' : out'[k] # "TEXT" => k = Len(out')
  BY <1>1 DEF Wire
<1> QED
  BY <1>1, <1>2, <1>3, <1>4, <1>5 DEF Wire

LEMMA WireAsk ==
  ASSUME TypeOK, Wire, AllText(out), call # "over", NEW cmd \in Command, NEW s, NEW rest \in Seq(Item),
         NoPos(rest), cmd \in {"TEXT", Asked(s)}, Ask(cmd, s, rest)
  PROVE  Wire'
<1>1. CASE Fail(state)
  BY <1>1, WireFails
<1>2. CASE /\ out' = IF line = "up" THEN Append(out, cmd) ELSE out
           /\ SetState(s) /\ in' = rest /\ UNCHANGED <<call, result, failedIn, flags, line>>
  <2>1. out' \in {out, Append(out, cmd), <<cmd>>} /\ state' = s /\ code' = 0 /\ NoPos(in')
    BY <1>2 DEF SetState
  <2>2. call' # "over" /\ result' = "none"
    BY <1>2 DEF Wire
  <2> QED
    BY <2>1, <2>2, WireMoves
<1> QED
  BY <1>1, <1>2 DEF Ask

LEMMA Table ==
  /\ Asked("initial") = "HELLO" /\ Asked("greeting") = "EHLO" /\ Asked("start_tls") = "STARTTLS"
  /\ Asked("auth_plain") = "PLAIN" /\ Asked("auth_login") = "LOGIN" /\ Asked("login_user") = "USER"
  /\ Asked("login_psw") = "PSW" /\ Asked("sender") = "MAIL" /\ Asked("recipient") = "RCPT"
  /\ Asked("wait_data") = "DATA" /\ Asked("termination") = "DOT"
BY DEF Asked

\* After an answer that was waited for the next command goes out alone.
LEMMA ToldAsk ==
  ASSUME TypeOK, Wire, NEW s \in State \ {"prompt", "start_tls_ack", "body"}, Told(s),
         NEW cmd \in Command, NEW next, cmd \in {"TEXT", Asked(next)}, Ask(cmd, next, Tail(in))
  PROVE  Wire'
<1>1. call # "over" /\ AllText(out) /\ Tail(in) \in Seq(Item) /\ NoPos(Tail(in))
  BY NextTold DEF AllText
<1> QED
  BY <1>1, WireAsk

\* After one that ends a call, or the last, nothing goes out.
LEMMA ToldEnds ==
  ASSUME TypeOK, Wire, NEW s \in State \ {"prompt", "start_tls_ack", "body"}, Told(s),
         state' \in {"prompt", "start_tls_ack"}, in' \in {Tail(in), <<>>}, out' = out,
         call' = "over" => state' = "prompt", result' # "none" => call' = "over"
  PROVE  Wire'
<1>1. AllText(out) /\ NoPos(Tail(in)) /\ NoPos(<<>>)
  BY NextTold DEF AllText, NoPos
<1>2. "TEXT" \in Command
  BY DEF Command
<1> QED
  BY <1>1, <1>2, WireMoves

LEMMA WireConnect ==
  ASSUME TypeOK, Wire, connectImpl \/ sendGreeting \/ Greeted \/ tlsHandshake \/ GreetAgain
  PROVE  Wire'
<1> USE DEF State, Command
<1>1. CASE connectImpl
  <2>1. CASE Fail("prompt")
    BY <2>1, WireFails
  <2>2. CASE /\ connected' = TRUE /\ SetState("initial") /\ line' = "up" /\ out' = <<"HELLO">>
             /\ UNCHANGED <<call, secured, ack, in, result, failedIn>>
    <3>1. NoPos(in) /\ AllText(out) /\ result = "none" /\ call = "connect"
      BY <1>1, NothingAsked DEF connectImpl
    <3>2. state' = "initial" /\ code' = 0 /\ in' = in /\ call' = call /\ result' = result /\ out' = <<"HELLO">>
      BY <2>2 DEF SetState
    <3>3. NoPos(in')
      BY <3>1, <3>2
    <3> QED
      BY <3>1, <3>2, <3>3, WireMoves, Table
  <2> QED
    BY <1>1, <2>1, <2>2 DEF connectImpl
<1>2. CASE sendGreeting
  BY <1>2, ToldAsk, Table DEF sendGreeting
<1>3. CASE Greeted
  <2>1. Told("greeting")
    BY <1>3 DEF Greeted
  <2>2. CASE Ask("STARTTLS", "start_tls", Tail(in))
    BY <2>1, <2>2, ToldAsk, Table
  <2>3. CASE Ready
    BY <2>1, <2>3, ToldEnds, NextTold DEF Ready
  <2> QED
    BY <1>3, <2>2, <2>3 DEF Greeted
<1>4. CASE tlsHandshake
  <2>1. CASE Fail("start_tls")
    BY <2>1, WireFails
  <2>2. CASE ~Fail("start_tls")
    <3>1. Told("start_tls") /\ in' = <<>> /\ out' = out /\ state' = "start_tls_ack" /\ call' = call /\ result' = result
      BY <1>4, <2>2 DEF tlsHandshake
    <3> QED
      BY <3>1, ToldEnds, NextTold
  <2> QED
    BY <2>1, <2>2
<1>5. CASE GreetAgain
  <2>1. state = "start_tls_ack" /\ in = <<>> /\ call # "over"
    BY <1>5 DEF GreetAgain, Wire
  <2>2. NoPos(in) /\ AllText(out) /\ result = "none" /\ in \in Seq(Item)
    BY <2>1, NothingAsked DEF TypeOK, ClientOK, SizesOK, WiresOK, ServerOK, Item
  <2>3. CASE Ask("EHLO", "greeting", in)
    BY <2>1, <2>2, <2>3, WireAsk, Table
  <2>4. CASE state' = "prompt" /\ call' = "auth" /\ UNCHANGED <<code, flags, result, failedIn, wires>>
    <3>1. out' = out /\ NoPos(in')
      BY <2>2, <2>4 DEF wires
    <3> QED
      BY <2>2, <2>4, <3>1, WireMoves
  <2> QED
    BY <1>5, <2>3, <2>4 DEF GreetAgain
<1> QED
  BY <1>1, <1>2, <1>3, <1>4, <1>5

LEMMA WireAuth ==
  ASSUME TypeOK, Wire, auth \/ authLogin \/ Authenticated
  PROVE  Wire'
<1> USE DEF State, Command
<1>1. CASE auth
  <2>1. call # "over" /\ state = "prompt"
    BY <1>1 DEF auth
  <2>2. NoPos(in) /\ AllText(out) /\ result = "none" /\ in \in Seq(Item)
    BY <2>1, NothingAsked DEF TypeOK, ClientOK, SizesOK, WiresOK, ServerOK, Item
  <2>3. CASE GiveUp("start_tls_ack")
    <3>1. state' = "prompt" /\ out' = out /\ NoPos(in') /\ call' = "over"
      BY <2>1, <2>2, <2>3 DEF GiveUp, wires
    <3> QED
      BY <2>2, <3>1, WireMoves
  <2>4. CASE "PLAIN" \in caps /\ Ask("PLAIN", "auth_plain", in)
    BY <2>1, <2>2, <2>4, WireAsk, Table
  <2>5. CASE "PLAIN" \notin caps /\ Ask("LOGIN", "auth_login", in)
    BY <2>1, <2>2, <2>5, WireAsk, Table
  <2> QED
    BY <1>1, <2>3, <2>4, <2>5 DEF auth
<1>2. CASE authLogin
  BY <1>2, ToldAsk, Table DEF authLogin
<1>3. CASE Authenticated
  BY <1>3, ToldEnds, NextTold DEF Authenticated
<1> QED
  BY <1>1, <1>2, <1>3

LEMMA WireSend ==
  ASSUME TypeOK, Wire, send \/ sendRecipient \/ startData \/ sendBodyData \/ terminateData \/ Sent
  PROVE  Wire'
<1> USE DEF State, Command
<1>1. CASE send
  <2>1. call # "over" /\ state = "prompt"
    BY <1>1 DEF send
  <2>2. NoPos(in) /\ AllText(out) /\ result = "none" /\ in \in Seq(Item)
    BY <2>1, NothingAsked DEF TypeOK, ClientOK, SizesOK, WiresOK, ServerOK, Item
  <2>3. CASE GiveUp("invalid")
    <3>1. state' = "prompt" /\ out' = out /\ NoPos(in') /\ call' = "over"
      BY <2>1, <2>2, <2>3 DEF GiveUp, wires
    <3> QED
      BY <2>2, <3>1, WireMoves
  <2>4. CASE Ask("MAIL", "sender", in)
    BY <2>1, <2>2, <2>4, WireAsk, Table
  <2> QED
    BY <1>1, <2>3, <2>4 DEF send
<1>2. CASE sendRecipient
  BY <1>2, ToldAsk, Table DEF sendRecipient
<1>3. CASE startData
  BY <1>3, ToldAsk, Table DEF startData
<1>4. CASE Told("wait_data") /\ Ask("TEXT", "body", Tail(in))
  BY <1>4, ToldAsk
<1>5. CASE state = "body" /\ in = <<>> /\ (Ask("TEXT", "body", in) \/ Ask("DOT", "termination", in))
  <2>1. call # "over"
    BY <1>5 DEF Wire
  <2>2. NoPos(in) /\ AllText(out) /\ in \in Seq(Item)
    BY <1>5, <2>1, NothingAsked DEF TypeOK, ClientOK, SizesOK, WiresOK, ServerOK, Item
  <2> QED
    BY <1>5, <2>1, <2>2, WireAsk, Table
<1>6. CASE Sent
  <2>1. state' = "prompt" /\ call' = "over" /\ in' = Tail(in) /\ out' = out /\ Told("termination")
    BY <1>6 DEF Sent, SetState
  <2> QED
    BY <2>1, ToldEnds
<1> QED
  BY <1>1, <1>2, <1>3, <1>4, <1>5, <1>6 DEF sendBodyData, terminateData

LEMMA Listed == \A l \in Item : l.code \in Code \cup {0}
<1>1. \A l \in Line : l.code \in Code
  BY DEF Line
<1>2. \A l \in Torn : l.code = 0
  BY DEF Torn
<1> QED
  BY <1>1, <1>2 DEF Item

\* The only positive answers outside of 2xx and 354 are taken where they belong.
LEMMA Matched ==
  ASSUME state \in State, NEW l, Parsed(l) = 334, l.to \in {"LOGIN", "USER"}, l.to = Asked(state)
  PROVE  Positive(l)
<1>1. CASE l.to = "LOGIN"
  <2>1. state = "auth_login"
    BY <1>1 DEF State, Asked
  <2> QED
    BY <1>1, <2>1 DEF Positive
<1>2. CASE l.to = "USER"
  <2>1. state = "login_user"
    BY <1>2 DEF State, Asked
  <2> QED
    BY <1>2, <2>1 DEF Positive
<1> QED
  BY <1>1, <1>2

LEMMA WireHandle ==
  ASSUME TypeOK, Wire, handleRefusal \/ readOn \/ readTimeout
  PROVE  Wire'
<1>1. CASE handleRefusal \/ readTimeout
  BY <1>1, WireFails DEF handleRefusal, readTimeout
<1>2. CASE readOn
  <2>1. in \in Seq(Item) /\ in # <<>> /\ in' = Tail(in) /\ state # "prompt"
    BY <1>2 DEF readOn, TypeOK, ClientOK, SizesOK, WiresOK, ServerOK, Item
  <2>2. UNCHANGED <<call, state, result, line, out>>
    BY <1>2 DEF readOn
  <2>3. \A k \in DOMAIN in' : Pos(in'[k]) => InStep(in'[k], state')
    BY <2>1, <2>2, HeadTail DEF Wire
  <2>4. OnePos(in') /\ (~NoPos(in') => out' = <<>>)
    BY <2>1, <2>2, TailNoPos DEF Wire
  <2>5. code' # 0 => state' \in {"prompt", "start_tls_ack"}
    <3> SUFFICES ASSUME code' # 0, state # "start_tls_ack" PROVE FALSE
      BY <2>2
    <3>1. code = 0
      BY <2>1 DEF Wire
    <3>2. Head(in).last /\ Expects /\ Parsed(Head(in)) = Head(in).code
      BY <1>2, <3>1 DEF readOn, Parsed
    <3>3. Head(in) \in Item /\ Head(in).code < 400
      BY <1>2, <2>1, <3>2, HeadTail, Codes DEF readOn, Refused
    <3>4. InStep(Head(in), state) /\ state \in State
      BY <2>1, <3>2, <3>3, HeadTail DEF Wire, Pos, TypeOK, ClientOK, SizesOK, WiresOK, ServerOK
    <3>5. Head(in).code # 0 /\ ~Positive(Head(in))
      BY <1>2, <3>1, <3>2 DEF readOn
    <3>6. Head(in).code \in Code \cup {0}
      BY <3>3, Listed
    <3>7. Head(in).code # 334
      BY <3>4, <3>5, <3>2, Matched DEF InStep
    <3>8. Head(in).code \in 200 .. 299 \/ Head(in).code = 354
      BY <3>3, <3>5, <3>6, <3>7 DEF Code
    <3> QED
      BY <3>2, <3>5, <3>8, Zenon DEF Positive
  <2> QED
    BY <2>2, <2>3, <2>4, <2>5 DEF Wire
<1> QED
  BY <1>1, <1>2

------------------------------------------------------------------------------
(* The server and the network keep Wire *)

LEMMA Joined ==
  ASSUME NEW S, NEW s \in Seq(S), NEW x \in S, NEW y \in S
  PROVE  /\ s \o <<x>> \in Seq(S) /\ s \o <<x, y>> \in Seq(S) /\ Len(s) \in Nat
         /\ \A k \in DOMAIN (s \o <<x>>) :
              \/ k \in DOMAIN s /\ (s \o <<x>>)[k] = s[k]
              \/ k = Len(s) + 1 /\ (s \o <<x>>)[k] = x
         /\ \A k \in DOMAIN (s \o <<x, y>>) :
              \/ k \in DOMAIN s /\ (s \o <<x, y>>)[k] = s[k]
              \/ k = Len(s) + 1 /\ (s \o <<x, y>>)[k] = x
              \/ k = Len(s) + 2 /\ (s \o <<x, y>>)[k] = y
OBVIOUS

\* A reply brings at most one positive line, whatever lines and pieces it has.
LEMMA Replied ==
  ASSUME in \in Seq(Item), NoPos(in), NEW cmd \in Command, NEW c \in Code, Reply(cmd, c), tears \in 0 .. MaxTear
  PROVE  /\ in' \in Seq(Item) /\ OnePos(in') /\ (c = 451 => NoPos(in')) /\ tears' \in 0 .. MaxTear
         /\ \A k \in DOMAIN in' : Pos(in'[k]) => in'[k].to = cmd /\ in'[k].code = c
<1> DEFINE final == [to |-> cmd, code |-> c, last |-> TRUE]
           first == [final EXCEPT !.last = FALSE]
           torn  == [to |-> cmd, code |-> 0, last |-> FALSE]
<1>1. final \in Line /\ first \in Line /\ torn \in Torn
  BY DEF Line, Torn
<1>2. final \in Item /\ first \in Item /\ torn \in Item
  BY <1>1 DEF Item
<1>3. final.to = cmd /\ final.code = c /\ ~Pos(first) /\ ~Pos(torn) /\ (c = 451 => ~Pos(final))
  BY DEF Pos
<1>4. /\ in' \in {in \o <<final>>, in \o <<first, final>>, in \o <<torn, torn>>, in \o <<final, torn>>}
      /\ tears' = tears \/ (tears < MaxTear /\ tears' = tears + 1)
  BY DEF Reply
<1> HIDE DEF final, first, torn
<1>5. in' \in Seq(Item)
  <2>1. /\ in \o <<final>> \in Seq(Item) /\ in \o <<first, final>> \in Seq(Item)
        /\ in \o <<torn, torn>> \in Seq(Item) /\ in \o <<final, torn>> \in Seq(Item)
    BY <1>2, Joined
  <2> QED
    BY <1>4, <2>1
<1>6. PICK p \in Nat : \A k \in DOMAIN in' : Pos(in'[k]) => k = p /\ in'[k] = final
  <2>1. CASE in' = in \o <<final>>
    <3>1. \A k \in DOMAIN in' : Pos(in'[k]) => k = Len(in) + 1 /\ in'[k] = final
      BY <1>2, <2>1, Joined DEF NoPos
    <3>2. Len(in) + 1 \in Nat
      OBVIOUS
    <3> QED
      BY <3>1, <3>2
  <2>2. CASE in' = in \o <<first, final>>
    <3>1. \A k \in DOMAIN in' : Pos(in'[k]) => k = Len(in) + 2 /\ in'[k] = final
      BY <1>2, <1>3, <2>2, Joined DEF NoPos
    <3>2. Len(in) + 2 \in Nat
      OBVIOUS
    <3> QED
      BY <3>1, <3>2
  <2>3. CASE in' = in \o <<torn, torn>>
    <3>1. \A k \in DOMAIN in' : Pos(in'[k]) => k = 0 /\ in'[k] = final
      BY <1>2, <1>3, <2>3, Joined DEF NoPos
    <3> QED
      BY <3>1
  <2>4. CASE in' = in \o <<final, torn>>
    <3>1. \A k \in DOMAIN in' : Pos(in'[k]) => k = Len(in) + 1 /\ in'[k] = final
      BY <1>2, <1>3, <2>4, Joined DEF NoPos
    <3>2. Len(in) + 1 \in Nat
      OBVIOUS
    <3> QED
      BY <3>1, <3>2
  <2> QED
    BY <1>4, <2>1, <2>2, <2>3, <2>4
<1>7. OnePos(in') /\ (c = 451 => NoPos(in'))
  BY <1>3, <1>6 DEF OnePos, NoPos
<1>8. tears' \in 0 .. MaxTear
  BY <1>4, SizeAssumption
<1> QED
  BY <1>3, <1>5, <1>6, <1>7, <1>8

LEMMA Refusing == Yes \in [Command \ {"TEXT"} -> Code \ {451}]
                  /\ \A cmd \in Command \ {"TEXT"} : Yes[cmd] = 334 => cmd \in {"LOGIN", "USER"}
BY DEF Yes, Command, Code

\* What an answer to the command at the head leaves under way.
LEMMA WireAnswers ==
  ASSUME TypeOK, Wire, out # <<>>, NEW cmd \in Command, cmd = Head(out), NEW c \in Code, Answer(cmd, c),
         c = 451 \/ cmd # "TEXT", c = 334 => cmd \in {"LOGIN", "USER"}, out' = Tail(out),
         UNCHANGED <<call, state, code, result, line>>
  PROVE  /\ Wire' /\ in' \in Seq(Item) /\ tears' \in 0 .. MaxTear
         /\ c = 451 \/ line # "up" => NoPos(in')
<1>1. in \in Seq(Item) /\ out \in Seq(Command) /\ tears \in 0 .. MaxTear /\ NoPos(in)
  BY DEF TypeOK, ClientOK, SizesOK, WiresOK, ServerOK, Item, Wire
<1>2. \A k \in DOMAIN out' : out'[k] # "TEXT" => k = Len(out') /\ out'[k] \in {out[j] : j \in DOMAIN out}
  BY <1>1, HeadTail DEF Wire
<1>3. call' # "over" \/ line' = "up" => \A k \in DOMAIN out' : out'[k] # "TEXT" => out'[k] = Asked(state')
  BY <1>1, HeadTail DEF Wire
<1>4. CASE line = "up"
  <2>1. Reply(cmd, c)
    BY <1>4 DEF Answer
  <2>2. /\ in' \in Seq(Item) /\ OnePos(in') /\ (c = 451 => NoPos(in')) /\ tears' \in 0 .. MaxTear
        /\ \A k \in DOMAIN in' : Pos(in'[k]) => in'[k].to = cmd /\ in'[k].code = c
    BY <1>1, <2>1, Replied
  <2>3. CASE c = 451
    <3>1. \A k \in DOMAIN in' : Pos(in'[k]) => InStep(in'[k], state')
      BY <2>2, <2>3 DEF NoPos
    <3> QED
      BY <1>2, <1>3, <1>4, <2>2, <2>3, <3>1 DEF Wire
  <2>4. CASE cmd # "TEXT"
    <3>1. out[1] = cmd /\ 1 \in DOMAIN out
      BY <1>1, HeadTail
    <3>2. cmd = Asked(state) /\ Len(out) = 1
      BY <1>4, <2>4, <3>1 DEF Wire
    <3>3. out' = <<>>
      BY <1>1, <3>2
    <3>4. \A k \in DOMAIN in' : Pos(in'[k]) => InStep(in'[k], state')
      BY <2>2, <2>4, <3>2 DEF InStep
    <3> QED
      BY <1>2, <1>3, <1>4, <2>2, <3>3, <3>4 DEF Wire
  <2> QED
    BY <2>3, <2>4
<1>5. CASE line # "up"
  <2>1. in' = in /\ tears' = tears
    BY <1>5 DEF Answer
  <2>2. \A k \in DOMAIN in' : Pos(in'[k]) => InStep(in'[k], state')
    BY <2>1 DEF Wire
  <2>3. NoPos(in') /\ OnePos(in')
    BY <1>1, <2>1 DEF OnePos, NoPos
  <2> QED
    BY <1>1, <1>2, <1>3, <2>1, <2>2, <2>3 DEF Wire
<1> QED
  BY <1>4, <1>5

LEMMA WireServer ==
  ASSUME TypeOK, Wire, ServerAccepts \/ ServerRefuses \/ ServerReads
  PROVE  Wire' /\ in' \in Seq(Item) /\ tears' \in 0 .. MaxTear
<1>1. out # <<>> /\ out \in Seq(Command) /\ out' = Tail(out) /\ UNCHANGED <<call, state, code, result, line>>
  BY DEF TypeOK, ClientOK, SizesOK, WiresOK, ServerOK, ServerAccepts, ServerRefuses, ServerReads, client
<1>2. Head(out) \in Command
  BY <1>1
<1>3. CASE ServerAccepts
  <2>1. CASE Answer(Head(out), Yes[Head(out)])
    <3>1. Head(out) \in Command \ {"TEXT"}
      BY <1>2, <1>3 DEF ServerAccepts
    <3>2. Yes[Head(out)] \in Code /\ (Yes[Head(out)] = 334 => Head(out) \in {"LOGIN", "USER"})
      BY <3>1, Refusing
    <3> QED
      BY <1>1, <1>2, <2>1, <3>1, <3>2, WireAnswers
  <2>2. CASE Head(out) = "STARTTLS" /\ Answer("STARTTLS", 250)
    <3>1. 250 \in Code
      BY DEF Code
    <3> QED
      BY <1>1, <1>2, <2>2, <3>1, WireAnswers
  <2> QED
    BY <1>3, <2>1, <2>2 DEF ServerAccepts
<1>4. 451 \in Code
  BY DEF Code
<1>5. CASE ServerRefuses
  BY <1>1, <1>2, <1>4, <1>5, WireAnswers DEF ServerRefuses
<1>6. CASE ServerReads
  <2>1. CASE Answer("TEXT", 451)
    BY <1>1, <1>2, <1>4, <1>6, <2>1, WireAnswers DEF ServerReads
  <2>2. CASE UNCHANGED <<in, tears>>
    <3>1. Head(out) = "TEXT"
      BY <1>6 DEF ServerReads
    <3>2. in \in Seq(Item) /\ tears \in 0 .. MaxTear /\ NoPos(in)
      BY <1>1 DEF TypeOK, ClientOK, SizesOK, WiresOK, ServerOK, Item, Wire
    <3>3. NoPos(in') /\ OnePos(in')
      BY <2>2, <3>2 DEF OnePos, NoPos
    <3>4. \A k \in DOMAIN in' : Pos(in'[k]) => InStep(in'[k], state')
      BY <3>3 DEF NoPos
    <3>5. \A k \in DOMAIN out' : out'[k] # "TEXT" => k = Len(out')
      BY <1>1, HeadTail DEF Wire
    <3>6. call' # "over" \/ line' = "up" => \A k \in DOMAIN out' : out'[k] # "TEXT" => out'[k] = Asked(state')
      BY <1>1, HeadTail DEF Wire
    <3> QED
      BY <1>1, <2>2, <3>2, <3>3, <3>4, <3>5, <3>6 DEF Wire
  <2> QED
    BY <1>6, <2>1, <2>2 DEF ServerReads
<1> QED
  BY <1>3, <1>5, <1>6

LEMMA WireCut ==
  ASSUME TypeOK, Wire, Cut
  PROVE  Wire' /\ in' \in Seq(Item)
<1> DEFINE bye == [to |-> "HELLO", code |-> 451, last |-> TRUE]
<1>1. bye \in Item /\ ~Pos(bye)
  BY DEF Item, Line, Command, Code, Pos
<1>2. /\ out' \in {out, <<>>} /\ in' \in {in, <<>>, Append(in, bye)} /\ call # "over" /\ in \in Seq(Item)
      /\ UNCHANGED <<call, state, code, result>>
  BY DEF Cut, client, TypeOK, ClientOK, SizesOK, WiresOK, ServerOK, Item
<1> HIDE DEF bye
<1>3. in' \in Seq(Item)
  <2>1. Append(in, bye) \in Seq(Item) /\ <<>> \in Seq(Item)
    BY <1>1, <1>2
  <2> QED
    BY <1>2, <2>1
<1>4. \A k \in DOMAIN in' : Pos(in'[k]) => k \in DOMAIN in /\ in'[k] = in[k]
  <2>1. CASE in' = Append(in, bye)
    BY <1>1, <1>2, <2>1, Appended
  <2>2. CASE in' \in {in, <<>>}
    BY <1>2, <2>2
  <2> QED
    BY <1>2, <2>1, <2>2
<1>5. \A k \in DOMAIN in' : Pos(in'[k]) => InStep(in'[k], state')
  BY <1>2, <1>4 DEF Wire
<1>6. OnePos(in') /\ (~NoPos(in') => ~NoPos(in))
  BY <1>4 DEF Wire, OnePos, NoPos
<1>7. \A k \in DOMAIN out' : out'[k] # "TEXT" => k = Len(out') /\ out'[k] = Asked(state')
  <2>1. CASE out' = out
    BY <1>2, <2>1 DEF Wire
  <2>2. CASE out' = <<>>
    BY <2>2
  <2> QED
    BY <1>2, <2>1, <2>2
<1>8. ~NoPos(in') => out' = <<>>
  BY <1>2, <1>6 DEF Wire
<1> QED
  BY <1>2, <1>3, <1>5, <1>6, <1>7, <1>8 DEF Wire

------------------------------------------------------------------------------
(* Types *)

LEMMA TypeFail ==
  ASSUME TypeOK, NEW s \in State, Fail(s)
  PROVE  ClientOK' /\ WiresOK'
<1>1. ClientOK'
  BY DEF TypeOK, ClientOK, Fail, SetState, State, Code
<1>2. WiresOK'
  BY DEF TypeOK, WiresOK, Fail
<1> QED
  BY <1>1, <1>2

LEMMA TypeAsk ==
  ASSUME TypeOK, NEW cmd \in Command, NEW s \in State, NEW rest \in Seq(Item), Ask(cmd, s, rest)
  PROVE  ClientOK' /\ WiresOK'
<1>1. CASE Fail(state)
  BY <1>1, TypeFail DEF TypeOK, ClientOK
<1>2. CASE /\ out' = IF line = "up" THEN Append(out, cmd) ELSE out
           /\ SetState(s) /\ in' = rest /\ UNCHANGED <<call, result, failedIn, flags, line>>
  <2>1. ClientOK'
    BY <1>2 DEF TypeOK, ClientOK, SetState, flags
  <2>2. WiresOK'
    BY <1>2, Appended DEF TypeOK, WiresOK, Item
  <2> QED
    BY <2>1, <2>2
<1> QED
  BY <1>1, <1>2 DEF Ask

LEMMA TailItems == WiresOK => in \in Seq(Item) /\ (in # <<>> => Tail(in) \in Seq(Item) /\ Head(in) \in Item)
BY DEF WiresOK, Item

\* A code read is one of a line or the one before.
LEMMA TypeParsed == TypeOK /\ in # <<>> => Parsed(Head(in)) \in Code \cup {0}
BY TailItems, Listed DEF TypeOK, ClientOK, Parsed

LEMMA TypeConnect ==
  ASSUME TypeOK, connectImpl \/ sendGreeting \/ Greeted \/ tlsHandshake \/ GreetAgain
  PROVE  ClientOK' /\ WiresOK'
<1>0. /\ "prompt" \in State /\ "initial" \in State /\ "greeting" \in State /\ "start_tls" \in State
      /\ "start_tls_ack" \in State /\ "HELLO" \in Command /\ "EHLO" \in Command /\ "STARTTLS" \in Command
  BY DEF State, Command
<1>1. CASE connectImpl
  <2>1. CASE Fail("prompt")
    BY <1>0, <2>1, TypeFail
  <2>2. CASE /\ connected' = TRUE /\ SetState("initial") /\ line' = "up" /\ out' = <<"HELLO">>
             /\ UNCHANGED <<call, secured, ack, in, result, failedIn>>
    <3>1. ClientOK'
      BY <1>0, <2>2 DEF TypeOK, ClientOK, SetState
    <3>2. WiresOK'
      BY <1>0, <2>2 DEF TypeOK, WiresOK
    <3> QED
      BY <3>1, <3>2
  <2> QED
    BY <1>1, <2>1, <2>2 DEF connectImpl
<1>2. CASE sendGreeting
  BY <1>0, <1>2, TypeAsk, TailItems DEF sendGreeting, Told, TypeOK
<1>3. CASE Greeted
  <2>1. in # <<>> /\ Tail(in) \in Seq(Item)
    BY <1>3, TailItems DEF Greeted, Told, TypeOK
  <2>2. CASE Ask("STARTTLS", "start_tls", Tail(in))
    BY <1>0, <2>1, <2>2, TypeAsk
  <2>3. CASE Ready
    <3>1. ClientOK'
      BY <1>0, <2>3 DEF TypeOK, ClientOK, Ready
    <3>2. WiresOK'
      BY <2>1, <2>3 DEF TypeOK, WiresOK, Ready, Item
    <3> QED
      BY <3>1, <3>2
  <2> QED
    BY <1>3, <2>2, <2>3 DEF Greeted
<1>4. CASE tlsHandshake
  <2>1. CASE Fail("start_tls")
    BY <1>0, <2>1, TypeFail
  <2>2. CASE ~Fail("start_tls")
    <3>1. /\ secured' = TRUE /\ state' = "start_tls_ack" /\ code' = Parsed(Head(in)) /\ in' = <<>>
          /\ UNCHANGED <<call, connected, ack, result, failedIn, line, out>>
      BY <1>4, <2>2 DEF tlsHandshake
    <3>2. Parsed(Head(in)) \in Code \cup {0}
      BY <1>4, TypeParsed DEF tlsHandshake, Told
    <3>3. ClientOK'
      BY <1>0, <3>1, <3>2 DEF TypeOK, ClientOK
    <3>4. WiresOK'
      BY <3>1 DEF TypeOK, WiresOK
    <3> QED
      BY <3>3, <3>4
  <2> QED
    BY <2>1, <2>2
<1>5. CASE GreetAgain
  <2>1. CASE Ask("EHLO", "greeting", in)
    BY <1>0, <2>1, TypeAsk, TailItems DEF TypeOK
  <2>2. CASE state' = "prompt" /\ call' = "auth" /\ UNCHANGED <<code, flags, result, failedIn, wires>>
    <3>1. ClientOK'
      BY <1>0, <2>2 DEF TypeOK, ClientOK, flags
    <3>2. WiresOK'
      BY <2>2 DEF TypeOK, WiresOK, wires
    <3> QED
      BY <3>1, <3>2
  <2> QED
    BY <1>5, <2>1, <2>2 DEF GreetAgain
<1> QED
  BY <1>1, <1>2, <1>3, <1>4, <1>5

LEMMA TypeGiveUp ==
  ASSUME TypeOK, NEW s \in State \cup {"invalid"}, GiveUp(s)
  PROVE  ClientOK' /\ WiresOK'
<1>1. ClientOK'
  BY DEF TypeOK, ClientOK, GiveUp, flags
<1>2. WiresOK'
  BY DEF TypeOK, WiresOK, GiveUp, wires
<1> QED
  BY <1>1, <1>2

LEMMA TypeSend ==
  ASSUME TypeOK, \/ auth \/ authLogin \/ Authenticated
                 \/ send \/ sendRecipient \/ startData \/ sendBodyData \/ terminateData \/ Sent
  PROVE  ClientOK' /\ WiresOK'
<1>0. /\ "start_tls_ack" \in State /\ "auth_plain" \in State /\ "auth_login" \in State /\ "login_user" \in State
      /\ "login_psw" \in State /\ "sender" \in State /\ "recipient" \in State /\ "wait_data" \in State
      /\ "body" \in State /\ "termination" \in State /\ "prompt" \in State
      /\ "PLAIN" \in Command /\ "LOGIN" \in Command /\ "USER" \in Command /\ "PSW" \in Command
      /\ "MAIL" \in Command /\ "RCPT" \in Command /\ "DATA" \in Command /\ "TEXT" \in Command /\ "DOT" \in Command
  BY DEF State, Command
<1>1. in \in Seq(Item) /\ (in # <<>> => Tail(in) \in Seq(Item))
  BY TailItems DEF TypeOK
<1>2. CASE auth
  <2>1. CASE GiveUp("start_tls_ack")
    BY <1>0, <2>1, TypeGiveUp
  <2>2. CASE "PLAIN" \in caps /\ Ask("PLAIN", "auth_plain", in)
    BY <1>0, <1>1, <2>2, TypeAsk
  <2>3. CASE "PLAIN" \notin caps /\ Ask("LOGIN", "auth_login", in)
    BY <1>0, <1>1, <2>3, TypeAsk
  <2> QED
    BY <1>2, <2>1, <2>2, <2>3 DEF auth
<1>3. CASE authLogin
  BY <1>0, <1>1, <1>3, TypeAsk DEF authLogin, Told
<1>4. CASE Authenticated \/ Sent
  <2>1. in # <<>> /\ in' = Tail(in) /\ UNCHANGED <<out, line>>
    BY <1>4 DEF Authenticated, Sent, Told
  <2>2. WiresOK'
    BY <1>1, <2>1 DEF TypeOK, WiresOK, Item
  <2>3. ClientOK'
    BY <1>0, <1>4 DEF TypeOK, ClientOK, Authenticated, Sent, SetState, flags
  <2> QED
    BY <2>2, <2>3
<1>5. CASE send
  BY <1>0, <1>1, <1>5, TypeAsk, TypeGiveUp DEF send
<1>6. CASE sendRecipient
  BY <1>0, <1>1, <1>6, TypeAsk DEF sendRecipient, Told
<1>7. CASE startData
  BY <1>0, <1>1, <1>7, TypeAsk DEF startData, Told
<1>8. CASE sendBodyData
  BY <1>0, <1>1, <1>8, TypeAsk DEF sendBodyData, Told
<1>9. CASE terminateData
  BY <1>0, <1>1, <1>9, TypeAsk DEF terminateData
<1> QED
  BY <1>2, <1>3, <1>4, <1>5, <1>6, <1>7, <1>8, <1>9

LEMMA TypeHandle ==
  ASSUME TypeOK, handleRefusal \/ readOn \/ readTimeout
  PROVE  ClientOK' /\ WiresOK'
<1>1. CASE handleRefusal \/ readTimeout
  BY <1>1, TypeFail DEF handleRefusal, readTimeout, TypeOK, ClientOK
<1>2. CASE readOn
  <2>1. in # <<>> /\ Tail(in) \in Seq(Item) /\ in' = Tail(in) /\ code' = Parsed(Head(in))
    BY <1>2, TailItems DEF readOn, TypeOK
  <2>2. code' \in Code \cup {0}
    BY <2>1, TypeParsed
  <2>3. ClientOK'
    BY <1>2, <2>2 DEF TypeOK, ClientOK, readOn, flags
  <2>4. WiresOK'
    BY <1>2, <2>1 DEF TypeOK, WiresOK, readOn, Item
  <2> QED
    BY <2>3, <2>4
<1> QED
  BY <1>1, <1>2

------------------------------------------------------------------------------
(* The client keeps what the server has *)

\* Where DOT is under way to the server its answer is waited for.
LEMMA Dotted == TypeOK /\ Wire /\ call # "over" /\ Has(out, "DOT") => state = "termination"
<1> SUFFICES ASSUME TypeOK, Wire, call # "over", Has(out, "DOT") PROVE state = "termination"
  OBVIOUS
<1>1. Asked(state) = "DOT"
  BY DEF Wire, Has
<1>2. state \in State
  BY DEF TypeOK, ClientOK
<1> QED
  BY <1>1, <1>2 DEF Asked, State

LEMMA BookFails ==
  ASSUME TypeOK, Wire, Book, call # "over", Fail(state), UNCHANGED server,
         Has(out, "RCPT") => rcpt' = rcpt, piece' = 0 => piece = 0
  PROVE  Book'
<1>1. /\ out' = out /\ call' = "over" /\ state' = "prompt" /\ line' = "cut" /\ result' = "failed" /\ failedIn' = state
      /\ srv' = srv /\ accepted' = accepted
  BY DEF Fail, SetState, server
<1>2. Named'
  BY <1>1 DEF Book, Named, Has
<1>3. Written'
  BY <1>1 DEF Book, Written, Has
<1>4. Taken'
  BY <1>1, Dotted DEF Book, Taken, Has
<1> QED
  BY <1>2, <1>3, <1>4 DEF Book

LEMMA OutMoves ==
  ASSUME out \in Seq(Command), AllText(out), NEW cmd \in Command, out' \in {out, Append(out, cmd), <<cmd>>}
  PROVE  /\ \A x : Has(out', x) /\ x # "TEXT" => x = cmd
         /\ Has(out', "TEXT") => Has(out, "TEXT") \/ cmd = "TEXT"
<1>1. \A k \in DOMAIN out' : out'[k] = cmd \/ (k \in DOMAIN out /\ out'[k] = out[k])
  <2>1. CASE out' = out
    BY <2>1
  <2>2. CASE out' = Append(out, cmd)
    BY <2>2, Appended
  <2>3. CASE out' = <<cmd>>
    BY <2>3
  <2> QED
    BY <2>1, <2>2, <2>3
<1> QED
  BY <1>1 DEF Has, AllText

\* Before the recipients the server has nothing of the mail.
LEMMA BookEarly ==
  ASSUME TypeOK, Wire, Book, call # "over", AllText(out), NoPos(in'),
         state \notin {"recipient", "wait_data", "body", "termination"},
         state' \notin {"recipient", "wait_data", "body", "termination"},
         NEW cmd \in Command \ {"RCPT", "TEXT", "DOT"}, out' \in {out, Append(out, cmd), <<cmd>>},
         result' \in {"none", "failed"}, UNCHANGED <<rcpt, piece, server>>
  PROVE  Book'
<1>1. ~Has(out', "RCPT") /\ ~Has(out', "DOT") /\ (Has(out', "TEXT") => Has(out, "TEXT"))
  BY OutMoves DEF TypeOK, WiresOK
<1>2. rcpt' = rcpt /\ piece' = piece /\ srv' = srv /\ accepted' = accepted
  BY DEF server
<1>3. Named'
  BY <1>1, <1>2 DEF Book, Named
<1>4. Written'
  BY <1>1, <1>2 DEF Book, Written
<1>5. Taken'
  BY <1>1, <1>2 DEF Book, Taken
<1> QED
  BY <1>3, <1>4, <1>5 DEF Book

\* An Ask before the recipients, after an answer or without one.
LEMMA BookAsks ==
  ASSUME TypeOK, Wire, Book, call # "over", AllText(out), NEW rest, NoPos(rest),
         state \notin {"recipient", "wait_data", "body", "termination"},
         NEW s \in State \ {"recipient", "wait_data", "body", "termination"},
         NEW cmd \in Command \ {"RCPT", "TEXT", "DOT"}, Ask(cmd, s, rest), UNCHANGED <<rcpt, piece, server>>
  PROVE  Book'
<1>1. CASE Fail(state)
  BY <1>1, BookFails
<1>2. CASE /\ out' = IF line = "up" THEN Append(out, cmd) ELSE out
           /\ SetState(s) /\ in' = rest /\ UNCHANGED <<call, result, failedIn, flags, line>>
  <2>1. out' \in {out, Append(out, cmd), <<cmd>>} /\ state' = s /\ NoPos(in') /\ result' = "none"
    BY <1>2 DEF SetState, Wire
  <2> QED
    BY <2>1, BookEarly
<1> QED
  BY <1>1, <1>2 DEF Ask

LEMMA BookConnect ==
  ASSUME TypeOK, Wire, Book, connectImpl \/ sendGreeting \/ Greeted \/ tlsHandshake \/ GreetAgain
  PROVE  Book'
<1> USE DEF State, Command
<1>1. CASE connectImpl
  <2>1. call # "over" /\ state = "prompt" /\ UNCHANGED <<rcpt, piece, server>>
    BY <1>1 DEF connectImpl
  <2>2. NoPos(in) /\ AllText(out) /\ result = "none"
    BY <2>1, NothingAsked
  <2>3. CASE Fail("prompt")
    BY <2>1, <2>3, BookFails
  <2>4. CASE /\ connected' = TRUE /\ SetState("initial") /\ line' = "up" /\ out' = <<"HELLO">>
             /\ UNCHANGED <<call, secured, ack, in, result, failedIn>>
    <3>1. state' = "initial" /\ NoPos(in') /\ result' = "none" /\ out' \in {out, Append(out, "HELLO"), <<"HELLO">>}
      BY <2>2, <2>4 DEF SetState
    <3> QED
      BY <2>1, <2>2, <3>1, BookEarly
  <2> QED
    BY <1>1, <2>3, <2>4 DEF connectImpl
<1>2. CASE sendGreeting
  <2>1. Told("initial") /\ UNCHANGED <<rcpt, piece, server>>
    BY <1>2 DEF sendGreeting
  <2>2. call # "over" /\ AllText(out) /\ NoPos(Tail(in)) /\ state = "initial"
    BY <2>1, NextTold DEF AllText
  <2> QED
    BY <1>2, <2>1, <2>2, BookAsks DEF sendGreeting
<1>3. CASE Greeted
  <2>1. Told("greeting") /\ UNCHANGED <<rcpt, piece, server>>
    BY <1>3 DEF Greeted
  <2>2. call # "over" /\ AllText(out) /\ NoPos(Tail(in)) /\ state = "greeting" /\ result = "none"
    BY <2>1, NextTold DEF AllText
  <2>3. CASE Ask("STARTTLS", "start_tls", Tail(in))
    BY <2>1, <2>2, <2>3, BookAsks
  <2>4. CASE Ready
    <3>1. state' = "prompt" /\ NoPos(in') /\ result' = "none" /\ out' \in {out, Append(out, "HELLO"), <<"HELLO">>}
      BY <2>2, <2>4 DEF Ready
    <3> QED
      BY <2>1, <2>2, <3>1, BookEarly
  <2> QED
    BY <1>3, <2>3, <2>4 DEF Greeted
<1>4. CASE tlsHandshake
  <2>1. Told("start_tls") /\ UNCHANGED <<rcpt, piece, server>>
    BY <1>4 DEF tlsHandshake
  <2>2. call # "over" /\ AllText(out) /\ state = "start_tls" /\ result = "none"
    BY <2>1, NextTold DEF AllText
  <2>3. CASE Fail("start_tls")
    BY <2>1, <2>2, <2>3, BookFails
  <2>4. CASE ~Fail("start_tls")
    <3>1. state' = "start_tls_ack" /\ in' = <<>> /\ result' = "none" /\ out' \in {out, Append(out, "HELLO"), <<"HELLO">>}
      BY <1>4, <2>2, <2>4 DEF tlsHandshake
    <3>2. NoPos(in')
      BY <3>1 DEF NoPos
    <3> QED
      BY <2>1, <2>2, <3>1, <3>2, BookEarly
  <2> QED
    BY <2>3, <2>4
<1>5. CASE GreetAgain
  <2>1. state = "start_tls_ack" /\ call # "over" /\ UNCHANGED <<rcpt, piece, server>>
    BY <1>5 DEF GreetAgain, Wire
  <2>2. NoPos(in) /\ AllText(out) /\ result = "none"
    BY <2>1, NothingAsked
  <2>3. CASE Ask("EHLO", "greeting", in)
    BY <2>1, <2>2, <2>3, BookAsks
  <2>4. CASE state' = "prompt" /\ call' = "auth" /\ UNCHANGED <<code, flags, result, failedIn, wires>>
    <3>1. state' = "prompt" /\ NoPos(in') /\ result' = "none" /\ out' \in {out, Append(out, "HELLO"), <<"HELLO">>}
      BY <2>2, <2>4 DEF wires
    <3> QED
      BY <2>1, <2>2, <3>1, BookEarly
  <2> QED
    BY <1>5, <2>3, <2>4 DEF GreetAgain
<1> QED
  BY <1>1, <1>2, <1>3, <1>4, <1>5

LEMMA BookAuth ==
  ASSUME TypeOK, Wire, Book, auth \/ authLogin \/ Authenticated \/ send
  PROVE  Book'
<1> USE DEF State, Command
<1>1. CASE auth \/ send
  <2>1. call # "over" /\ state = "prompt" /\ UNCHANGED <<rcpt, piece, server>>
    BY <1>1 DEF auth, send
  <2>2. NoPos(in) /\ AllText(out) /\ result = "none"
    BY <2>1, NothingAsked
  <2>3. CASE GiveUp("start_tls_ack") \/ GiveUp("invalid")
    <3>1. state' = "prompt" /\ NoPos(in') /\ result' = "failed" /\ out' \in {out, Append(out, "HELLO"), <<"HELLO">>}
      BY <2>1, <2>2, <2>3 DEF GiveUp, wires
    <3> QED
      BY <2>1, <2>2, <3>1, BookEarly
  <2>4. CASE Ask("PLAIN", "auth_plain", in) \/ Ask("LOGIN", "auth_login", in) \/ Ask("MAIL", "sender", in)
    BY <2>1, <2>2, <2>4, BookAsks
  <2> QED
    BY <1>1, <2>3, <2>4 DEF auth, send
<1>2. CASE authLogin
  <2>1. PICK s \in {"auth_login", "login_user"} : Told(s)
    BY <1>2 DEF authLogin
  <2>2. call # "over" /\ AllText(out) /\ NoPos(Tail(in)) /\ state = s /\ UNCHANGED <<rcpt, piece, server>>
    BY <1>2, <2>1, NextTold DEF AllText, authLogin
  <2> QED
    BY <1>2, <2>1, <2>2, BookAsks DEF authLogin
<1>3. CASE Authenticated
  <2>1. PICK s \in {"auth_plain", "login_psw"} : Told(s)
    BY <1>3 DEF Authenticated
  <2>2. call # "over" /\ AllText(out) /\ NoPos(Tail(in)) /\ state = s /\ result = "none"
    BY <2>1, NextTold DEF AllText
  <2>3. state' = "prompt" /\ NoPos(in') /\ result' = "none" /\ out' \in {out, Append(out, "HELLO"), <<"HELLO">>}
        /\ UNCHANGED <<rcpt, piece, server>>
    BY <1>3, <2>2 DEF Authenticated
  <2> QED
    BY <2>1, <2>2, <2>3, BookEarly
<1> QED
  BY <1>1, <1>2, <1>3

\* A recipient is named after the one before was taken.
LEMMA BookRecipient == TypeOK /\ Wire /\ Book /\ sendRecipient => Book' /\ rcpt' \in 0 .. Recipients
<1> SUFFICES ASSUME TypeOK, Wire, Book, sendRecipient PROVE Book' /\ rcpt' \in 0 .. Recipients
  OBVIOUS
<1>1. PICK s \in {"sender", "recipient"} : Told(s)
  BY DEF sendRecipient
<1>2. call # "over" /\ out = <<>> /\ NoPos(Tail(in)) /\ ~NoPos(in) /\ state = s
  BY <1>1, NextTold DEF State
<1>3. rcpt' = rcpt + 1 /\ Ask("RCPT", "recipient", Tail(in)) /\ piece' = piece /\ srv' = srv /\ accepted' = accepted
  BY DEF sendRecipient, server
<1>4. srv.rcpt = rcpt /\ accepted = <<>> /\ piece = 0
  BY <1>2 DEF Book, Named, Written, Taken
<1>5. rcpt' \in 0 .. Recipients
  <2>1. rcpt \in 0 .. Recipients /\ Recipients \in Nat \ {0}
    BY SizeAssumption DEF TypeOK, SizesOK
  <2>2. CASE state = "sender"
    <3>1. rcpt = 0
      BY <1>2, <2>2 DEF Book, Named
    <3> QED
      BY <1>3, <2>1, <3>1
  <2>3. CASE state # "sender"
    <3>1. rcpt # Recipients
      BY <2>3 DEF sendRecipient, Told, AllNamed
    <3> QED
      BY <1>3, <2>1, <3>1
  <2> QED
    BY <2>2, <2>3
<1>6. CASE Fail(state)
  <2>1. ~Has(out, "RCPT") /\ UNCHANGED server
    BY <1>2 DEF Has, sendRecipient
  <2> QED
    BY <1>2, <1>3, <1>5, <1>6, <2>1, BookFails
<1>7. CASE /\ out' = IF line = "up" THEN Append(out, "RCPT") ELSE out
           /\ SetState("recipient") /\ in' = Tail(in) /\ UNCHANGED <<call, result, failedIn, flags, line>>
  <2>1. state' = "recipient" /\ NoPos(in') /\ out' \in {<<>>, <<"RCPT">>} /\ result' = "none"
    BY <1>2, <1>7 DEF SetState, Wire
  <2>2. \A x : Has(out', x) => x = "RCPT"
    BY <2>1 DEF Has
  <2>3. srv'.rcpt = rcpt' - 1
    BY <1>3, <1>4 DEF TypeOK, SizesOK
  <2>4. Named'
    BY <2>1, <2>2, <2>3 DEF Named
  <2>5. Written'
    BY <1>3, <1>4, <2>1, <2>2 DEF Book, Written
  <2>6. Taken'
    BY <1>3, <1>4, <2>1, <2>2 DEF Taken
  <2> QED
    BY <1>5, <2>4, <2>5, <2>6 DEF Book
<1> QED
  BY <1>3, <1>6, <1>7 DEF Ask

LEMMA BookData == TypeOK /\ Wire /\ Book /\ startData => Book'
<1> SUFFICES ASSUME TypeOK, Wire, Book, startData PROVE Book'
  OBVIOUS
<1>1. call # "over" /\ out = <<>> /\ NoPos(Tail(in)) /\ ~NoPos(in) /\ state = "recipient" /\ UNCHANGED server
  BY NextTold DEF State, startData
<1>2. Ask("DATA", "wait_data", Tail(in)) /\ piece' = piece /\ rcpt' = rcpt /\ srv' = srv /\ accepted' = accepted
  BY DEF startData, server
<1>3. srv.rcpt = rcpt /\ rcpt = Recipients /\ accepted = <<>> /\ piece = 0
  BY <1>1 DEF Book, Named, Written, Taken, startData, AllNamed
<1>4. CASE Fail(state)
  BY <1>1, <1>2, <1>4, BookFails
<1>5. CASE /\ out' = IF line = "up" THEN Append(out, "DATA") ELSE out
           /\ SetState("wait_data") /\ in' = Tail(in) /\ UNCHANGED <<call, result, failedIn, flags, line>>
  <2>1. state' = "wait_data" /\ NoPos(in') /\ out' \in {<<>>, <<"DATA">>} /\ result' = "none"
    BY <1>1, <1>5 DEF SetState, Wire
  <2>2. \A x : Has(out', x) => x = "DATA"
    BY <2>1 DEF Has
  <2>3. Named'
    BY <1>2, <1>3, <2>1, <2>2 DEF Named
  <2>4. Written'
    BY <1>2, <1>3, <2>1, <2>2 DEF Book, Written
  <2>5. Taken'
    BY <1>2, <1>3, <2>1, <2>2 DEF Taken
  <2> QED
    BY <2>3, <2>4, <2>5 DEF Book
<1> QED
  BY <1>2, <1>4, <1>5 DEF Ask

\* What the server has of the text and what is on its way are what was sent.
LEMMA BookText == TypeOK /\ Wire /\ Book /\ sendBodyData => Book' /\ piece' \in 0 .. Pieces
<1> SUFFICES ASSUME TypeOK, Wire, Book, sendBodyData PROVE Book' /\ piece' \in 0 .. Pieces
  OBVIOUS
<1>0. out \in Seq(Command) /\ in \in Seq(Item) /\ srv.text \in Nat /\ piece \in 0 .. Pieces /\ Pieces \in Nat \ {0}
  BY SizeAssumption DEF TypeOK, SizesOK, WiresOK, ServerOK, Item
<1>1. PICK rest : /\ Ask("TEXT", "body", rest) /\ NoPos(rest) /\ AllText(out) /\ call # "over"
                  /\ state \in {"wait_data", "body"} /\ piece < Pieces
                  /\ line = "up" /\ srv.data => srv.text + Len(out) = piece
  <2>1. CASE Told("wait_data") /\ Ask("TEXT", "body", Tail(in))
    <3>1. NoPos(Tail(in)) /\ out = <<>> /\ call # "over" /\ state = "wait_data"
      BY <2>1, NextTold DEF State
    <3>2. piece = 0 /\ srv.text = 0 /\ Len(out) = 0 /\ AllText(out)
      BY <3>1 DEF Book, Written, AllText
    <3>3. piece < Pieces /\ srv.text + Len(out) = piece
      BY <1>0, <3>2
    <3> QED
      BY <2>1, <3>1, <3>2, <3>3
  <2>2. CASE state = "body" /\ in = <<>> /\ piece < Pieces /\ Ask("TEXT", "body", in)
    <3>1. call # "over"
      BY <2>2 DEF Wire
    <3>2. NoPos(in) /\ AllText(out)
      BY <2>2, <3>1, NothingAsked
    <3> QED
      BY <2>2, <3>1, <3>2 DEF Book, Written
  <2> QED
    BY <2>1, <2>2 DEF sendBodyData
<1>2. piece' = piece + 1 /\ rcpt' = rcpt /\ srv' = srv /\ accepted' = accepted /\ UNCHANGED server
  BY DEF sendBodyData, server
<1>3. piece' \in 0 .. Pieces /\ piece' # 0
  BY <1>0, <1>1, <1>2
<1>4. CASE Fail(state)
  BY <1>1, <1>2, <1>3, <1>4, BookFails
<1>5. CASE /\ out' = IF line = "up" THEN Append(out, "TEXT") ELSE out
           /\ SetState("body") /\ in' = rest /\ UNCHANGED <<call, result, failedIn, flags, line>>
  <2>1. state' = "body" /\ NoPos(in') /\ result' = "none" /\ line' = line
    BY <1>1, <1>5 DEF SetState, Wire
  <2>2. \A x : Has(out', x) => x = "TEXT"
    <3>1. "TEXT" \in Command /\ out' \in {out, Append(out, "TEXT"), <<"TEXT">>}
      BY <1>5 DEF Command
    <3> QED
      BY <1>0, <1>1, <3>1, OutMoves
  <2>3. line' = "up" /\ srv'.data => srv'.text + Len(out') = piece'
    <3> SUFFICES ASSUME line = "up", srv.data PROVE srv.text + Len(out') = piece + 1
      BY <1>2, <2>1
    <3>1. Len(out') = Len(out) + 1 /\ Len(out) \in Nat
      BY <1>0, <1>5, Appended DEF Command
    <3> QED
      BY <1>0, <1>1, <3>1
  <2>4. Named'
    BY <1>1, <1>2, <2>1, <2>2 DEF Book, Named
  <2>5. Written'
    BY <1>3, <2>1, <2>2, <2>3 DEF Written
  <2>6. accepted = <<>>
    BY <1>1 DEF Book, Taken
  <2>7. Taken'
    BY <1>2, <2>1, <2>2, <2>6 DEF Taken
  <2> QED
    BY <1>3, <2>4, <2>5, <2>7 DEF Book
<1> QED
  BY <1>1, <1>3, <1>4, <1>5 DEF Ask

LEMMA BookEnd == TypeOK /\ Wire /\ Book /\ terminateData => Book'
<1> SUFFICES ASSUME TypeOK, Wire, Book, terminateData PROVE Book'
  OBVIOUS
<1>0. out \in Seq(Command) /\ srv.text \in Nat /\ piece \in 0 .. Pieces /\ Pieces \in Nat \ {0}
  BY SizeAssumption DEF TypeOK, SizesOK, WiresOK, ServerOK
<1>1. /\ state = "body" /\ in = <<>> /\ piece = Pieces /\ Ask("DOT", "termination", in) /\ call # "over"
      /\ rcpt' = rcpt /\ piece' = piece /\ srv' = srv /\ accepted' = accepted /\ UNCHANGED server
  BY DEF terminateData, server, Wire
<1>2. NoPos(in) /\ AllText(out) /\ result = "none"
  BY <1>1, NothingAsked
<1>3. CASE Fail(state)
  BY <1>1, <1>3, BookFails
<1>4. CASE /\ out' = IF line = "up" THEN Append(out, "DOT") ELSE out
           /\ SetState("termination") /\ in' = in /\ UNCHANGED <<call, result, failedIn, flags, line>>
  <2>1. state' = "termination" /\ NoPos(in') /\ result' = "none" /\ line' = line
    BY <1>2, <1>4 DEF SetState
  <2>2. (\A x : Has(out', x) /\ x # "TEXT" => x = "DOT") /\ (Has(out', "TEXT") => Has(out, "TEXT"))
    <3>1. "DOT" \in Command /\ out' \in {out, Append(out, "DOT"), <<"DOT">>}
      BY <1>4 DEF Command
    <3> QED
      BY <1>0, <1>2, <3>1, OutMoves
  <2>3. Has(out', "DOT") /\ srv'.data => srv'.text + Len(out') - 1 = Pieces
    <3> SUFFICES ASSUME Has(out', "DOT"), srv.data PROVE srv.text + Len(out') - 1 = Pieces
      BY <1>1
    <3>1. line = "up"
      BY <1>2, <1>4 DEF Has, AllText
    <3>2. Len(out') = Len(out) + 1 /\ Len(out) \in Nat
      BY <1>0, <1>4, <3>1, Appended DEF Command
    <3>3. srv.text + Len(out) = Pieces
      BY <1>1, <3>1 DEF Book, Written
    <3> QED
      BY <1>0, <3>2, <3>3
  <2>4. Named'
    BY <1>1, <2>1, <2>2 DEF Book, Named
  <2>5. Written'
    BY <1>0, <1>1, <2>1, <2>2, <2>3 DEF Book, Written
  <2>6. Taken'
    BY <1>1, <2>1, <2>2 DEF Book, Taken
  <2> QED
    BY <2>4, <2>5, <2>6 DEF Book
<1> QED
  BY <1>1, <1>3, <1>4 DEF Ask

LEMMA BookSent == TypeOK /\ Wire /\ Book /\ Sent => Book'
<1> SUFFICES ASSUME TypeOK, Wire, Book, Sent PROVE Book'
  OBVIOUS
<1>1. call # "over" /\ out = <<>> /\ ~NoPos(in) /\ state = "termination"
  BY NextTold DEF State, Sent
<1>2. /\ result' = "sent" /\ call' = "over" /\ state' = "prompt" /\ out' = out
      /\ rcpt' = rcpt /\ piece' = piece /\ srv' = srv /\ accepted' = accepted /\ line' = line
  BY DEF Sent, SetState, server
<1>3. \A x : ~Has(out', x)
  BY <1>1, <1>2 DEF Has
<1>4. Named' /\ Written' /\ Taken'
  BY <1>1, <1>2, <1>3 DEF Book, Named, Written, Taken
<1> QED
  BY <1>4 DEF Book

LEMMA BookHandle == TypeOK /\ Wire /\ Book /\ (handleRefusal \/ readOn \/ readTimeout) => Book'
<1> SUFFICES ASSUME TypeOK, Wire, Book, handleRefusal \/ readOn \/ readTimeout PROVE Book'
  OBVIOUS
<1>1. CASE handleRefusal \/ readTimeout
  <2>1. Fail(state) /\ call # "over" /\ rcpt' = rcpt /\ piece' = piece /\ UNCHANGED server
    BY <1>1 DEF handleRefusal, Refused, readTimeout, Wire, server
  <2> QED
    BY <2>1, BookFails
<1>2. CASE readOn
  <2>1. /\ UNCHANGED <<call, state, rcpt, piece, result, failedIn, line, out, srv, accepted>>
        /\ in' = Tail(in) /\ in # <<>> /\ in \in Seq(Item)
    BY <1>2, TailItems DEF readOn, server, TypeOK
  <2>2. ~NoPos(in') => ~NoPos(in)
    BY <2>1, TailNoPos
  <2>3. Named' /\ Written' /\ Taken'
    BY <2>1, <2>2 DEF Book, Named, Written, Taken, Has
  <2> QED
    BY <2>3 DEF Book
<1> QED
  BY <1>1, <1>2

------------------------------------------------------------------------------
(* The server and the network keep it *)

\* A command at the head is alone.
LEMMA HeadAlone ==
  ASSUME TypeOK, Wire, out # <<>>, Head(out) # "TEXT", out' = Tail(out)
  PROVE  /\ out' = <<>> /\ Len(out) = 1 /\ Has(out, Head(out))
         /\ call # "over" \/ line = "up" => Head(out) = Asked(state)
<1>1. out \in Seq(Command) /\ 1 \in DOMAIN out /\ out[1] = Head(out)
  BY HeadTail DEF TypeOK, WiresOK
<1>2. Len(out) = 1
  BY <1>1 DEF Wire
<1>3. out' = <<>>
  BY <1>1, <1>2
<1> QED
  BY <1>1, <1>2, <1>3 DEF Wire, Has

LEMMA BookAccepts == TypeOK /\ Wire /\ Book /\ ServerAccepts => Book' /\ ServerOK'
<1> SUFFICES ASSUME TypeOK, Wire, Book, ServerAccepts PROVE Book' /\ ServerOK'
  OBVIOUS
<1> DEFINE h == Head(out)
<1>0. /\ out \in Seq(Command) /\ out # <<>> /\ h # "TEXT" /\ out' = Tail(out) /\ h \in Command /\ state \in State
      /\ srv \in [rcpt : Nat, text : Nat, data : BOOLEAN] /\ rcpt \in 0 .. Recipients
      /\ UNCHANGED <<call, state, rcpt, piece, result, failedIn, line>>
  BY DEF TypeOK, ClientOK, SizesOK, WiresOK, ServerOK, ServerAccepts, client
<1>1. out' = <<>> /\ Len(out) = 1 /\ Has(out, h) /\ (call # "over" \/ line = "up" => h = Asked(state)) /\ \A x : ~Has(out', x)
  BY <1>0, HeadAlone DEF Has
<1>2. ~NoPos(in') => line = "up"
  <2> SUFFICES ASSUME line # "up" PROVE NoPos(in')
    OBVIOUS
  <2>1. in' = in
    BY DEF ServerAccepts, Answer
  <2> QED
    BY <1>0, <2>1 DEF Wire
<1>3. state # "prompt" => call # "over"
  BY DEF Wire
<1>4. /\ h = "RCPT" => srv'.rcpt = srv.rcpt + 1 /\ srv'.text = srv.text
      /\ h # "RCPT" => srv'.rcpt = srv.rcpt /\ srv'.text = srv.text
      /\ srv' \in [rcpt : Nat, text : Nat, data : BOOLEAN]
  <2>1. CASE h = "RCPT"
    <3>1. srv' = [srv EXCEPT !.rcpt = srv.rcpt + 1]
      BY <2>1 DEF ServerAccepts
    <3> QED
      BY <1>0, <2>1, <3>1
  <2>2. CASE h = "DATA"
    <3>1. srv' = [srv EXCEPT !.data = TRUE]
      BY <2>2 DEF ServerAccepts
    <3> QED
      BY <1>0, <2>2, <3>1
  <2>3. CASE h = "DOT"
    <3>1. srv' = [srv EXCEPT !.data = FALSE]
      BY <2>3 DEF ServerAccepts
    <3> QED
      BY <1>0, <2>3, <3>1
  <2>4. CASE h \notin {"RCPT", "DATA", "DOT"}
    <3>1. srv' = srv
      BY <2>4 DEF ServerAccepts
    <3> QED
      BY <1>0, <2>4, <3>1
  <2> QED
    BY <2>1, <2>2, <2>3, <2>4
<1>5. CASE h = "DOT"
  <2>1. accepted = <<>> /\ srv.rcpt = Recipients /\ srv.text + Len(out) - 1 = Pieces /\ srv.data
    BY <1>0, <1>1, <1>5 DEF Book, Named, Written, Taken, ServerAccepts
  <2>2. srv.text = Pieces
    BY <1>0, <1>1, <2>1, SizeAssumption
  <2>3. accepted' = Whole
    BY <1>5, <2>1, <2>2 DEF ServerAccepts, Whole
  <2>4. call # "over" => state = "termination"
    BY <1>0, <1>1, <1>5 DEF Asked, State
  <2>5. Named'
    BY <1>0, <1>1, <1>2, <1>3, <1>4, <1>5, <2>4 DEF Book, Named
  <2>6. Written'
    BY <1>0, <1>1, <1>3, <1>4, <1>5, <2>4 DEF Book, Written
  <2>7. Taken'
    BY <1>0, <1>1, <1>5, <2>1, <2>3, <2>4 DEF Book, Taken, Whole
  <2>8. ServerOK'
    BY <1>4, <2>3, SizeAssumption DEF ServerOK, Whole
  <2> QED
    BY <2>5, <2>6, <2>7, <2>8 DEF Book
<1>6. CASE h = "RCPT"
  <2>1. call # "over" \/ line = "up" => state = "recipient"
    BY <1>0, <1>1, <1>6 DEF Asked, State
  <2>2. srv'.rcpt = rcpt /\ accepted' = accepted
    BY <1>0, <1>1, <1>4, <1>6 DEF Book, Named, ServerAccepts
  <2>3. Named'
    BY <1>0, <1>1, <1>2, <1>3, <2>1, <2>2 DEF Book, Named
  <2>4. Written'
    BY <1>0, <1>1, <1>3, <1>4, <2>1 DEF Book, Written
  <2>5. Taken'
    BY <1>0, <1>1, <1>2, <1>3, <2>1, <2>2 DEF Book, Taken
  <2>6. ServerOK'
    BY <1>4, <2>2 DEF TypeOK, ServerOK
  <2> QED
    BY <2>3, <2>4, <2>5, <2>6 DEF Book
<1>7. CASE h # "DOT" /\ h # "RCPT"
  <2>1. srv'.rcpt = srv.rcpt /\ srv'.text = srv.text /\ accepted' = accepted
    BY <1>4, <1>7 DEF ServerAccepts
  <2>2. call # "over" \/ line = "up" => state # "recipient" /\ state # "termination" /\ state # "body"
    BY <1>0, <1>1, <1>7 DEF Asked, State
  <2>3. Named'
    BY <1>0, <1>1, <1>2, <1>3, <2>1, <2>2 DEF Book, Named
  <2>4. Written'
    BY <1>0, <1>1, <1>3, <2>1, <2>2 DEF Book, Written
  <2>5. Taken'
    BY <1>0, <1>1, <1>2, <1>3, <2>1, <2>2 DEF Book, Taken
  <2>6. ServerOK'
    BY <1>4, <2>1 DEF TypeOK, ServerOK
  <2> QED
    BY <2>3, <2>4, <2>5, <2>6 DEF Book
<1> QED
  BY <1>5, <1>6, <1>7

LEMMA BookRefuses == TypeOK /\ Wire /\ Book /\ ServerRefuses => Book' /\ ServerOK'
<1> SUFFICES ASSUME TypeOK, Wire, Book, ServerRefuses PROVE Book' /\ ServerOK'
  OBVIOUS
<1>0. /\ out \in Seq(Command) /\ out # <<>> /\ Head(out) # "TEXT" /\ out' = Tail(out) /\ Head(out) \in Command
      /\ UNCHANGED <<call, state, code, rcpt, piece, result, failedIn, line, accepted>>
  BY DEF TypeOK, WiresOK, ServerRefuses, client
<1>1. srv \in [rcpt : Nat, text : Nat, data : BOOLEAN] /\ srv' = [srv EXCEPT !.data = FALSE]
  BY DEF TypeOK, ServerOK, ServerRefuses
<1>2. srv'.rcpt = srv.rcpt /\ srv'.text = srv.text /\ srv'.data = FALSE /\ srv' \in [rcpt : Nat, text : Nat, data : BOOLEAN]
  BY <1>1
<1>3. out' = <<>> /\ \A x : ~Has(out', x)
  BY <1>0, HeadAlone DEF Has
<1>4. NoPos(in')
  <2>1. Answer(Head(out), 451) /\ 451 \in Code
    BY DEF ServerRefuses, Code
  <2> QED
    BY <1>0, <2>1, WireAnswers
<1>5. Named'
  BY <1>0, <1>2, <1>3, <1>4 DEF Book, Named
<1>6. Written'
  BY <1>0, <1>2, <1>3 DEF Book, Written
<1>7. Taken'
  BY <1>0, <1>3, <1>4 DEF Book, Taken
<1>8. ServerOK'
  BY <1>0, <1>2 DEF TypeOK, ServerOK
<1> QED
  BY <1>5, <1>6, <1>7, <1>8 DEF Book

LEMMA BookReads == TypeOK /\ Wire /\ Book /\ ServerReads => Book' /\ ServerOK'
<1> SUFFICES ASSUME TypeOK, Wire, Book, ServerReads PROVE Book' /\ ServerOK'
  OBVIOUS
<1>0. /\ out \in Seq(Command) /\ out # <<>> /\ Head(out) = "TEXT" /\ out' = Tail(out) /\ "TEXT" \in Command
      /\ UNCHANGED <<call, state, code, rcpt, piece, result, failedIn, line, accepted>>
  BY DEF TypeOK, WiresOK, ServerReads, client, Command
<1>1. Has(out, "TEXT") /\ Len(out') = Len(out) - 1 /\ Len(out) \in Nat /\ \A x : Has(out', x) => Has(out, x)
  BY <1>0, HeadTail DEF Has
<1>2. srv \in [rcpt : Nat, text : Nat, data : BOOLEAN] /\ piece \in Nat /\ piece # 0
  BY <1>1 DEF TypeOK, ServerOK, SizesOK, Book, Written
<1>3. /\ srv'.rcpt = srv.rcpt /\ srv' \in [rcpt : Nat, text : Nat, data : BOOLEAN]
      /\ srv'.data => srv.data /\ srv'.text = srv.text + 1
  <2>1. CASE srv' = [srv EXCEPT !.text = IF srv.data THEN srv.text + 1 ELSE srv.text]
    <3>1. CASE srv.data
      <4>1. srv' = [srv EXCEPT !.text = srv.text + 1]
        BY <2>1, <3>1
      <4> QED
        BY <1>2, <3>1, <4>1
    <3>2. CASE ~srv.data
      <4>1. srv' = [srv EXCEPT !.text = srv.text]
        BY <2>1, <3>2
      <4> QED
        BY <1>2, <3>2, <4>1
    <3> QED
      BY <3>1, <3>2
  <2>2. CASE srv' = [srv EXCEPT !.data = FALSE]
    BY <1>2, <2>2
  <2> QED
    BY <2>1, <2>2 DEF ServerReads
<1>4. NoPos(in')
  <2>1. NoPos(in) /\ 451 \in Code
    BY <1>0 DEF Wire, Code
  <2>2. CASE Answer("TEXT", 451)
    BY <1>0, <2>1, <2>2, WireAnswers
  <2>3. CASE UNCHANGED <<in, tears>>
    BY <2>1, <2>3
  <2> QED
    BY <2>2, <2>3 DEF ServerReads
<1>5. Named'
  BY <1>0, <1>1, <1>3, <1>4 DEF Book, Named
<1>6. Written'
  <2>1. line' = "up" /\ state' = "body" /\ srv'.data => srv'.text + Len(out') = piece'
    <3> SUFFICES ASSUME line = "up", state = "body", srv'.data PROVE srv'.text + Len(out') = piece
      BY <1>0
    <3>1. srv.text + Len(out) = piece
      BY <1>3 DEF Book, Written
    <3> QED
      BY <1>1, <1>2, <1>3, <3>1
  <2>2. Has(out', "DOT") /\ srv'.data => srv'.text + Len(out') - 1 = Pieces
    <3> SUFFICES ASSUME Has(out', "DOT"), srv'.data PROVE srv'.text + Len(out') - 1 = Pieces
      OBVIOUS
    <3>1. srv.text + Len(out) - 1 = Pieces
      BY <1>1, <1>3 DEF Book, Written
    <3> QED
      BY <1>1, <1>2, <1>3, <3>1
  <2> QED
    BY <1>0, <1>2, <2>1, <2>2 DEF Book, Written
<1>7. Taken'
  BY <1>0, <1>1, <1>4 DEF Book, Taken
<1>8. ServerOK'
  BY <1>0, <1>3 DEF TypeOK, ServerOK
<1> QED
  BY <1>5, <1>6, <1>7, <1>8 DEF Book

LEMMA BookCut == TypeOK /\ Wire /\ Book /\ Cut => Book' /\ WiresOK'
<1> SUFFICES ASSUME TypeOK, Wire, Book, Cut PROVE Book' /\ WiresOK'
  OBVIOUS
<1>1. /\ UNCHANGED <<call, state, rcpt, piece, result, failedIn, srv, accepted>> /\ line' = "cut"
      /\ out' \in {out, <<>>} /\ out \in Seq(Command)
  BY DEF Cut, client, server, TypeOK, WiresOK
<1>2. ~NoPos(in') => ~NoPos(in)
  <2> DEFINE bye == [to |-> "HELLO", code |-> 451, last |-> TRUE]
  <2>1. bye \in Item /\ ~Pos(bye)
    BY DEF Item, Line, Command, Code, Pos
  <2>2. in' \in {in, <<>>, Append(in, bye)} /\ in \in Seq(Item)
    BY TailItems DEF Cut, TypeOK
  <2> HIDE DEF bye
  <2>3. CASE in' = Append(in, bye)
    BY <2>1, <2>2, <2>3, Appended DEF NoPos
  <2>4. CASE in' \in {in, <<>>}
    BY <2>4 DEF NoPos
  <2> QED
    BY <2>2, <2>3, <2>4
<1>3. \A x : Has(out', x) => out' = out
  BY <1>1 DEF Has
<1>4. Named' /\ Taken'
  BY <1>1, <1>2, <1>3 DEF Book, Named, Taken
<1>5. Written'
  BY <1>1, <1>3 DEF Book, Written
<1>6. WiresOK'
  <2>1. in' \in Seq(Item)
    BY WireCut
  <2>2. out' \in Seq(Command)
    <3>1. <<>> \in Seq(Command)
      OBVIOUS
    <3> QED
      BY <1>1, <3>1
  <2> QED
    BY <1>1, <2>1, <2>2 DEF WiresOK, Item
<1> QED
  BY <1>4, <1>5, <1>6 DEF Book

------------------------------------------------------------------------------
(* The theorems *)

LEMMA InvInit == Init => SmtpInv
<1> SUFFICES ASSUME Init PROVE SmtpInv
  OBVIOUS
<1>1. ClientOK
  BY DEF Init, ClientOK, State
<1>2. SizesOK
  BY SizeAssumption DEF Init, SizesOK
<1>3. WiresOK
  BY DEF Init, WiresOK
<1>4. ServerOK
  <2>1. srv \in [rcpt : Nat, text : Nat, data : BOOLEAN]
    <3>1. 0 \in Nat /\ FALSE \in BOOLEAN
      OBVIOUS
    <3> QED
      BY <3>1 DEF Init
  <2> QED
    BY <2>1 DEF Init, ServerOK
<1>5. NoPos(in) /\ OnePos(in) /\ \A x : ~Has(out, x)
  BY DEF Init, NoPos, OnePos, Has
<1>6. Wire
  <2>1. \A k \in DOMAIN in : Pos(in[k]) => InStep(in[k], state)
    BY <1>5 DEF NoPos
  <2>2. DOMAIN out = {}
    BY DEF Init
  <2> QED
    BY <1>5, <2>1, <2>2 DEF Init, Wire
<1>7. Book
  BY <1>5 DEF Init, Book, Named, Written, Taken
<1> QED
  BY <1>1, <1>2, <1>3, <1>4, <1>6, <1>7 DEF SmtpInv, TypeOK

\* A round of awaitLoop.
LEMMA InvClient == SmtpInv /\ awaitLoop => SmtpInv'
<1> SUFFICES ASSUME SmtpInv, awaitLoop PROVE SmtpInv'
  OBVIOUS
<1> USE DEF SmtpInv
<1>1. Wire'
  BY WireConnect, WireAuth, WireSend, WireHandle DEF awaitLoop
<1>2. ClientOK' /\ WiresOK'
  BY TypeConnect, TypeSend, TypeHandle DEF awaitLoop
<1>3. ServerOK'
  BY DEF TypeOK, ServerOK, awaitLoop, connectImpl, sendGreeting, Greeted, tlsHandshake, GreetAgain, auth, authLogin,
         Authenticated, send, sendRecipient, startData, sendBodyData, terminateData, Sent, handleRefusal, readOn,
         readTimeout, server
<1>4. SizesOK'
  <2>1. tears' = tears
    BY DEF awaitLoop, connectImpl, sendGreeting, Greeted, tlsHandshake, GreetAgain, auth, authLogin,
         Authenticated, send, sendRecipient, startData, sendBodyData, terminateData, Sent, handleRefusal, readOn,
         readTimeout
  <2>2. caps' \subseteq Cap
    BY DEF TypeOK, SizesOK, awaitLoop, connectImpl, sendGreeting, Greeted, tlsHandshake, GreetAgain, auth, authLogin,
         Authenticated, send, sendRecipient, startData, sendBodyData, terminateData, Sent, handleRefusal, readOn,
         readTimeout
  <2>3. rcpt' \in 0 .. Recipients
    <3>1. CASE sendRecipient
      BY <3>1, BookRecipient
    <3>2. CASE ~sendRecipient
      <4>1. rcpt' = rcpt
        BY <3>2 DEF awaitLoop, connectImpl, sendGreeting, Greeted, tlsHandshake, GreetAgain, auth, authLogin,
         Authenticated, send, startData, sendBodyData, terminateData, Sent, handleRefusal, readOn, readTimeout
      <4> QED
        BY <4>1 DEF TypeOK, SizesOK
    <3> QED
      BY <3>1, <3>2
  <2>4. piece' \in 0 .. Pieces
    <3>1. CASE sendBodyData
      BY <3>1, BookText
    <3>2. CASE ~sendBodyData
      <4>1. piece' = piece
        BY <3>2 DEF awaitLoop, connectImpl, sendGreeting, Greeted, tlsHandshake, GreetAgain, auth, authLogin,
         Authenticated, send, sendRecipient, startData, terminateData, Sent, handleRefusal, readOn, readTimeout
      <4> QED
        BY <4>1 DEF TypeOK, SizesOK
    <3> QED
      BY <3>1, <3>2
  <2> QED
    BY <2>1, <2>2, <2>3, <2>4 DEF TypeOK, SizesOK
<1>5. Book'
  BY BookConnect, BookAuth, BookRecipient, BookData, BookText, BookEnd, BookSent, BookHandle DEF awaitLoop
<1> QED
  BY <1>1, <1>2, <1>3, <1>4, <1>5 DEF TypeOK

LEMMA InvServer == SmtpInv /\ (ServerAccepts \/ ServerRefuses \/ ServerReads) => SmtpInv'
<1> SUFFICES ASSUME SmtpInv, ServerAccepts \/ ServerRefuses \/ ServerReads PROVE SmtpInv'
  OBVIOUS
<1> USE DEF SmtpInv
<1>1. Wire' /\ in' \in Seq(Item) /\ tears' \in 0 .. MaxTear
  BY WireServer
<1>2. Book' /\ ServerOK'
  BY BookAccepts, BookRefuses, BookReads
<1>3. UNCHANGED <<client, line>> /\ out # <<>> /\ out' = Tail(out)
  BY DEF ServerAccepts, ServerRefuses, ServerReads
<1>4. ClientOK'
  BY <1>3 DEF TypeOK, ClientOK, client, flags
<1>5. SizesOK'
  BY <1>1, <1>3 DEF TypeOK, SizesOK, client
<1>6. WiresOK'
  BY <1>1, <1>3, HeadTail DEF TypeOK, WiresOK, Item
<1> QED
  BY <1>1, <1>2, <1>4, <1>5, <1>6 DEF TypeOK

LEMMA InvCut == SmtpInv /\ Cut => SmtpInv'
<1> SUFFICES ASSUME SmtpInv, Cut PROVE SmtpInv'
  OBVIOUS
<1> USE DEF SmtpInv
<1>1. Wire' /\ Book' /\ WiresOK'
  BY WireCut, BookCut
<1>2. UNCHANGED <<client, server, tears>>
  BY DEF Cut
<1>3. ClientOK'
  BY <1>2 DEF TypeOK, ClientOK, client, flags
<1>4. SizesOK' /\ ServerOK'
  BY <1>2 DEF TypeOK, SizesOK, ServerOK, client, server
<1> QED
  BY <1>1, <1>3, <1>4 DEF TypeOK

LEMMA InvStutter == SmtpInv /\ UNCHANGED vars => SmtpInv'
<1> SUFFICES ASSUME SmtpInv, UNCHANGED vars PROVE SmtpInv'
  OBVIOUS
<1> USE DEF SmtpInv, vars, client, wires, server, flags
<1>1. ClientOK' /\ SizesOK' /\ WiresOK' /\ ServerOK'
  BY DEF TypeOK, ClientOK, SizesOK, WiresOK, ServerOK
<1>2. Wire'
  BY DEF Wire, NoPos, OnePos
<1>3. Book'
  BY DEF Book, Named, Written, Taken, Has, NoPos
<1> QED
  BY <1>1, <1>2, <1>3 DEF TypeOK

THEOREM SmtpInvariant == Spec => []SmtpInv
<1>1. SmtpInv /\ [Next]_vars => SmtpInv'
  BY InvClient, InvServer, InvCut, InvStutter DEF Next
<1> QED
  BY InvInit, <1>1, PTL DEF Spec

\* Every variable of a session keeps its type: never more recipients than the
\* mail has, never more pieces than its text.
THEOREM TypeCorrect == Spec => []TypeOK
<1>1. SmtpInv => TypeOK
  BY DEF SmtpInv
<1> QED
  BY <1>1, SmtpInvariant, PTL

\* The client takes no answer for that to another command, whatever the
\* server, broken connections and torn replies do.
THEOREM InStepAlways == Spec => []RepliesInStep
<1>1. SmtpInv => RepliesInStep
  BY DEF SmtpInv, Wire, Pos, InStep, RepliesInStep
<1> QED
  BY <1>1, SmtpInvariant, PTL

\* A mail reported as sent was accepted once, with all its recipients and text.
THEOREM SentIsAccepted == Spec => []SentMeansAccepted
<1>1. SmtpInv => SentMeansAccepted
  BY DEF SmtpInv, Book, Taken, Whole, SentMeansAccepted
<1> QED
  BY <1>1, SmtpInvariant, PTL

\* A mail that failed before its text was terminated is not with the server.
THEOREM FailureSafe == Spec => []FailureIsSafe
<1>1. SmtpInv => FailureIsSafe
  <2> SUFFICES ASSUME SmtpInv PROVE FailureIsSafe
    OBVIOUS
  <2>1. Len(accepted) <= 1
    <3>1. Len(Whole) = 1 /\ Len(<<>>) = 0
      BY DEF Whole
    <3>2. accepted = <<>> \/ accepted = Whole
      BY DEF SmtpInv, Book, Taken
    <3>3. Len(accepted) = 0 \/ Len(accepted) = 1
      BY <3>1, <3>2, Zenon
    <3>4. \A n : n = 0 \/ n = 1 => n <= 1
      OBVIOUS
    <3> QED
      BY <3>3, <3>4, Zenon
  <2>2. "DOT" \in {out[k] : k \in DOMAIN out} => Has(out, "DOT")
    BY DEF Has
  <2> QED
    BY <2>1, <2>2 DEF SmtpInv, Book, Taken, FailureIsSafe
<1> QED
  BY <1>1, SmtpInvariant, PTL

==============================================================================
