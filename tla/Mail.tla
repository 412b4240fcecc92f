--------------------------------- MODULE Mail ---------------------------------
(***************************************************************************)
(* Sending one mail (src/mail.cc): a chain of steps, each a command to the *)
(* SMTP server and one line of its answer, then the message, which the     *)
(* application writes into a MailPkg and which goes out when the last      *)
(* pointer to that is dropped.  The chain hangs on the connection's two    *)
(* queues (module SerialQueue) and on asyncConnect (module Connector).     *)
(*                                                                         *)
(* The server may refuse anything, close at any moment, give an answer two *)
(* lines, and its bytes may arrive in any pieces.  What the code throws    *)
(* when a step fails leaves io_service::run() through the completion       *)
(* handler, so that the operation is never popped from its queue.          *)
(***************************************************************************)
EXTENDS Integers, Sequences, SequencesExt, Base64

CONSTANTS
  Accounts,  (* what is given to the constructor and to pass()              *)
  MaxLines,  (* bound: lines of body the application writes                 *)
  MaxFlushes,(* bound: flushes of the package                               *)
  MaxExtra   (* bound: answers of two lines                                 *)

ASSUME MailAssumption ==
  /\ \A a \in Accounts : a.username \in Seq(0..255) /\ a.password \in Seq(0..255)
  /\ MaxLines \in Nat /\ MaxFlushes \in Nat /\ MaxExtra \in Nat

VARIABLES
  account,  (* username_ and password_                                      *)
  at,       (* the step the chain is at                                     *)
  reading,  (* asyncReadUntil of the step is on the read queue              *)
  results,  (* history: what the result handler was called with             *)
  threw,    (* CHECK threw: a queue keeps its front, and the connection     *)
  out,      (* the write queue                                              *)
  buf,      (* the read buffer                                              *)
  astray,   (* history: a step went on although no line began with its code *)
  pkg,      (* who has the MailPkg: "none" yet, "app", "gone"               *)
  body,     (* its lines not sent yet                                       *)
  started,  (* its send_started_                                            *)
  written,  (* history: the lines the application wrote                     *)
  flushes,  (* bound                                                        *)
  toServer, (* what was sent and the server has not read                    *)
  toClient, (* what the server sent and the client has not read             *)
  server,   (* "absent", "greeting", "commands", "data" or "closed"         *)
  granted,  (* the commands the server accepted                             *)
  login,    (* history: what it got as user name and password               *)
  mail,     (* the message it is receiving                                  *)
  accepted, (* history: the messages it answered 250                        *)
  grumbled, (* history: it refused something                                *)
  extra     (* bound                                                        *)

client == <<at, reading, results, threw, out, buf, astray>>
package == <<pkg, body, started, written, flushes>>
peer == <<server, granted, login, mail, accepted, grumbled, extra>>
vars == <<account, client, package, toServer, toClient, peer>>

Init ==
  /\ account \in Accounts
  /\ at = "connect" /\ reading = FALSE /\ results = <<>> /\ threw = FALSE
  /\ out = <<>> /\ buf = <<>> /\ astray = FALSE
  /\ pkg = "none" /\ body = <<>> /\ started = FALSE /\ written = <<>> /\ flushes = 0
  /\ toServer = <<>> /\ toClient = <<>>
  /\ server = "absent" /\ granted = {} /\ login = <<>>
  /\ mail = <<>> /\ accepted = <<>> /\ grumbled = FALSE /\ extra = 0

-----------------------------------------------------------------------------
(* The dialogue: what each step says, the code it expects, the step after it.*)
Steps == {"HELO", "AUTH", "USER", "PASS", "MAIL", "RCPT", "DATA", "END"}

Expected ==
  [s \in Steps \cup {"greeting"} |->
     CASE s = "greeting" -> 220
       [] s \in {"AUTH", "USER"} -> 334
       [] s = "PASS" -> 235
       [] s = "DATA" -> 354
       [] OTHER -> 250]

StepAfter(s) ==
  CASE s = "greeting" -> "HELO"
    [] s = "HELO" -> IF account.password # <<>> THEN "AUTH" ELSE "MAIL"
    [] s = "AUTH" -> "USER" [] s = "USER" -> "PASS" [] s = "PASS" -> "MAIL"
    [] s = "MAIL" -> "RCPT" [] s = "RCPT" -> "DATA" [] s = "DATA" -> "END"

EndOfLine == 10 (* in what the server sends, with the codes; no code is 10   *)

Item(s, text) == [say |-> s, text |-> text]
Line(s) == Item(s, <<>>)

(* username_.substr(0, username_.find('@')), which is all of it without "@".*)
User(name) ==
  LET ats == {i \in 1..Len(name) : name[i] = 64} IN
  IF ats = {} THEN name ELSE SubSeq(name, 1, (CHOOSE i \in ats : \A k \in ats : i <= k) - 1)

(* The string of a step; that of the last one, "", has nothing in it.        *)
Message(s) ==
  CASE s = "USER" -> <<Item(s, Encode(User(account.username)))>>
    [] s = "PASS" -> <<Item(s, Encode(account.password))>>
    [] s = "END" -> <<>>
    [] OTHER -> <<Line(s)>>

AsyncWrite(q, string, isStep) == Append(q, [string |-> string, step |-> isStep])

(* Goes on with step s.                                                      *)
Step(s) ==
  /\ at' = s
  /\ out' = AsyncWrite(out, Message(s), TRUE)
  /\ UNCHANGED <<results, threw>>

(* A step that failed calls its handler with false, and so the user's; all   *)
(* but the last then throw.                                                  *)
Fail ==
  /\ results' = Append(results, FALSE)
  /\ threw' = (at # "END")
  /\ at' = "over"
  /\ UNCHANGED out

-----------------------------------------------------------------------------
(* asyncConnect.  Without a connection CHECK throws, but no queue is held.   *)
NotConnected ==
  /\ at = "connect" /\ at' = "over"
  /\ results' = Append(results, FALSE)
  /\ UNCHANGED <<account, reading, threw, out, buf, astray, package, toServer, toClient, peer>>

Connected ==
  /\ at = "connect" /\ at' = "greeting" /\ reading' = TRUE
  /\ server' = "greeting"
  /\ UNCHANGED <<account, results, threw, out, buf, astray, package, toServer, toClient,
                 granted, login, mail, accepted, grumbled, extra>>

(* asio completes the write at the front: a step then reads its answer.      *)
Written ==
  /\ out # <<>>
  /\ toServer' = IF server = "closed" THEN toServer ELSE toServer \o Head(out).string
  /\ out' = Tail(out)
  /\ reading' = (reading \/ Head(out).step)
  /\ UNCHANGED <<account, at, results, threw, buf, astray, package, toClient, peer>>

(* The write fails.  The entry of a step that throws stays in the queue.     *)
WriteFails ==
  /\ out # <<>> /\ server = "closed"
  /\ IF Head(out).step
       THEN results' = Append(results, FALSE) /\ threw' = (at # "END") /\ at' = "over"
       ELSE UNCHANGED <<results, threw, at>>
  /\ out' = Tail(out)
  /\ UNCHANGED <<account, reading, buf, astray, package, toServer, toClient, peer>>

HasLine(b) == Contains(b, EndOfLine)

Receive ==
  /\ reading /\ ~HasLine(buf) /\ toClient # <<>>
  /\ \E n \in 1..Len(toClient) :
       /\ buf' = buf \o SubSeq(toClient, 1, n)
       /\ toClient' = SubSeq(toClient, n + 1, Len(toClient))
  /\ UNCHANGED <<account, at, reading, results, threw, out, astray, package, toServer, peer>>

(* An error before the line is there.  For the greeting the code returns     *)
(* after it has told the application.                                        *)
ReadFails ==
  /\ reading /\ ~HasLine(buf) /\ server = "closed"
  /\ reading' = FALSE
  /\ results' = Append(results, FALSE)
  /\ threw' = (at \notin {"greeting", "END"})
  /\ at' = "over"
  /\ UNCHANGED <<account, out, buf, astray, package, toServer, toClient, peer>>

(* check_response_code: `ss >> code` skips white space and takes the number  *)
(* that follows.  A buffer that begins with the rest of a line gives 0 if    *)
(* that is text, the code of the next line if it is only the line's end.     *)
CodesRead ==
  IF Head(buf) # EndOfLine THEN {Head(buf)}
  ELSE {0} \cup {buf[i] : i \in DOMAIN buf \cap {2}}

(* The test of the code.  (First a slip: outside of the login any code that  *)
(* is no refusal is taken.)                                                  *)
AnyGoodCode(code) ==
  IF at \in {"AUTH", "USER", "PASS"} THEN code = Expected[at] ELSE code \in 200..399
IsExpected(code) == code = Expected[at]

(* The rest of a line may also begin with the very number; and when it is all*)
(* there is and only white space, `code` is never written: it has any value, *)
(* the expected one among them.                                              *)
CodeIsAccident == Head(buf) = EndOfLine

(* The handler of a step with true.  A good answer to DATA calls the         *)
(* application with the package first (module part below).                   *)
GoesOn ==
  \/ /\ at = "END" /\ at' = "over" /\ results' = Append(results, TRUE)
     /\ UNCHANGED <<threw, out, pkg>>
  \/ at = "DATA" /\ at' = "compose" /\ pkg' = "app" /\ UNCHANGED <<results, threw, out>>
  \/ at \notin {"DATA", "END"} /\ Step(StepAfter(at)) /\ UNCHANGED pkg

(* The line is there: the step's handler runs, and the chain goes on or not; *)
(* everything in the buffer is gone.  (For the greeting the line is read     *)
(* twice, the first time without a look at it; the second read finds it in   *)
(* the buffer.)                                                              *)
Answered ==
  /\ reading /\ HasLine(buf)
  /\ reading' = FALSE /\ buf' = <<>>
  /\ \/ (\E code \in CodesRead : IsExpected(code)) /\ GoesOn /\ UNCHANGED astray
     \/ (\E code \in CodesRead : ~IsExpected(code)) /\ Fail /\ UNCHANGED <<pkg, astray>>
     \/ CodeIsAccident /\ GoesOn /\ astray' = TRUE
  /\ UNCHANGED <<account, body, started, written, flushes, toServer, toClient, peer>>

(* send_handler returned: the last step starts, with a write of nothing.     *)
Composed ==
  /\ at = "compose" /\ Step("END")
  /\ UNCHANGED <<account, reading, buf, astray, package, toServer, toClient, peer>>

-----------------------------------------------------------------------------
(* The application and its package.                                          *)
WriteLine(l) ==
  /\ pkg = "app" /\ Len(written) < MaxLines
  /\ body' = Append(body, Line(l)) /\ written' = Append(written, Line(l))
  /\ UNCHANGED <<account, client, pkg, started, flushes, toServer, toClient, peer>>

(* flushPackage of a message that is not chunked (module Package): the head  *)
(* with the first string, then the lines as they are.                        *)
Piece == (IF started THEN <<>> ELSE <<Line("head")>>) \o body

Flush ==
  /\ pkg = "app" /\ flushes < MaxFlushes /\ flushes' = flushes + 1
  /\ out' = AsyncWrite(out, Piece, FALSE)
  /\ body' = <<>> /\ started' = TRUE
  /\ UNCHANGED <<account, at, reading, results, threw, buf, astray, pkg, written, toServer,
                 toClient, peer>>

(* ~MailPkg, after send_handler returned.  (First a slip: a message without  *)
(* anything left to flush is not ended.)                                     *)
DropUnended ==
  /\ pkg = "app" /\ at # "compose"
  /\ out' = IF started /\ body = <<>> THEN out
            ELSE AsyncWrite(AsyncWrite(out, Piece, FALSE), <<Line("end")>>, FALSE)
  /\ pkg' = "gone" /\ body' = <<>> /\ started' = TRUE
  /\ UNCHANGED <<account, at, reading, results, threw, buf, astray, written, flushes, toServer,
                 toClient, peer>>

Drop ==
  /\ pkg = "app" /\ at # "compose"
  /\ out' = AsyncWrite(AsyncWrite(out, Piece, FALSE), <<Line("end")>>, FALSE)
  /\ pkg' = "gone" /\ body' = <<>> /\ started' = TRUE
  /\ UNCHANGED <<account, at, reading, results, threw, buf, astray, written, flushes, toServer,
                 toClient, peer>>

-----------------------------------------------------------------------------
(* The server (not this code): it grants what the protocol allows at that    *)
(* point or refuses, in one line or two.                                     *)
Answer(good) ==
  LET line == <<good, EndOfLine>> IN
  \/ toClient' = toClient \o line /\ UNCHANGED extra
  \/ extra < MaxExtra /\ extra' = extra + 1 /\ toClient' = toClient \o line \o line

Refusal == 550

Needs ==
  [s \in Steps \ {"END"} |->
     CASE s = "USER" -> {"AUTH"} [] s = "PASS" -> {"USER"}
       [] s = "RCPT" -> {"MAIL"} [] s = "DATA" -> {"RCPT"} [] OTHER -> {}]

Greet ==
  /\ server = "greeting" /\ server' = "commands"
  /\ \/ Answer(220) /\ UNCHANGED grumbled
     \/ Answer(Refusal) /\ grumbled' = TRUE
  /\ UNCHANGED <<account, client, package, toServer, granted, login, mail, accepted>>

(* A command; a line of a message that it does not expect is an unknown one. *)
Command ==
  /\ server = "commands" /\ toServer # <<>>
  /\ LET c == Head(toServer) IN
       \/ /\ c.say \in Steps \ {"END"} /\ Needs[c.say] \subseteq granted
          /\ Answer(Expected[c.say])
          /\ granted' = granted \cup {c.say}
          /\ server' = IF c.say = "DATA" THEN "data" ELSE server
          /\ UNCHANGED grumbled
       \/ /\ Answer(Refusal)
          /\ grumbled' = TRUE
          /\ UNCHANGED <<granted, server>>
  /\ login' = IF Head(toServer).say \in {"USER", "PASS"}
                THEN Append(login, Head(toServer).text) ELSE login
  /\ toServer' = Tail(toServer)
  /\ UNCHANGED <<account, client, package, mail, accepted>>

(* The message, up to a line with a dot, the application's own or the last.  *)
Data ==
  /\ server = "data" /\ toServer # <<>>
  /\ toServer' = Tail(toServer)
  /\ IF Head(toServer).say \notin {"dot", "end"}
       THEN /\ mail' = Append(mail, Head(toServer))
            /\ UNCHANGED <<server, accepted, grumbled, toClient, extra>>
       ELSE /\ server' = "commands" /\ mail' = <<>>
            /\ \/ Answer(250) /\ accepted' = Append(accepted, mail) /\ UNCHANGED grumbled
               \/ Answer(Refusal) /\ grumbled' = TRUE /\ UNCHANGED accepted
  /\ UNCHANGED <<account, client, package, granted, login>>

Close ==
  /\ server \notin {"absent", "closed"} /\ server' = "closed" /\ toServer' = <<>>
  /\ UNCHANGED <<account, client, package, toClient, granted, login, mail, accepted, grumbled, extra>>

Serve == Greet \/ Command \/ Data

Chain ==
  NotConnected \/ Connected \/ Written \/ WriteFails \/ Receive \/ ReadFails
    \/ Answered \/ Composed

Next ==
  \/ Chain \/ Serve \/ Close
  \/ \E l \in {"text", "dot"} : WriteLine(l)
  \/ Flush \/ Drop

Spec == Init /\ [][Next]_vars

(* asio completes what can be completed and the handlers run, the            *)
(* application lets go of its package, the server reads and answers.         *)
FairSpec == Spec /\ WF_vars(Chain) /\ WF_vars(Drop) /\ WF_vars(Serve)

-----------------------------------------------------------------------------
(* The variables take values of their types; one step is under way at most,  *)
(* and it reads once its string is written.                                  *)
TypeOK ==
  /\ account \in Accounts
  /\ at \in Steps \cup {"connect", "greeting", "compose", "over"}
  /\ \A i \in 1..Len(results) : results[i] \in BOOLEAN
  /\ pkg \in {"none", "app", "gone"}
  /\ server \in {"absent", "greeting", "commands", "data", "closed"}
  /\ granted \subseteq Steps /\ extra \in 0..MaxExtra
  /\ \A i \in 1..Len(out) : out[i].step =>
       at \in Steps /\ ~reading /\ \A k \in 1..Len(out) : out[k].step => k = i
  /\ reading => at \in Steps \cup {"greeting"}

(* The application is told once, however the answers were cut into lines and *)
(* pieces; and unless a code was accepted by accident: with true only if the *)
(* server accepted the message, whole and after its end unless a line of it  *)
(* was a dot; with false only if the server refused or closed, there was no  *)
(* connection, or an answer had two lines (inc/mail.hh:69).  Nothing of the  *)
(* message leaves before the server accepted DATA, although the second line  *)
(* of an answer is taken for the answer to the next command (mail.cc:22).    *)
(* (With the types.)                                                         *)
ToldOnceAndTruly ==
  /\ TypeOK
  /\ Len(results) <= 1
  /\ ~astray =>
       /\ pkg # "none" => "DATA" \in granted
       /\ results = <<TRUE>> =>
            /\ accepted # <<>>
            /\ Line("dot") \notin ToSet(written) =>
                 pkg = "gone" /\ accepted = <<<<Line("head")>> \o written>>
       /\ results = <<FALSE>> =>
            grumbled \/ server \in {"absent", "closed"} \/ extra > 0

(* Reference: four letters, with padding for 0, and three bytes are the same *)
(* number; the last group has as many pads as it has bytes too few.          *)
Digit(c) == IF c = Pad THEN 0 ELSE Find(c)
Encodes(code, bytes) ==
  /\ Len(code) % 4 = 0
  /\ \E pads \in 0..2 :
       /\ Len(bytes) + pads = 3 * (Len(code) \div 4)
       /\ \A i \in 1..Len(code) : code[i] = Pad <=> i > Len(code) - pads
  /\ \A g \in 0..(Len(code) \div 4) - 1 :
       LET d(i) == Digit(code[4 * g + i])  b(i) == At(bytes, 3 * g + i) IN
       ((d(1) * 64 + d(2)) * 64 + d(3)) * 64 + d(4) = (b(1) * 256 + b(2)) * 256 + b(3)

(* The server is sent the user name up to "@" and the password, once it      *)
(* accepted AUTH (and no code was accepted by accident): the bytes as Base64 *)
(* defines them, which Base64::decode reads back (mail.cc:245, 261).  (A     *)
(* password may leave although the name was refused: AUTH and USER are       *)
(* answered alike, and one in two lines.)                                    *)
CredentialsArrive ==
  ~astray => \A i \in 1..Len(login) : "AUTH" \in granted /\
    LET given == IF i = 1 THEN User(account.username) ELSE account.password IN
    Encodes(login[i], given) /\ Decode(login[i]) = given

(* A send ends: the application is told, and once it is done with the package*)
(* the connection is released, unless a step before the message failed, whose*)
(* exception leaves it in its own queue for ever (mail.cc:108).              *)
Released == at = "over" /\ out = <<>> /\ ~reading /\ pkg # "app" /\ ~threw
EverySendEnds ==
  at = "connect" ~> results # <<>> /\ (Released \/ (threw /\ pkg = "none"))
=============================================================================
