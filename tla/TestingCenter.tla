---------------------------- MODULE TestingCenter ----------------------------
(***************************************************************************)
(* TestingCenter::run() on a TCPConsole: sessions one after the other,     *)
(* their lines and actions.  The stop flag is looked at between lines and  *)
(* between sessions, never while the thread waits for a connection or for  *)
(* the user.  A line stands for what it says; a line that ends with the    *)
(* skipEol character is joined with the next one.                          *)
(***************************************************************************)
EXTENDS Naturals

CONSTANT MaxAnswers  \* bound: answers in the queue

VARIABLES tc,        \* where run() is
          line,      \* what readLine() has joined so far
          answers    \* answers of m_queue; it is shared by all sessions

testingVars == <<tc, line, answers>>

TestingInit == tc = "off" /\ line = "" /\ answers = 0

Words == {"", "blank", "help", "exit", "unknown", "echo", "command", "wait-queue"}

(* Spaces at the end are trimmed, so only a joined line starts with some;  *)
(* then it is not "help" or "exit" any more, and no action has that name.  *)
JoinLine(first, second) ==
  CASE first = "" -> second
    [] second = "" -> first
    [] first = "blank" /\ second \in {"help", "exit"} -> "unknown"
    [] first = "blank" -> second
    [] OTHER -> "unknown"

Blocked == tc \in {"accept", "read", "wait"}

Go(to) == tc' = to /\ UNCHANGED <<line, answers>>

RunStarts == tc = "off" /\ Go("head")

(* The outer loop opens a session: openSession() waits for a connection.   *)
OpenSession(stop) == tc = "head" /\ ~stop /\ Go("accept")
RunLeaves(stop) == tc = "head" /\ stop /\ Go("ended")

Accepted == tc = "accept" /\ Go("line")

(* The inner loop. *)
ReadLine(stop) == tc = "line" /\ ~stop /\ tc' = "read" /\ line' = "" /\ UNCHANGED answers
SessionStopped(stop) == tc = "line" /\ stop /\ Go("head")
SessionEof == tc = "read" /\ Go("head")

(* A piece that ends with skipEol; a trimmed piece is not blank, but what  *)
(* is in front of the character may be.                                    *)
ReadPiece(word) ==
  /\ tc = "read" /\ line' = JoinLine(line, word)
  /\ UNCHANGED <<tc, answers>>

ReadLast(word) ==
  /\ tc = "read" /\ word # "blank"
  /\ line' = JoinLine(line, word) /\ tc' = "process"
  /\ UNCHANGED answers

(* "help", nothing, and what no action is named after: the next line. *)
NoAction == tc = "process" /\ line \in {"", "help", "unknown"} /\ Go("line")
EchoAction == tc = "process" /\ line = "echo" /\ Go("line")
Exit == tc = "process" /\ line = "exit" /\ Go("head")

(* A line of blanks has no first token: the session is closed. *)
BlankLine == tc = "process" /\ line = "blank" /\ Go("head")

(* Where an action leads to: what Poco's exceptions say is printed, any    *)
(* other exception closes the session.                                     *)
AfterAction == {"line", "head"}

(* commandAction(): an answer that is pending stays in the queue; so does  *)
(* the one of a command dispatch() has thrown at, whatever becomes of the  *)
(* session.  With wrong arguments there is none.                           *)
CommandAction ==
  /\ tc = "process" /\ line = "command"
  /\ tc' \in AfterAction
  /\ answers' \in IF answers < MaxAnswers THEN {answers, answers + 1} ELSE {answers}
  /\ UNCHANGED line

(* waitQueueAction(): settled answers are removed; a negative timeout      *)
(* waits for one, else the wait ends by itself.                            *)
WaitQueue ==
  /\ tc = "process" /\ line = "wait-queue"
  /\ \/ tc' = "line" /\ answers' \in 0..answers
     \/ tc' = "wait" /\ UNCHANGED answers
  /\ UNCHANGED line

AnswerSettled ==
  /\ tc = "wait" /\ tc' = "line"
  /\ answers' \in 0..answers /\ UNCHANGED line

(* The next session and the next line. *)
Thread(stop) ==
  \/ OpenSession(stop) \/ RunLeaves(stop) \/ ReadLine(stop) \/ SessionStopped(stop)
  \/ NoAction \/ EchoAction \/ Exit \/ BlankLine \/ CommandAction \/ WaitQueue

User ==
  \/ Accepted \/ SessionEof \/ AnswerSettled
  \/ \E word \in Words : ReadPiece(word) \/ ReadLast(word)
=============================================================================
