----------------------------- MODULE Conversation -----------------------------
(***************************************************************************)
(* The turns of a conversation: LocalBot.on_message and _send_scheduled    *)
(* (app.py) around Agent.handle, the table of storage/history.py, and the  *)
(* `clear` command.                                                        *)
(*                                                                         *)
(* handle() reads the user's history first and appends two rows at the     *)
(* end, each on a worker thread, and awaits each.  Nothing keeps a second  *)
(* turn of the same user, a scheduled prompt, or `clear` from running in   *)
(* between; the rate limiter only spaces out the beginnings of turns.      *)
(* What the model does with a turn is in AgentRequest; here it ends with   *)
(* a reply, with nothing worth keeping, or with an exception.              *)
(***************************************************************************)
EXTENDS Integers, Sequences

CONSTANTS
  Users,
  Turns,         \* identities of handle() calls
  MaxHistory,    \* max_history_messages
  Window,        \* rate_limit_seconds
  EvictFactor,   \* the limiter forgets a user after this many windows (10)
  MaxExits,      \* bound on the number of times the process ends
  NoUser

\* The environment's number is not validated: 0 keeps nothing, and an odd one
\* cuts an exchange in half.  (A negative one is no limit to SQLite.)
ASSUME MaxHistoryAssumption == MaxHistory \in Nat
ASSUME LimiterAssumption ==
  Window \in Nat /\ EvictFactor \in Nat \ {0}
ASSUME MaxExitsAssumption == MaxExits \in Nat
ASSUME NoUserAssumption == NoUser \notin Users

VARIABLES
  history,   \* table history: each user's rows, oldest first
  turn,      \* where each turn is, and whose it is
  backend,   \* "ready" once _backend_ready is set
  known,     \* the users in the limiter's table
  since,     \* time since a message of each user last began a turn
  uptime,    \* time.monotonic(), up to a window
  exits,     \* how often the process has ended
  \* History variables.
  seen,      \* the users recorded since the process started
  torn,      \* turns between their rows, another row or a `clear` in between
  dirty      \* how many of a user's oldest rows a disturbance may have touched

limiter == <<known, since, uptime>>
process == <<turn, backend, limiter, seen>>
table   == <<history, torn, dirty>>
vars    == <<process, table, exits>>

\* message, prompt: begun by the user or a job, the history not yet read.
Ats   == {"idle", "message", "prompt", "running", "asking", "answering", "sending"}
Roles == {"user", "assistant"}
Rows  == [turn : Turns, role : Roles]

\* Times beyond the limiter's memory are not told apart.
Horizon == Window * EvictFactor + 1

\* No sequence of turns, and no interleaving of them, outgrows the history.
TypeOK ==
  /\ history \in [Users -> Seq(Rows)]
  /\ \A u \in Users : Len(history[u]) <= MaxHistory
  /\ turn \in [Turns -> [at : Ats, user : Users \union {NoUser}]]
  /\ \A t \in Turns : turn[t].at = "idle" <=> turn[t].user = NoUser
  /\ backend \in {"starting", "ready", "failed"}
  /\ since \in [Users -> 0..Horizon]
  /\ uptime \in 0..Window
  /\ exits \in Nat
  /\ known \subseteq seen /\ seen \subseteq Users
  /\ \A t \in torn : t \in Turns /\ turn[t].at = "answering"
  /\ dirty \in [Users -> Nat]
  /\ \A u \in Users : dirty[u] <= Len(history[u])

-----------------------------------------------------------------------------
Row(t, role) == [turn |-> t, role |-> role]

\* Mutant of Trimmed: compares with the cap before the insertion.
TrimmedLate(rows) ==
  IF Len(rows) > MaxHistory + 1 THEN Tail(rows) ELSE rows

\* DELETE ... NOT IN (the newest max_history_messages): one insertion is at
\* most one row too many.
Trimmed(rows) ==
  IF Len(rows) > MaxHistory THEN Tail(rows) ELSE rows

\* append_message: insert and trim in one transaction.
Appended(rows, row) == Trimmed(Append(rows, row))

\* The disturbed rows that are left once the oldest row has made room.
Shifted(n, rows) == IF n > 0 /\ Len(rows) >= MaxHistory THEN n - 1 ELSE n

\* Turns of u that have saved their question and not yet their answer.
Answering(u) == {t \in Turns : turn[t].at = "answering" /\ turn[t].user = u}

\* Mutant of Remembered: forgets within the window.
RememberedBriefly == {u \in known : since[u] + 1 < Window}

\* _evict, then the limiter's verdict: a user it does not know counts as seen
\* at time 0 of the monotonic clock, which may be that of the machine's boot.
Remembered == {u \in known : since[u] <= Window * EvictFactor}
Limited(u) == (IF u \in Remembered THEN since[u] ELSE uptime) < Window

IdleTurn == [at |-> "idle", user |-> NoUser]
Begins(t, u, at) ==
  /\ turn[t] = IdleTurn
  /\ turn' = [turn EXCEPT ![t] = [at |-> at, user |-> u]]
Moves(t, at) == turn' = [turn EXCEPT ![t].at = at]
Ends(t)      == turn' = [turn EXCEPT ![t] = IdleTurn]

Init ==
  /\ history = [u \in Users |-> <<>>]
  /\ turn = [t \in Turns |-> IdleTurn]
  /\ backend = "starting"
  /\ known = {}
  /\ since = [u \in Users |-> Horizon]
  /\ uptime \in {0, Window}
  /\ exits = 0
  /\ seen = {}
  /\ torn = {}
  /\ dirty = [u \in Users |-> 0]

-----------------------------------------------------------------------------
(* The process *)

\* _start_backend comes to its end, or logs an exception; some jobs may have
\* been registered even then.  on_ready may fire again after a reconnect.
BackendStarts ==
  /\ backend # "ready"
  /\ backend' \in {"ready", "failed"}
  /\ UNCHANGED <<turn, limiter, seen, table, exits>>

\* The process ends, by close() or otherwise, and is started again, perhaps
\* with the machine.  The limiter forgets everybody; time goes on.
Exit ==
  /\ exits < MaxExits
  /\ exits' = exits + 1
  /\ backend' = "starting"
  /\ turn' = [t \in Turns |-> IdleTurn]
  /\ known' = {} /\ seen' = {}
  /\ uptime' \in {uptime, 0}
  /\ torn' = {}
  /\ dirty' = [u \in Users |-> IF Answering(u) = {} THEN dirty[u] ELSE Len(history[u])]
  /\ UNCHANGED <<since, history>>

\* The monotonic clock advances.
Tick ==
  /\ since' = [u \in Users |-> IF since[u] < Horizon THEN since[u] + 1 ELSE Horizon]
  /\ uptime' = IF uptime < Window THEN uptime + 1 ELSE Window
  /\ <<since, uptime>>' # <<since, uptime>>
  /\ UNCHANGED <<turn, backend, known, seen, table, exits>>

-----------------------------------------------------------------------------
(* Turns *)

\* Mutant of Accept: the limiter is asked but not told.
AcceptUnrecorded(u, t) ==
  /\ backend = "ready" /\ ~Limited(u)
  /\ known' = Remembered /\ seen' = seen \union {u}
  /\ since' = [since EXCEPT ![u] = 0]
  /\ Begins(t, u, "message")
  /\ UNCHANGED <<backend, uptime, table, exits>>

\* on_message lets a message through; nothing is awaited between is_limited
\* and record.
Accept(u, t) ==
  /\ backend = "ready" /\ ~Limited(u)
  /\ known' = Remembered \union {u} /\ seen' = seen \union {u}
  /\ since' = [since EXCEPT ![u] = 0]
  /\ Begins(t, u, "message")
  /\ UNCHANGED <<backend, uptime, table, exits>>

\* on_message asks the user to wait.  (Messages that come too early or are
\* too long do not reach the limiter.)
Refuse(u) ==
  /\ backend = "ready" /\ Limited(u)
  /\ known' = Remembered
  /\ UNCHANGED <<turn, backend, since, uptime, seen, table, exits>>

\* _send_scheduled: a job's prompt is no message and is not limited.
Scheduled(u, t) ==
  /\ backend # "starting"
  /\ Begins(t, u, "prompt")
  /\ UNCHANGED <<backend, limiter, seen, table, exits>>

\* get_history returned; the model is at work.
ReadHistory(t) ==
  /\ turn[t].at \in {"message", "prompt"}
  /\ Moves(t, "running")
  /\ UNCHANGED <<backend, limiter, seen, table, exits>>

\* The timeout notice, or an empty reply: the history is left alone.
NothingToSave(t) ==
  /\ turn[t].at = "running"
  /\ Moves(t, "sending")
  /\ UNCHANGED <<backend, limiter, seen, table, exits>>

\* There is a reply to keep.
Replied(t) ==
  /\ turn[t].at = "running"
  /\ Moves(t, "asking")
  /\ UNCHANGED <<backend, limiter, seen, table, exits>>

\* append_message for the question.  If another turn of the user is between
\* its two rows, this one comes to lie in the middle.
AppendQuestion(t) ==
  LET u == turn[t].user IN
  /\ turn[t].at = "asking"
  /\ history' = [history EXCEPT ![u] = Appended(@, Row(t, "user"))]
  /\ IF Answering(u) = {}
       THEN torn' = torn /\ dirty' = [dirty EXCEPT ![u] = Shifted(@, history[u])]
       ELSE /\ torn' = torn \union Answering(u) \union {t}
            /\ dirty' = [dirty EXCEPT ![u] = Len(history'[u])]
  /\ Moves(t, "answering")
  /\ UNCHANGED <<backend, limiter, seen, exits>>

\* Mutant of AppendAnswer: the second insertion fails and nobody notices.
AnswerLost(t) ==
  /\ turn[t].at = "answering"
  /\ torn' = torn \ {t}
  /\ Moves(t, "sending")
  /\ UNCHANGED <<backend, limiter, seen, history, dirty, exits>>

\* append_message for the answer.
AppendAnswer(t) ==
  LET u == turn[t].user IN
  /\ turn[t].at = "answering"
  /\ history' = [history EXCEPT ![u] = Appended(@, Row(t, "assistant"))]
  /\ dirty' = [dirty EXCEPT ![u] =
                 IF t \in torn THEN Len(history'[u]) ELSE Shifted(@, history[u])]
  /\ torn' = torn \ {t}
  /\ Moves(t, "sending")
  /\ UNCHANGED <<backend, limiter, seen, exits>>

\* Discord, the model or the database raises; the turn is dropped.
Fails(t) ==
  LET u == turn[t].user IN
  /\ turn[t].at # "idle"
  /\ dirty' = IF turn[t].at = "answering"
                THEN [dirty EXCEPT ![u] = Len(history[u])] ELSE dirty
  /\ torn' = torn \ {t}
  /\ Ends(t)
  /\ UNCHANGED <<backend, limiter, seen, history, exits>>

\* Every chunk of the reply has been sent.
Sent(t) ==
  /\ turn[t].at = "sending"
  /\ Ends(t)
  /\ UNCHANGED <<backend, limiter, seen, table, exits>>

\* The `clear` command, answered even before the backend is ready.  An answer
\* still to be appended will follow without its question.
Clear(u) ==
  /\ history' = [history EXCEPT ![u] = <<>>]
  /\ dirty' = [dirty EXCEPT ![u] = 0]
  /\ torn' = torn \union Answering(u)
  /\ UNCHANGED <<process, exits>>

-----------------------------------------------------------------------------
TurnStep(t) ==
  \/ ReadHistory(t) \/ NothingToSave(t) \/ Replied(t)
  \/ AppendQuestion(t) \/ AppendAnswer(t) \/ Fails(t) \/ Sent(t)

Next ==
  \/ BackendStarts \/ Exit \/ Tick
  \/ \E u \in Users : Refuse(u) \/ Clear(u)
  \/ \E u \in Users, t \in Turns : Accept(u, t) \/ Scheduled(u, t)
  \/ \E t \in Turns : TurnStep(t)

Spec == Init /\ [][Next]_vars
-----------------------------------------------------------------------------
(* Properties *)

\* From row `first` on, counted from the end: an answer, its question, ...
WholeExchanges(rows, first) ==
  \A i \in first..Len(rows) :
    /\ (Len(rows) - i) % 2 = 0 => rows[i].role = "assistant"
    /\ (Len(rows) - i) % 2 = 1 =>
         rows[i].role = "user" /\ rows[i+1] = Row(rows[i].turn, "assistant")

\* Rows of one turn among those of another, an answer whose question was
\* cleared away, a question whose answer was never appended: such damage stays
\* among the rows written by then, whatever turns, failures and exits follow.
\* All later rows of a history at rest are whole exchanges, although old rows
\* are trimmed one at a time; only under an odd cap, once the history is full,
\* may the oldest row be an answer without its question.
ExchangesWhole ==
  \A u \in Users : Answering(u) = {} =>
    /\ WholeExchanges(history[u], dirty[u] + 1)
    /\ \/ (Len(history[u]) - dirty[u]) % 2 = 0
       \/ dirty[u] = 0 /\ Len(history[u]) = MaxHistory

\* While the process lives, messages of a user begin turns at least a window
\* apart, although the limiter forgets users.  (Across an exit they need not:
\* the new process has an empty table.)
TurnsSpacedOut ==
  [][\A t \in Turns :
       /\ turn'[t].at = "message" /\ turn[t].at # "message"
       /\ turn'[t].user \in seen
       => since[turn'[t].user] >= Window]_vars

\* What the limiter forgets never changes its verdict: it refuses those whose
\* message it let through less than a window ago, and, as 0.0 stands for never,
\* all others while the clock, which starts with the machine, has not run for a
\* window.
LimitsExactly ==
  \A u \in Users :
    Limited(u) <=> (IF u \in seen THEN since[u] ELSE uptime) < Window
=============================================================================
