-------------------------- MODULE ConversationProofs --------------------------
(***************************************************************************)
(* Proofs about Conversation, for any number of users and turns, any cap   *)
(* on the history and any window of the limiter.                           *)
(***************************************************************************)
EXTENDS Conversation, TLAPS

\* Whom the limiter has forgotten has been quiet for a window, and so has the
\* clock been running for one.
LimiterInv ==
  \A u \in seen :
    /\ u \in known \/ since[u] >= Window
    /\ since[u] <= uptime \/ uptime = Window

\* Counted from the end, `ahead` (0 or 1) rows still to come, the rows from
\* `first` on are answers and questions in turn.
Alternate(rows, first, ahead) ==
  \A i \in first..Len(rows) :
    /\ (Len(rows) + ahead - i) % 2 = 0 => rows[i].role = "assistant"
    /\ (Len(rows) + ahead - i) % 2 = 1 =>
         /\ rows[i].role = "user"
         /\ i < Len(rows) => rows[i+1] = Row(rows[i].turn, "assistant")

\* No exchange is cut in half, except by trimming.
Complete(rows, k, ahead) ==
  (Len(rows) + ahead - k) % 2 = 0 \/ (k = 0 /\ Len(rows) = MaxHistory)

\* All but the first k rows are in order, `ahead` rows still to come.
InOrder(rows, k, ahead) == Alternate(rows, k + 1, ahead) /\ Complete(rows, k, ahead)

\* A turn between its two rows that nothing has disturbed is the only one of
\* its user there, and its question is the last row.
HalfDone(u, t) ==
  /\ Answering(u) = {t}
  /\ InOrder(history[u], dirty[u], 1)
  /\ Len(history[u]) > dirty[u] => history[u][Len(history[u])] = Row(t, "user")

TidyFor(u) ==
  /\ Answering(u) = {} => InOrder(history[u], dirty[u], 0)
  /\ \A t \in Answering(u) \ torn : HalfDone(u, t)

Tidy == \A u \in Users : TidyFor(u)

ConversationInv == TypeOK /\ LimiterInv /\ Tidy

-----------------------------------------------------------------------------
(* Operators *)

\* Appending keeps the rows' type and the cap, and what is left of the
\* disturbed rows is among the rows that are left.
LEMMA AppendedType ==
  ASSUME NEW rows \in Seq(Rows), NEW row \in Rows, Len(rows) <= MaxHistory,
         NEW k \in Nat, k <= Len(rows)
  PROVE  /\ Appended(rows, row) \in Seq(Rows)
         /\ Len(Appended(rows, row)) <= MaxHistory
         /\ Shifted(k, rows) \in Nat
         /\ Shifted(k, rows) <= Len(Appended(rows, row))
  BY MaxHistoryAssumption DEF Appended, Trimmed, Shifted

\* One more row: the others keep their places, or move up by one if the cap is
\* reached.
LEMMA AppendedRows ==
  ASSUME NEW rows \in Seq(Rows), NEW row \in Rows, Len(rows) <= MaxHistory,
         MaxHistory > 0, NEW k \in Nat, k <= Len(rows)
  PROVE  \E d \in {0, 1} :
           LET new == Appended(rows, row)
               n   == Shifted(k, rows) IN
           /\ Len(new) \in Nat \ {0} /\ Len(new) = Len(rows) + 1 - d
           /\ \A i \in 1..(Len(new) - 1) : i + d \in 1..Len(rows) /\ new[i] = rows[i + d]
           /\ new[Len(new)] = row
           /\ d = 0 => n = k /\ Len(rows) < MaxHistory
           /\ d = 1 => Len(rows) = MaxHistory /\ (IF k > 0 THEN n = k - 1 ELSE n = 0)
<1> DEFINE longer == Append(rows, row)
<1>1. /\ longer \in Seq(Rows) /\ Len(longer) = Len(rows) + 1
      /\ \A i \in 1..Len(rows) : longer[i] = rows[i]
      /\ longer[Len(rows) + 1] = row
  OBVIOUS
<1>2. CASE Len(rows) < MaxHistory
  <2>1. Appended(rows, row) = longer /\ Shifted(k, rows) = k
    BY <1>1, <1>2, MaxHistoryAssumption DEF Appended, Trimmed, Shifted
  <2> HIDE DEF longer
  <2>2. \A i \in 1..(Len(longer) - 1) : i + 0 \in 1..Len(rows) /\ longer[i] = rows[i + 0]
    BY <1>1
  <2>3. WITNESS 0 \in {0, 1}
  <2>4. QED
    BY <1>1, <1>2, <2>1, <2>2
<1>3. CASE Len(rows) = MaxHistory
  <2>1. Appended(rows, row) = Tail(longer)
    BY <1>1, <1>3, MaxHistoryAssumption DEF Appended, Trimmed
  <2>2. /\ Len(Tail(longer)) = MaxHistory
        /\ \A i \in 1..MaxHistory : Tail(longer)[i] = longer[i+1]
    BY <1>1, <1>3, MaxHistoryAssumption
  <2>3. IF k > 0 THEN Shifted(k, rows) = k - 1 ELSE Shifted(k, rows) = 0
    BY <1>3, MaxHistoryAssumption DEF Shifted
  <2> HIDE DEF longer
  <2>4. \A i \in 1..(MaxHistory - 1) :
          i + 1 \in 1..Len(rows) /\ Tail(longer)[i] = rows[i + 1]
    BY <1>1, <1>3, <2>2, MaxHistoryAssumption
  <2>5. WITNESS 1 \in {0, 1}
  <2>6. QED
    BY <1>1, <1>3, <2>1, <2>2, <2>3, <2>4, MaxHistoryAssumption
<1>4. QED
  BY <1>2, <1>3, MaxHistoryAssumption

\* With a cap of 0 nothing is kept.
LEMMA NothingKept ==
  ASSUME NEW rows \in Seq(Rows), NEW row \in Rows, MaxHistory = 0, Len(rows) = 0,
         NEW ahead \in {0, 1}
  PROVE  InOrder(Appended(rows, row), 0, ahead) /\ Len(Appended(rows, row)) = 0
<1>1. Len(Append(rows, row)) = 1 /\ Append(rows, row) \in Seq(Rows)
  OBVIOUS
<1>2. Appended(rows, row) = Tail(Append(rows, row))
  BY <1>1 DEF Appended, Trimmed
<1>3. Len(Appended(rows, row)) = 0
  BY <1>1, <1>2
<1>4. QED
  BY <1>3 DEF InOrder, Alternate, Complete

\* A question after rows in order leaves one row to come.
LEMMA QuestionAppended ==
  ASSUME NEW rows \in Seq(Rows), NEW t \in Turns, Len(rows) <= MaxHistory,
         NEW k \in Nat, k <= Len(rows), InOrder(rows, k, 0)
  PROVE  LET new == Appended(rows, Row(t, "user"))
             n   == Shifted(k, rows) IN
         InOrder(new, n, 1) /\ (Len(new) > n => new[Len(new)] = Row(t, "user"))
<1> DEFINE row == Row(t, "user")
           new == Appended(rows, row)
           n   == Shifted(k, rows)
<1>1. row \in Rows /\ row.role = "user"
  BY DEF Row, Rows, Roles
<1>2. CASE MaxHistory = 0
  <2>1. Len(rows) = 0 /\ n = 0
    BY <1>2 DEF Shifted
  <2> HIDE DEF row
  <2>2. InOrder(new, 0, 1) /\ Len(new) = 0
    BY <1>1, <1>2, <2>1, NothingKept
  <2>3. QED
    BY <2>1, <2>2 DEF row
<1>3. CASE MaxHistory > 0
  <2> HIDE DEF row
  <2>1. PICK d \in {0, 1} :
          /\ Len(new) \in Nat \ {0} /\ Len(new) = Len(rows) + 1 - d
          /\ \A i \in 1..(Len(new) - 1) : i + d \in 1..Len(rows) /\ new[i] = rows[i + d]
          /\ new[Len(new)] = row
          /\ d = 0 => n = k /\ Len(rows) < MaxHistory
          /\ d = 1 => Len(rows) = MaxHistory /\ (IF k > 0 THEN n = k - 1 ELSE n = 0)
    BY <1>1, <1>3, AppendedRows
  <2>2. n \in Nat /\ n + 1 + d >= k + 1
    BY <2>1
  <2> HIDE DEF new, n
  <2>3. ASSUME NEW i \in (n + 1)..Len(new)
        PROVE  /\ (Len(new) + 1 - i) % 2 = 0 => new[i].role = "assistant"
               /\ (Len(new) + 1 - i) % 2 = 1 =>
                    /\ new[i].role = "user"
                    /\ i < Len(new) => new[i+1] = Row(new[i].turn, "assistant")
    <3>1. CASE i = Len(new)
      <4>1. (Len(new) + 1 - i) % 2 = 1
        BY <2>1, <3>1
      <4>2. QED
        BY <1>1, <2>1, <3>1, <4>1
    <3>2. CASE i < Len(new)
      <4>1. PICK j \in (k + 1)..Len(rows) : j = i + d /\ new[i] = rows[j]
        BY <2>1, <2>2, <3>2
      <4>2. (Len(new) + 1 - i) % 2 = (Len(rows) + 0 - j) % 2
        BY <2>1, <2>2, <4>1
      <4>3. /\ (Len(rows) + 0 - j) % 2 = 0 => rows[j].role = "assistant"
            /\ (Len(rows) + 0 - j) % 2 = 1 =>
                 /\ rows[j].role = "user"
                 /\ j < Len(rows) => rows[j+1] = Row(rows[j].turn, "assistant")
        BY <4>1 DEF InOrder, Alternate
      <4>4. (Len(rows) + 0 - j) % 2 = 1 => j < Len(rows)
        BY <4>1
      <4>e. j < Len(rows) => new[i+1] = rows[j+1]
        BY <2>1, <2>2, <3>2, <4>1
      <4>5. QED
        BY <4>1, <4>2, <4>3, <4>4, <4>e
    <3>3. QED
      BY <2>1, <2>2, <3>1, <3>2
  <2>4. Complete(new, n, 1)
    <3>1. Len(new) \in Nat /\ Len(rows) \in Nat
      BY <2>1
    <3>2. CASE d = 1 /\ k = 0
      BY <2>1, <3>2, MaxHistoryAssumption DEF Complete
    <3>3. CASE d = 0 \/ k > 0
      <4>1. (Len(rows) + 0 - k) % 2 = 0
        BY <2>1, <3>1, <3>3, MaxHistoryAssumption DEF InOrder, Complete
      <4>2. Len(new) + 1 - n = Len(rows) + 0 - k + 2
        BY <2>1, <3>1, <3>3
      <4>3. (Len(new) + 1 - n) % 2 = 0
        BY <3>1, <4>1, <4>2
      <4>4. QED
        BY <4>3 DEF Complete
    <3>4. QED
      BY <3>2, <3>3
  <2>5. QED
    BY <2>1, <2>3, <2>4 DEF InOrder, Alternate, new, n, row
<1>4. QED
  BY <1>2, <1>3, MaxHistoryAssumption

\* An answer after its question leaves all rows in order.
LEMMA AnswerAppended ==
  ASSUME NEW rows \in Seq(Rows), NEW t \in Turns, Len(rows) <= MaxHistory,
         NEW k \in Nat, k <= Len(rows), InOrder(rows, k, 1),
         Len(rows) > k => rows[Len(rows)] = Row(t, "user")
  PROVE  InOrder(Appended(rows, Row(t, "assistant")), Shifted(k, rows), 0)
<1> DEFINE row == Row(t, "assistant")
           new == Appended(rows, row)
           n   == Shifted(k, rows)
<1>1. row \in Rows /\ row.role = "assistant" /\ Row(t, "user").turn = t
  BY DEF Row, Rows, Roles
<1>2. CASE MaxHistory = 0
  <2>1. Len(rows) = 0 /\ n = 0
    BY <1>2 DEF Shifted
  <2> HIDE DEF row
  <2>2. InOrder(new, 0, 0)
    BY <1>1, <1>2, <2>1, NothingKept
  <2>3. QED
    BY <2>1, <2>2 DEF row
<1>3. CASE MaxHistory > 0
  <2>1. PICK d \in {0, 1} :
          /\ Len(new) \in Nat \ {0} /\ Len(new) = Len(rows) + 1 - d
          /\ \A i \in 1..(Len(new) - 1) : i + d \in 1..Len(rows) /\ new[i] = rows[i + d]
          /\ new[Len(new)] = row
          /\ d = 0 => n = k /\ Len(rows) < MaxHistory
          /\ d = 1 => Len(rows) = MaxHistory /\ (IF k > 0 THEN n = k - 1 ELSE n = 0)
    BY <1>1, <1>3, AppendedRows
  <2>2. n \in Nat /\ n + 1 + d >= k + 1
    BY <2>1
  <2> HIDE DEF new, n
  <2>3. ASSUME NEW i \in (n + 1)..Len(new)
        PROVE  /\ (Len(new) + 0 - i) % 2 = 0 => new[i].role = "assistant"
               /\ (Len(new) + 0 - i) % 2 = 1 =>
                    /\ new[i].role = "user"
                    /\ i < Len(new) => new[i+1] = Row(new[i].turn, "assistant")
    <3>1. CASE i = Len(new)
      <4>1. (Len(new) + 0 - i) % 2 = 0
        BY <2>1, <3>1
      <4>2. QED
        BY <1>1, <2>1, <3>1, <4>1
    <3>2. CASE i < Len(new)
      <4>1. PICK j \in (k + 1)..Len(rows) : j = i + d /\ new[i] = rows[j]
        BY <2>1, <2>2, <3>2
      <4>2. (Len(new) + 0 - i) % 2 = (Len(rows) + 1 - j) % 2
        BY <2>1, <2>2, <4>1
      <4>3. /\ (Len(rows) + 1 - j) % 2 = 0 => rows[j].role = "assistant"
            /\ (Len(rows) + 1 - j) % 2 = 1 =>
                 /\ rows[j].role = "user"
                 /\ j < Len(rows) => rows[j+1] = Row(rows[j].turn, "assistant")
        BY <4>1 DEF InOrder, Alternate
      <4>4. j < Len(rows) => new[i+1] = rows[j+1]
        BY <2>1, <2>2, <3>2, <4>1
      <4>5. ASSUME j = Len(rows) PROVE new[i+1] = row /\ rows[j].turn = t
        <5>1. i + 1 = Len(new) /\ Len(rows) > k
          BY <2>1, <2>2, <3>2, <4>1, <4>5
        <5>2. QED
          BY <1>1, <2>1, <4>5, <5>1
      <4>6. QED
        BY <4>1, <4>2, <4>3, <4>4, <4>5 DEF row
    <3>3. QED
      BY <2>1, <2>2, <3>1, <3>2
  <2>4. Complete(new, n, 0)
    <3>1. Len(new) \in Nat /\ Len(rows) \in Nat
      BY <2>1
    <3>2. CASE d = 1 /\ k = 0
      BY <2>1, <3>2, MaxHistoryAssumption DEF Complete
    <3>3. CASE d = 0 \/ k > 0
      <4>1. (Len(rows) + 1 - k) % 2 = 0
        BY <2>1, <3>1, <3>3, MaxHistoryAssumption DEF InOrder, Complete
      <4>2. Len(new) + 0 - n = Len(rows) + 1 - k + 0
        BY <2>1, <3>1, <3>3
      <4>3. (Len(new) + 0 - n) % 2 = 0
        BY <3>1, <4>1, <4>2
      <4>4. QED
        BY <4>3 DEF Complete
    <3>4. QED
      BY <3>2, <3>3
  <2>5. QED
    BY <2>1, <2>3, <2>4 DEF InOrder, Alternate, new, n
<1>4. QED
  BY <1>2, <1>3, MaxHistoryAssumption

\* Where every row may have been disturbed nothing is asked of them.
LEMMA AllDirty ==
  ASSUME NEW rows \in Seq(Rows), NEW k \in Nat, k = Len(rows)
  PROVE  InOrder(rows, k, 0)
  BY DEF InOrder, Alternate, Complete

\* The limiter's memory is at least a window long.
LEMMA MemoryOfAWindow ==
  /\ Window * EvictFactor \in Nat
  /\ Window * EvictFactor >= Window
  /\ Horizon \in Nat /\ Horizon > Window
<1>1. Window * EvictFactor \in Nat
  BY LimiterAssumption
<1>2. Window * EvictFactor >= Window
  <2>1. Window * EvictFactor = Window + Window * (EvictFactor - 1)
    BY LimiterAssumption
  <2>2. Window * (EvictFactor - 1) \in Nat
    BY LimiterAssumption
  <2>3. QED
    BY <2>1, <2>2, LimiterAssumption
<1>3. QED
  BY <1>1, <1>2, LimiterAssumption DEF Horizon

-----------------------------------------------------------------------------
(* The invariant *)

LEMMA InitConversation == Init => ConversationInv
<1> SUFFICES ASSUME Init PROVE ConversationInv
  OBVIOUS
<1>1. \A u \in Users : history[u] = <<>> /\ Len(history[u]) = 0 /\ dirty[u] = 0
  BY DEF Init
<1>2. TypeOK
  BY <1>1, MaxHistoryAssumption, LimiterAssumption, MemoryOfAWindow, NoUserAssumption
  DEF Init, TypeOK, IdleTurn, Ats
<1>3. LimiterInv
  BY DEF Init, LimiterInv
<1>4. Tidy
  <2>1. \A u \in Users : Answering(u) = {}
    BY DEF Init, Answering, IdleTurn
  <2>2. QED
    BY <1>1, <1>2, <2>1, AllDirty DEF Tidy, TidyFor, TypeOK
<1>5. QED
  BY <1>2, <1>3, <1>4 DEF ConversationInv

\* The part of TypeOK about turns, and the three ways a turn changes.
TurnsTyped ==
  /\ turn \in [Turns -> [at : Ats, user : Users \union {NoUser}]]
  /\ \A t \in Turns : turn[t].at = "idle" <=> turn[t].user = NoUser

\* The part about rows, and about the history variables kept with them.
TableTyped ==
  /\ history \in [Users -> Seq(Rows)]
  /\ \A u \in Users : Len(history[u]) <= MaxHistory
  /\ \A t \in torn : t \in Turns /\ turn[t].at = "answering"
  /\ dirty \in [Users -> Nat]
  /\ \A u \in Users : dirty[u] <= Len(history[u])

LEMMA TurnBegins ==
  ASSUME TurnsTyped, NEW u \in Users, NEW t \in Turns, NEW at \in Ats \ {"idle"},
         Begins(t, u, at)
  PROVE  TurnsTyped' /\ turn[t].at = "idle"
         /\ turn'[t] = [at |-> at, user |-> u] /\ \A s \in Turns : s # t => turn'[s] = turn[s]
  BY NoUserAssumption DEF TurnsTyped, Begins, IdleTurn

LEMMA TurnMoves ==
  ASSUME TurnsTyped, NEW t \in Turns, turn[t].at # "idle", NEW at \in Ats \ {"idle"},
         Moves(t, at)
  PROVE  /\ turn'[t].at = at /\ turn'[t].user = turn[t].user /\ turn[t].user \in Users
         /\ \A s \in Turns : s # t => turn'[s] = turn[s]
         /\ TurnsTyped'
<1>1. turn[t] \in [at : Ats, user : Users \union {NoUser}] /\ turn[t].user # NoUser
  BY DEF TurnsTyped
<1>2. /\ turn' = [turn EXCEPT ![t] = [turn[t] EXCEPT !.at = at]]
      /\ [turn[t] EXCEPT !.at = at] = [at |-> at, user |-> turn[t].user]
  BY <1>1 DEF Moves, TurnsTyped
<1>3. turn' = [turn EXCEPT ![t] = [at |-> at, user |-> turn[t].user]]
  BY <1>2
<1>4. QED
  BY <1>1, <1>3 DEF TurnsTyped

LEMMA TurnEnds ==
  ASSUME TurnsTyped, NEW t \in Turns, Ends(t)
  PROVE  /\ turn'[t].at = "idle" /\ \A s \in Turns : s # t => turn'[s] = turn[s]
         /\ TurnsTyped'
  BY DEF TurnsTyped, Ends, IdleTurn, Ats

\* What AppendQuestion and AppendAnswer do to the rows of the turn's user.
LEMMA RowAppended ==
  ASSUME TypeOK, NEW t \in Turns, NEW role \in Roles, NEW u \in Users,
         history' = [history EXCEPT ![u] = Appended(history[u], Row(t, role))]
  PROVE  /\ history'[u] = Appended(history[u], Row(t, role))
         /\ history' \in [Users -> Seq(Rows)]
         /\ \A v \in Users : Len(history'[v]) <= MaxHistory
         /\ \A v \in Users : v # u => history'[v] = history[v]
         /\ Len(history'[u]) \in Nat
         /\ Shifted(dirty[u], history[u]) \in Nat
         /\ Shifted(dirty[u], history[u]) <= Len(history'[u])
<1>1. history[u] \in Seq(Rows) /\ Len(history[u]) <= MaxHistory /\ Row(t, role) \in Rows
      /\ dirty[u] \in Nat /\ dirty[u] <= Len(history[u])
  BY DEF TypeOK, Row, Rows
<1>2. /\ Appended(history[u], Row(t, role)) \in Seq(Rows)
      /\ Len(Appended(history[u], Row(t, role))) <= MaxHistory
      /\ Shifted(dirty[u], history[u]) \in Nat
      /\ Shifted(dirty[u], history[u]) <= Len(Appended(history[u], Row(t, role)))
  BY <1>1, AppendedType
<1>3. QED
  BY <1>1, <1>2 DEF TypeOK

LEMMA DirtySet ==
  ASSUME dirty \in [Users -> Nat], NEW u \in Users, NEW n \in Nat,
         dirty' = [dirty EXCEPT ![u] = n]
  PROVE  /\ dirty' \in [Users -> Nat] /\ dirty'[u] = n
         /\ \A v \in Users : v # u => dirty'[v] = dirty[v]
  OBVIOUS

LEMMA TypeStep == TypeOK /\ [Next]_vars => TypeOK'
<1> SUFFICES ASSUME TypeOK, [Next]_vars PROVE TypeOK'
  OBVIOUS
<1> USE MemoryOfAWindow, LimiterAssumption DEF process, limiter, table
<1>1. TurnsTyped
  BY DEF TypeOK, TurnsTyped
<1>2. ASSUME TurnsTyped', TableTyped', backend' \in {"starting", "ready", "failed"},
             since' \in [Users -> 0..Horizon], uptime' \in 0..Window,
             known' \subseteq seen', seen' \subseteq Users, exits' \in Nat
      PROVE  TypeOK'
  BY <1>2 DEF TypeOK, TurnsTyped, TableTyped
<1>t. ASSUME UNCHANGED table, \A t \in Turns : turn[t].at = "answering" =>
                                               turn'[t].at = "answering"
      PROVE  TableTyped'
  BY <1>t DEF TypeOK, TableTyped
<1>3. CASE BackendStarts
  BY <1>1, <1>2, <1>t, <1>3 DEF TypeOK, BackendStarts, TurnsTyped
<1>4. CASE Exit
  <2>1. TurnsTyped'
    BY <1>4 DEF Exit, TurnsTyped, IdleTurn, Ats
  <2>2. TableTyped'
    BY <1>4 DEF Exit, TypeOK, TableTyped
  <2>3. QED
    BY <1>2, <1>4, <2>1, <2>2 DEF TypeOK, Exit
<1>5. CASE Tick
  BY <1>1, <1>2, <1>t, <1>5 DEF TypeOK, Tick, TurnsTyped
<1>6. ASSUME NEW u \in Users, Refuse(u)
      PROVE  TypeOK'
  BY <1>1, <1>2, <1>t, <1>6 DEF TypeOK, Refuse, Remembered, TurnsTyped
<1>7. ASSUME NEW u \in Users, Clear(u)
      PROVE  TypeOK'
  <2>1. <<>> \in Seq(Rows) /\ Len(<<>>) = 0
    OBVIOUS
  <2>2. TurnsTyped'
    BY <1>1, <1>7 DEF Clear, TurnsTyped
  <2>3. TableTyped'
    BY <1>7, <2>1, MaxHistoryAssumption DEF TypeOK, TableTyped, Clear, Answering
  <2>4. QED
    BY <1>2, <1>7, <2>2, <2>3 DEF TypeOK, Clear
<1>8. ASSUME NEW u \in Users, NEW t \in Turns, Accept(u, t) \/ Scheduled(u, t)
      PROVE  TypeOK'
  <2>1. TurnsTyped' /\ turn[t].at = "idle" /\ \A s \in Turns : s # t => turn'[s] = turn[s]
    BY <1>1, <1>8, TurnBegins DEF Accept, Scheduled, Ats
  <2>2. TableTyped'
    BY <1>8, <1>t, <2>1 DEF Accept, Scheduled
  <2>3. CASE Accept(u, t)
    BY <1>2, <2>1, <2>2, <2>3 DEF TypeOK, Accept, Remembered
  <2>4. CASE Scheduled(u, t)
    BY <1>2, <2>1, <2>2, <2>4 DEF TypeOK, Scheduled
  <2>5. QED
    BY <1>8, <2>3, <2>4
<1>9. ASSUME NEW t \in Turns, ReadHistory(t) \/ NothingToSave(t) \/ Replied(t)
      PROVE  TypeOK'
  <2>1. TurnsTyped' /\ \A s \in Turns : s # t => turn'[s] = turn[s]
    BY <1>1, <1>9, TurnMoves DEF ReadHistory, NothingToSave, Replied, Ats
  <2>2. TableTyped'
    BY <1>9, <1>t, <2>1 DEF ReadHistory, NothingToSave, Replied
  <2>3. QED
    BY <1>2, <1>9, <2>1, <2>2 DEF TypeOK, ReadHistory, NothingToSave, Replied
<1>10. ASSUME NEW t \in Turns, Sent(t) \/ Fails(t)
       PROVE  TypeOK'
  <2>1. TurnsTyped' /\ \A s \in Turns : s # t => turn'[s] = turn[s]
    BY <1>1, <1>10, TurnEnds DEF Sent, Fails
  <2>2. turn[t].at = "answering" => turn[t].user \in Users
    BY <1>1 DEF TurnsTyped
  <2>a. Sent(t) => turn[t].at = "sending" /\ torn' = torn /\ history' = history /\ dirty' = dirty
    BY DEF Sent
  <2>b. Fails(t) => /\ torn' = torn \ {t} /\ history' = history
                    /\ \/ dirty' = dirty
                       \/ \E u \in Users : dirty' = [dirty EXCEPT ![u] = Len(history[u])]
    BY <2>2 DEF Fails
  <2>c. \A u \in Users : Len(history[u]) \in Nat
    BY DEF TypeOK
  <2>3. /\ \A s \in torn' : s \in torn /\ s # t
        /\ history' = history
        /\ dirty' \in [Users -> Nat] /\ \A v \in Users : dirty'[v] <= Len(history[v])
    <3>1. /\ history' = history /\ \A s \in torn' : s \in torn /\ s # t
          /\ dirty' = dirty \/ \E u \in Users : dirty' = [dirty EXCEPT ![u] = Len(history[u])]
      BY <1>10, <2>a, <2>b DEF TypeOK
    <3>2. CASE dirty' = dirty
      BY <3>1, <3>2 DEF TypeOK
    <3>3. ASSUME NEW u \in Users, dirty' = [dirty EXCEPT ![u] = Len(history[u])]
          PROVE  dirty' \in [Users -> Nat] /\ \A v \in Users : dirty'[v] <= Len(history[v])
      <4>1. PICK n \in Nat : n = Len(history[u])
        BY <2>c
      <4>2. /\ dirty' \in [Users -> Nat] /\ dirty'[u] = n
            /\ \A v \in Users : v # u => dirty'[v] = dirty[v]
        BY <3>3, <4>1, DirtySet DEF TypeOK
      <4>3. \A v \in Users : v # u => dirty[v] <= Len(history[v])
        BY DEF TypeOK
      <4>4. QED
        BY <4>1, <4>2, <4>3
    <3>4. QED
      BY <3>1, <3>2, <3>3
  <2>4. TableTyped'
    <3>1. \A s \in torn' : s \in Turns /\ turn'[s].at = "answering"
      BY <2>1, <2>3 DEF TypeOK
    <3>2. QED
      BY <2>3, <3>1 DEF TypeOK, TableTyped
  <2>5. QED
    BY <1>2, <1>10, <2>1, <2>4 DEF TypeOK, Sent, Fails
<1>11. ASSUME NEW t \in Turns, AppendQuestion(t)
       PROVE  TypeOK'
  <2>1. /\ TurnsTyped' /\ turn[t].user \in Users /\ turn'[t].at = "answering"
        /\ \A s \in Turns : s # t => turn'[s] = turn[s]
    BY <1>1, <1>11, TurnMoves DEF AppendQuestion, Ats
  <2>2. PICK u \in Users : u = turn[t].user
    BY <2>1
  <2>3. history' = [history EXCEPT ![u] = Appended(history[u], Row(t, "user"))]
    BY <1>11, <2>2 DEF AppendQuestion
  <2>4. /\ history' \in [Users -> Seq(Rows)]
        /\ \A v \in Users : Len(history'[v]) <= MaxHistory
        /\ \A v \in Users : v # u => history'[v] = history[v]
        /\ Len(history'[u]) \in Nat
        /\ Shifted(dirty[u], history[u]) \in Nat
        /\ Shifted(dirty[u], history[u]) <= Len(history'[u])
    BY <2>3, RowAppended DEF Roles
  <2>5. /\ dirty' = [dirty EXCEPT ![u] = Shifted(dirty[u], history[u])]
            \/ dirty' = [dirty EXCEPT ![u] = Len(history'[u])]
        /\ \A s \in torn' : s \in torn \/ s \in Answering(u) \/ s = t
    BY <1>11, <2>2 DEF AppendQuestion
  <2>6. TableTyped'
    <3>1. /\ dirty \in [Users -> Nat] /\ dirty' \in [Users -> Nat]
          /\ \A v \in Users : v # u => dirty'[v] = dirty[v]
          /\ dirty'[u] <= Len(history'[u])
      <4>1. PICK n \in Nat : n <= Len(history'[u]) /\ dirty' = [dirty EXCEPT ![u] = n]
        BY <2>4, <2>5
      <4>2. QED
        BY <4>1, DirtySet DEF TypeOK
    <3>2. \A v \in Users : dirty'[v] <= Len(history'[v])
      BY <2>4, <3>1 DEF TypeOK
    <3>3. \A s \in torn' : s \in Turns /\ turn'[s].at = "answering"
      BY <2>1, <2>5 DEF TypeOK, Answering
    <3>4. QED
      BY <2>4, <3>1, <3>2, <3>3 DEF TableTyped
  <2>7. QED
    BY <1>2, <1>11, <2>1, <2>6 DEF TypeOK, AppendQuestion
<1>12. ASSUME NEW t \in Turns, AppendAnswer(t)
       PROVE  TypeOK'
  <2>1. /\ TurnsTyped' /\ turn[t].user \in Users
        /\ \A s \in Turns : s # t => turn'[s] = turn[s]
    BY <1>1, <1>12, TurnMoves DEF AppendAnswer, Ats
  <2>2. PICK u \in Users : u = turn[t].user
    BY <2>1
  <2>3. history' = [history EXCEPT ![u] = Appended(history[u], Row(t, "assistant"))]
    BY <1>12, <2>2 DEF AppendAnswer
  <2>4. /\ history' \in [Users -> Seq(Rows)]
        /\ \A v \in Users : Len(history'[v]) <= MaxHistory
        /\ \A v \in Users : v # u => history'[v] = history[v]
        /\ Len(history'[u]) \in Nat
        /\ Shifted(dirty[u], history[u]) \in Nat
        /\ Shifted(dirty[u], history[u]) <= Len(history'[u])
    BY <2>3, RowAppended DEF Roles
  <2>5. /\ dirty' = [dirty EXCEPT ![u] = Shifted(dirty[u], history[u])]
            \/ dirty' = [dirty EXCEPT ![u] = Len(history'[u])]
        /\ torn' = torn \ {t}
    BY <1>12, <2>2 DEF AppendAnswer
  <2>6. TableTyped'
    <3>1. /\ dirty \in [Users -> Nat] /\ dirty' \in [Users -> Nat]
          /\ \A v \in Users : v # u => dirty'[v] = dirty[v]
          /\ dirty'[u] <= Len(history'[u])
      <4>1. PICK n \in Nat : n <= Len(history'[u]) /\ dirty' = [dirty EXCEPT ![u] = n]
        BY <2>4, <2>5
      <4>2. QED
        BY <4>1, DirtySet DEF TypeOK
    <3>2. \A v \in Users : dirty'[v] <= Len(history'[v])
      BY <2>4, <3>1 DEF TypeOK
    <3>3. \A s \in torn' : s \in Turns /\ turn'[s].at = "answering"
      BY <2>1, <2>5 DEF TypeOK
    <3>4. QED
      BY <2>4, <3>1, <3>2, <3>3 DEF TableTyped
  <2>7. QED
    BY <1>2, <1>12, <2>1, <2>6 DEF TypeOK, AppendAnswer
<1>13. CASE UNCHANGED vars
  BY <1>13 DEF TypeOK, vars
<1>14. QED
  BY <1>3, <1>4, <1>5, <1>6, <1>7, <1>8, <1>9, <1>10, <1>11, <1>12, <1>13 DEF Next, TurnStep

\* Whoever the limiter let through and does not know, or is about to forget,
\* has been quiet for a window.
LEMMA ForgottenLongAgo ==
  ASSUME TypeOK, LimiterInv, NEW v \in seen, v \notin Remembered
  PROVE  v \in Users /\ since[v] >= Window
<1>1. CASE v \notin known
  BY <1>1 DEF LimiterInv, TypeOK
<1>2. CASE v \in known
  <2>1. PICK memory \in Nat : memory = Window * EvictFactor /\ memory >= Window
    BY MemoryOfAWindow
  <2>2. ~(since[v] <= memory) /\ v \in Users
    BY <1>2, <2>1 DEF Remembered, TypeOK
  <2>3. since[v] \in Int
    BY <2>2, MemoryOfAWindow DEF TypeOK
  <2>4. QED
    BY <2>1, <2>2, <2>3, LimiterAssumption
<1>3. QED
  BY <1>1, <1>2

LEMMA LimiterStep == TypeOK /\ LimiterInv /\ [Next]_vars => LimiterInv'
<1> SUFFICES ASSUME TypeOK, LimiterInv, [Next]_vars PROVE LimiterInv'
  OBVIOUS
<1>1. CASE known' = known /\ since' = since /\ seen' = seen /\ uptime' = uptime
  BY <1>1 DEF LimiterInv
<1>2. CASE Exit
  BY <1>2 DEF Exit, LimiterInv
<1>3. CASE Tick
  <2>1. /\ known' = known /\ seen' = seen /\ \A u \in seen : u \in Users
        /\ uptime \in 0..Window
        /\ \A u \in Users : since[u] \in 0..Horizon
        /\ \A u \in Users : since'[u] = IF since[u] < Horizon THEN since[u] + 1 ELSE Horizon
        /\ uptime' = IF uptime < Window THEN uptime + 1 ELSE Window
    BY <1>3 DEF Tick, TypeOK
  <2>2. QED
    BY <2>1, MemoryOfAWindow, LimiterAssumption DEF LimiterInv
<1>4. ASSUME NEW u \in Users, Refuse(u)
      PROVE  LimiterInv'
  BY <1>4, ForgottenLongAgo DEF Refuse, LimiterInv
<1>5. ASSUME NEW u \in Users, NEW t \in Turns, Accept(u, t)
      PROVE  LimiterInv'
  <2>1. /\ known' = Remembered \union {u} /\ seen' = seen \union {u} /\ uptime' = uptime
        /\ since'[u] = 0 /\ \A v \in Users : v # u => since'[v] = since[v]
        /\ uptime >= 0
    BY <1>5, LimiterAssumption DEF Accept, TypeOK
  <2>2. \A v \in seen : v \in Users /\ (v \in Remembered \/ since[v] >= Window)
    BY ForgottenLongAgo DEF TypeOK
  <2>3. QED
    BY <2>1, <2>2 DEF LimiterInv
<1>6. QED
  BY <1>1, <1>2, <1>3, <1>4, <1>5
  DEF Next, TurnStep, vars, process, limiter, BackendStarts, Clear, Scheduled, ReadHistory,
      NothingToSave, Replied, AppendQuestion, AppendAnswer, Fails, Sent

\* A user's rows and the turns between theirs are all that matters.
LEMMA TidyKept ==
  ASSUME NEW u \in Users, TidyFor(u), Answering(u)' = Answering(u),
         history'[u] = history[u], dirty'[u] = dirty[u],
         \A t \in Answering(u) : t \in torn => t \in torn'
  PROVE  TidyFor(u)'
  BY DEF TidyFor, HalfDone

\* A step that touches no row and takes no turn into or out of the state
\* between its rows.
LEMMA TidyUndisturbed ==
  ASSUME Tidy, history' = history, dirty' = dirty,
         \A u \in Users : Answering(u)' = Answering(u),
         \A t \in torn : t \in torn' \/ turn[t].at # "answering"
  PROVE  Tidy'
  BY TidyKept DEF Tidy, Answering

\* A turn of u moves into or out of that state: the other users' rows stay.
LEMMA TidyOthers ==
  ASSUME TypeOK, Tidy, NEW u \in Users, NEW t \in Turns, turn[t].user = u,
         turn[t].at = "answering" => turn'[t].at # "answering",
         turn'[t].at = "answering" => turn'[t].user = u,
         \A s \in Turns : s # t => turn'[s] = turn[s],
         \A v \in Users : v # u => history'[v] = history[v] /\ dirty'[v] = dirty[v],
         \A s \in torn : s # t => s \in torn'
  PROVE  \A v \in Users : v # u => TidyFor(v)'
<1> SUFFICES ASSUME NEW v \in Users, v # u PROVE TidyFor(v)'
  OBVIOUS
<1>1. Answering(v)' = Answering(v) /\ t \notin Answering(v)
  BY DEF Answering
<1>2. QED
  BY <1>1, TidyKept DEF Tidy

LEMMA TidyStep == TypeOK /\ Tidy /\ [Next]_vars => Tidy'
<1> SUFFICES ASSUME TypeOK, Tidy, TypeOK', [Next]_vars PROVE Tidy'
  BY TypeStep
<1>t. TurnsTyped
  BY DEF TypeOK, TurnsTyped
<1>1. CASE turn' = turn /\ UNCHANGED table
  BY <1>1, TidyUndisturbed DEF Answering, table
<1>2. CASE Exit
  <2>1. \A u \in Users : Answering(u)' = {}
    BY <1>2 DEF Exit, Answering, IdleTurn
  <2>2. ASSUME NEW u \in Users
        PROVE  TidyFor(u)'
    <3>1. CASE Answering(u) = {}
      <4>1. dirty'[u] = dirty[u] /\ history'[u] = history[u]
        BY <1>2, <3>1 DEF Exit
      <4>2. QED
        BY <2>1, <3>1, <4>1, TidyKept DEF Tidy
    <3>2. CASE Answering(u) # {}
      <4>1. dirty'[u] = Len(history'[u])
        BY <1>2, <3>2 DEF Exit
      <4>2. InOrder(history'[u], dirty'[u], 0)
        BY <4>1, AllDirty DEF TypeOK
      <4>3. QED
        BY <2>1, <4>2 DEF TidyFor
    <3>3. QED
      BY <3>1, <3>2
  <2>3. QED
    BY <2>2 DEF Tidy
<1>3. ASSUME NEW u \in Users, Clear(u)
      PROVE  Tidy'
  <2>1. \A v \in Users : Answering(v)' = Answering(v)
    BY <1>3 DEF Clear, process, Answering
  <2>2. /\ \A v \in Users : v # u => history'[v] = history[v] /\ dirty'[v] = dirty[v]
        /\ history'[u] = <<>> /\ dirty'[u] = 0 /\ torn' = torn \union Answering(u)
    BY <1>3 DEF Clear, TypeOK
  <2>3. \A v \in Users : v # u => TidyFor(v)'
    BY <2>1, <2>2, TidyKept DEF Tidy
  <2>4. TidyFor(u)'
    <3>1. dirty'[u] = Len(history'[u])
      BY <2>2
    <3>2. InOrder(history'[u], dirty'[u], 0)
      BY <3>1, AllDirty DEF TypeOK
    <3>3. QED
      BY <2>1, <2>2, <3>2 DEF TidyFor
  <2>5. QED
    BY <2>3, <2>4 DEF Tidy
<1>4. ASSUME NEW t \in Turns, turn'[t].at # "answering", turn[t].at # "answering",
             \A s \in Turns : s # t => turn'[s] = turn[s],
             history' = history, dirty' = dirty, torn \ {t} \subseteq torn'
      PROVE  Tidy'
  BY <1>4, TidyUndisturbed DEF Answering
<1>5. ASSUME NEW t \in Turns, AppendQuestion(t)
      PROVE  Tidy'
  <2>1. /\ turn[t].user \in Users /\ turn[t].at = "asking"
        /\ turn'[t].at = "answering" /\ turn'[t].user = turn[t].user
        /\ \A s \in Turns : s # t => turn'[s] = turn[s]
    BY <1>5, <1>t, TurnMoves DEF AppendQuestion, Ats
  <2>2. PICK u \in Users : u = turn[t].user
    BY <2>1
  <2>3. history' = [history EXCEPT ![u] = Appended(history[u], Row(t, "user"))]
    BY <1>5, <2>2 DEF AppendQuestion
  <2>4. /\ history'[u] = Appended(history[u], Row(t, "user"))
        /\ \A v \in Users : v # u => history'[v] = history[v]
    BY <2>3, RowAppended DEF Roles
  <2>5. CASE Answering(u) = {}
    <3>1. torn' = torn /\ dirty' = [dirty EXCEPT ![u] = Shifted(dirty[u], history[u])]
      BY <1>5, <2>2, <2>5 DEF AppendQuestion
    <3>2. /\ dirty'[u] = Shifted(dirty[u], history[u])
          /\ \A v \in Users : v # u => dirty'[v] = dirty[v]
      BY <3>1 DEF TypeOK
    <3>3. Answering(u)' = {t}
      BY <2>1, <2>2, <2>5 DEF Answering
    <3>4. /\ InOrder(history'[u], dirty'[u], 1)
          /\ Len(history'[u]) > dirty'[u] => history'[u][Len(history'[u])] = Row(t, "user")
      <4>1. /\ history[u] \in Seq(Rows) /\ Len(history[u]) <= MaxHistory
            /\ dirty[u] \in Nat /\ dirty[u] <= Len(history[u])
            /\ InOrder(history[u], dirty[u], 0)
        BY <2>5 DEF TypeOK, Tidy, TidyFor
      <4>2. QED
        BY <2>4, <3>2, <4>1, QuestionAppended
    <3>5. TidyFor(u)'
      BY <3>3, <3>4 DEF TidyFor, HalfDone
    <3>6. \A v \in Users : v # u => TidyFor(v)'
      BY <2>1, <2>2, <2>4, <3>1, <3>2, TidyOthers
    <3>7. QED
      BY <3>5, <3>6 DEF Tidy
  <2>6. CASE Answering(u) # {}
    <3>1. /\ torn' = torn \union Answering(u) \union {t}
          /\ dirty' = [dirty EXCEPT ![u] = Len(history'[u])]
      BY <1>5, <2>2, <2>6 DEF AppendQuestion
    <3>2. \A v \in Users : v # u => dirty'[v] = dirty[v]
      BY <3>1 DEF TypeOK
    <3>3. Answering(u)' = Answering(u) \union {t}
      BY <2>1, <2>2 DEF Answering
    <3>4. TidyFor(u)'
      BY <3>1, <3>3 DEF TidyFor
    <3>5. \A v \in Users : v # u => TidyFor(v)'
      BY <2>1, <2>2, <2>4, <3>1, <3>2, TidyOthers
    <3>6. QED
      BY <3>4, <3>5 DEF Tidy
  <2>7. QED
    BY <2>5, <2>6
<1>6. ASSUME NEW t \in Turns, AppendAnswer(t)
      PROVE  Tidy'
  <2>1. /\ turn[t].user \in Users /\ turn[t].at = "answering"
        /\ turn'[t].at = "sending" /\ turn'[t].user = turn[t].user
        /\ \A s \in Turns : s # t => turn'[s] = turn[s]
    BY <1>6, <1>t, TurnMoves DEF AppendAnswer, Ats
  <2>2. PICK u \in Users : u = turn[t].user
    BY <2>1
  <2>3. /\ history' = [history EXCEPT ![u] = Appended(history[u], Row(t, "assistant"))]
        /\ dirty' = [dirty EXCEPT ![u] = IF t \in torn THEN Len(history'[u])
                                                      ELSE Shifted(dirty[u], history[u])]
        /\ torn' = torn \ {t}
    BY <1>6, <2>2 DEF AppendAnswer
  <2>4. /\ history'[u] = Appended(history[u], Row(t, "assistant"))
        /\ \A v \in Users : v # u => history'[v] = history[v]
    BY <2>3, RowAppended DEF Roles
  <2>5. /\ dirty'[u] = IF t \in torn THEN Len(history'[u]) ELSE Shifted(dirty[u], history[u])
        /\ \A v \in Users : v # u => dirty'[v] = dirty[v]
    BY <2>3 DEF TypeOK
  <2>6. Answering(u)' = Answering(u) \ {t} /\ t \in Answering(u)
    BY <2>1, <2>2 DEF Answering
  <2>7. TidyFor(u)'
    <3>1. CASE t \in torn
      <4>1. InOrder(history'[u], dirty'[u], 0)
        BY <2>5, <3>1, AllDirty DEF TypeOK
      <4>2. \A s \in Answering(u) : s # t => s \in torn
        BY <2>6 DEF Tidy, TidyFor, HalfDone
      <4>3. QED
        BY <2>3, <2>6, <4>1, <4>2 DEF TidyFor
    <3>2. CASE t \notin torn
      <4>1. HalfDone(u, t)
        BY <2>6, <3>2 DEF Tidy, TidyFor
      <4>2. history[u] \in Seq(Rows) /\ Len(history[u]) <= MaxHistory
            /\ dirty[u] \in Nat /\ dirty[u] <= Len(history[u])
        BY DEF TypeOK
      <4>3. InOrder(history'[u], dirty'[u], 0)
        BY <2>4, <2>5, <3>2, <4>1, <4>2, AnswerAppended DEF HalfDone
      <4>4. Answering(u)' = {}
        BY <2>6, <4>1 DEF HalfDone
      <4>5. QED
        BY <4>3, <4>4 DEF TidyFor
    <3>3. QED
      BY <3>1, <3>2
  <2>8. \A v \in Users : v # u => TidyFor(v)'
    BY <2>1, <2>2, <2>3, <2>4, <2>5, TidyOthers
  <2>9. QED
    BY <2>7, <2>8 DEF Tidy
<1>7. ASSUME NEW t \in Turns, Fails(t), turn[t].at = "answering"
      PROVE  Tidy'
  <2>1. PICK u \in Users : u = turn[t].user
    BY <1>7, <1>t DEF TurnsTyped
  <2>2. /\ \A s \in Turns : s # t => turn'[s] = turn[s]
        /\ turn'[t].at = "idle"
    BY <1>7, <1>t, TurnEnds DEF Fails
  <2>3. /\ history' = history /\ torn' = torn \ {t}
        /\ dirty' = [dirty EXCEPT ![u] = Len(history[u])]
    BY <1>7, <2>1 DEF Fails
  <2>4. /\ dirty'[u] = Len(history'[u])
        /\ \A v \in Users : v # u => dirty'[v] = dirty[v]
    BY <2>3 DEF TypeOK
  <2>5. Answering(u)' = Answering(u) \ {t} /\ t \in Answering(u)
    BY <1>7, <2>1, <2>2 DEF Answering
  <2>6. TidyFor(u)'
    <3>1. InOrder(history'[u], dirty'[u], 0)
      BY <2>4, AllDirty DEF TypeOK
    <3>2. \A s \in Answering(u) : s # t => s \in torn
      BY <2>5 DEF Tidy, TidyFor, HalfDone
    <3>3. QED
      BY <2>3, <2>5, <3>1, <3>2 DEF TidyFor
  <2>7. \A v \in Users : v # u => TidyFor(v)'
    BY <1>7, <2>1, <2>2, <2>3, <2>4, TidyOthers
  <2>8. QED
    BY <2>6, <2>7 DEF Tidy
<1>8. ASSUME NEW u \in Users, NEW t \in Turns, Accept(u, t) \/ Scheduled(u, t)
      PROVE  Tidy'
  <2>1. PICK at \in {"message", "prompt"} : Begins(t, u, at)
    BY <1>8 DEF Accept, Scheduled
  <2>2. /\ turn[t].at = "idle" /\ turn'[t].at = at
        /\ \A s \in Turns : s # t => turn'[s] = turn[s]
    <3>1. at \in Ats \ {"idle"} /\ [at |-> at, user |-> u].at = at
      BY DEF Ats
    <3>2. QED
      BY <1>t, <2>1, <3>1, TurnBegins
  <2>3. history' = history /\ torn' = torn /\ dirty' = dirty
    BY <1>8 DEF Accept, Scheduled, table
  <2>4. QED
    BY <1>4, <2>2, <2>3
<1>9. ASSUME NEW t \in Turns, ReadHistory(t) \/ NothingToSave(t) \/ Replied(t)
      PROVE  Tidy'
  <2>1. PICK at \in {"running", "asking", "sending"} : Moves(t, at)
    BY <1>9 DEF ReadHistory, NothingToSave, Replied
  <2>2. turn[t].at # "idle" /\ turn[t].at # "answering"
    BY <1>9 DEF ReadHistory, NothingToSave, Replied
  <2>3. turn'[t].at = at /\ \A s \in Turns : s # t => turn'[s] = turn[s]
    BY <1>t, <2>1, <2>2, TurnMoves DEF Ats
  <2>4. history' = history /\ torn' = torn /\ dirty' = dirty
    BY <1>9 DEF ReadHistory, NothingToSave, Replied, table
  <2>5. QED
    BY <1>4, <2>2, <2>3, <2>4
<1>10. ASSUME NEW t \in Turns, Sent(t) \/ Fails(t), turn[t].at # "answering"
       PROVE  Tidy'
  <2>1. turn'[t].at = "idle" /\ \A s \in Turns : s # t => turn'[s] = turn[s]
    BY <1>10, <1>t, TurnEnds DEF Sent, Fails
  <2>2. history' = history /\ torn \ {t} \subseteq torn' /\ dirty' = dirty
    BY <1>10 DEF Sent, Fails, table
  <2>3. QED
    BY <1>4, <1>10, <2>1, <2>2
<1>11. QED
  BY <1>1, <1>2, <1>3, <1>5, <1>6, <1>7, <1>8, <1>9, <1>10
  DEF Next, TurnStep, vars, process, limiter, BackendStarts, Tick, Refuse, Sent

LEMMA ConversationInvariant == Spec => []ConversationInv
<1>1. ConversationInv /\ [Next]_vars => ConversationInv'
  BY TypeStep, LimiterStep, TidyStep DEF ConversationInv
<1>2. QED
  BY <1>1, InitConversation, PTL DEF Spec

-----------------------------------------------------------------------------
\* Every variable keeps its type, and no history outgrows its cap.
THEOREM TypeCorrect == Spec => []TypeOK
  BY ConversationInvariant, PTL DEF ConversationInv

\* Under any cap on the history, all rows of a history at rest that were written
\* after the last disturbance (overlapping turns, a `clear`, an exit or a failure
\* between the two rows) are whole exchanges.
THEOREM WholeHistories == Spec => []ExchangesWhole
<1>1. ConversationInv => ExchangesWhole
  BY DEF ConversationInv, TypeOK, Tidy, TidyFor, InOrder, Alternate, Complete,
         ExchangesWhole, WholeExchanges
<1>2. QED
  BY <1>1, ConversationInvariant, PTL

\* The limiter's forgetting never changes its verdict.
LEMMA Exactly == ConversationInv => LimitsExactly
<1> SUFFICES ASSUME ConversationInv, NEW u \in Users
             PROVE  Limited(u) <=> (IF u \in seen THEN since[u] ELSE uptime) < Window
  BY DEF LimitsExactly
<1>1. since[u] \in Int /\ uptime \in Int /\ uptime <= Window /\ Window \in Nat
  BY MemoryOfAWindow, LimiterAssumption DEF ConversationInv, TypeOK
<1>2. CASE u \in Remembered
  BY <1>2 DEF Limited, Remembered, ConversationInv, TypeOK
<1>3. CASE u \notin Remembered /\ u \in seen
  <2>1. since[u] >= Window
    BY <1>3, ForgottenLongAgo DEF ConversationInv
  <2>2. since[u] <= uptime \/ uptime = Window
    BY <1>3 DEF ConversationInv, LimiterInv
  <2>3. QED
    BY <1>1, <1>3, <2>1, <2>2 DEF Limited
<1>4. CASE u \notin Remembered /\ u \notin seen
  BY <1>4 DEF Limited
<1>5. QED
  BY <1>2, <1>3, <1>4

\* The limiter refuses exactly those it let through less than a window ago and,
\* while the clock has not run for a window, everybody it never let through.
THEOREM LimiterExact == Spec => []LimitsExactly
  BY Exactly, ConversationInvariant, PTL

\* While the process lives, a user's messages begin turns at least a window
\* apart.
THEOREM SpacedOut == Spec => TurnsSpacedOut
<1>1. ConversationInv /\ [Next]_vars =>
        [\A t \in Turns :
           /\ turn'[t].at = "message" /\ turn[t].at # "message"
           /\ turn'[t].user \in seen
           => since[turn'[t].user] >= Window]_vars
  <2> SUFFICES ASSUME ConversationInv, Next, NEW t \in Turns,
                      turn'[t].at = "message", turn[t].at # "message", turn'[t].user \in seen
               PROVE  since[turn'[t].user] >= Window
    BY DEF vars
  <2>a. turn \in [Turns -> [at : Ats, user : Users \union {NoUser}]]
    BY DEF ConversationInv, TypeOK
  <2>b. turn' # turn /\ turn' # [s \in Turns |-> IdleTurn]
    BY DEF IdleTurn
  <2>c. ASSUME NEW s \in Turns
        PROVE  ~TurnStep(s)
    <3>1. ~Ends(s)
      BY <2>a DEF Ends, IdleTurn
    <3>2. \A at \in {"running", "asking", "answering", "sending"} : ~Moves(s, at)
      BY <2>a DEF Moves
    <3>3. QED
      BY <3>1, <3>2 DEF TurnStep, ReadHistory, NothingToSave, Replied, AppendQuestion,
                       AppendAnswer, Fails, Sent
  <2>d. ASSUME NEW u \in Users, NEW s \in Turns, Scheduled(u, s)
        PROVE  FALSE
    BY <2>a, <2>d DEF Scheduled, Begins
  <2>e. ASSUME NEW u \in Users, NEW s \in Turns, Accept(u, s)
        PROVE  s = t
    BY <2>a, <2>e DEF Accept, Begins
  <2>1. PICK u \in Users : Accept(u, t)
    BY <2>b, <2>c, <2>d, <2>e DEF Next, BackendStarts, Exit, Tick, Refuse, Clear, process
  <2>2. turn'[t].user = u /\ ~Limited(u)
    BY <2>1 DEF Accept, Begins, ConversationInv, TypeOK
  <2>3. ~(since[u] < Window)
    BY <2>2, Exactly DEF LimitsExactly
  <2>4. since[u] \in Int /\ Window \in Int
    BY MemoryOfAWindow, LimiterAssumption DEF ConversationInv, TypeOK
  <2>5. QED
    BY <2>2, <2>3, <2>4
<1>2. QED
  BY <1>1, ConversationInvariant, PTL DEF Spec, TurnsSpacedOut
=============================================================================
