------------------------- MODULE SessionHistoryProofs -------------------------
(***************************************************************************)
(* Proofs about SessionHistory, for any number of turns, host threads,     *)
(* messages and tool calls.                                                *)
(***************************************************************************)
EXTENDS SessionHistory, FiniteSetTheorems, SequenceTheorems,
        WellFoundedInduction, TLAPS

Users == Messages \cup Turns \cup {<<"answer", t>> : t \in Turns}

\* Rows that are appended one by one, and those a turn's segment is made of.
PlainRows ==
  [role : {"user"}, m : Users]
    \cup [role : {"asking_human"}, by : Turns, int : BOOLEAN]
    \cup [role : {"turn_aborted"}, by : Turns]

TurnRows ==
  [role : {"tool_calls"}, turn : Turns, call : Nat, done : BOOLEAN, int : BOOLEAN]
    \cup [role : {"assistant"}, turn : Turns, int : BOOLEAN]

AllRows == PlainRows \cup TurnRows

Records == [rows : Seq(AllRows), titled : BOOLEAN, exists : BOOLEAN]

Mutations ==
  [op : {"append"}, seen : Records, row : PlainRows]
    \cup [op : {"segment"}, seen : Records, turn : Turns, segment : Seq(TurnRows)]
    \cup [op : {"remove"}, seen : Records, m : Messages]
    \cup [op : {"mark"}, seen : Records, turn : Turns]
    \cup [op : {"clear", "delete"}, seen : Records]

Traces == [calls : 0 .. MaxCalls, open : BOOLEAN, final : BOOLEAN]

Busy(p) == io[p] # NoIO

\* Every variable has its type; a mutation read a record that was there, and a
\* turn writes its own segment only.
TypeInv ==
  /\ TypeOK
  /\ rec \in Records
  /\ io \in [Procs -> Mutations \cup {NoIO}]
  /\ trace \in [Turns -> Traces]
  /\ injected \subseteq Messages
  /\ cleared \in BOOLEAN /\ raced \in BOOLEAN /\ crashed \in BOOLEAN
  /\ joined \subseteq Turns
  /\ saved \in [Turns -> Seq(TurnRows)]
  /\ \A p \in Procs : Busy(p) => io[p].seen.exists
  /\ \A p \in Procs : io[p].op = "segment" =>
       p \in Turns /\ io[p].turn = p /\ Len(io[p].segment) <= MaxCalls + 1

Finished == {t \in Turns : pc[t] = "done" /\ trace[t].final}

\* The rows of a turn that are not marked interrupted are of one of these turns.
Marked(rows, turns) ==
  \A i \in 1 .. Len(rows) : \A t \in Turns :
    OfTurn(rows[i], t) /\ ~rows[i].int => t \in turns

\* A mutation that resolves the question of a turn, if it is of the host.
Resolving(x, t) ==
  \/ x.op = "mark" /\ x.turn = t
  \/ x.op = "append" /\ x.row = UserRow(<<"answer", t>>)

\* A question has one call that resolves it, and the turn waits for that call.
ResolveInv ==
  \A h \in Hosts, t \in Turns : Resolving(io[h], t) =>
    /\ pc[t] = "answering"
    /\ \A g \in Hosts : Resolving(io[g], t) => g = h

\* Neither the record nor any copy of it has an unmarked row of a turn that did not
\* finish, even after writers overlapped.
MarkInv ==
  /\ Marked(rec.rows, Finished)
  /\ \A p \in Procs : Busy(p) => Marked(io[p].seen.rows, Finished)
  /\ \A p \in Procs : io[p].op = "segment" => Marked(io[p].segment, Finished)

\* The row of a message is in rows, and there once; p is about to add it.
Has(rows, m) == \E i \in 1 .. Len(rows) : rows[i] = UserRow(m)
Single(rows, m) ==
  \A i, j \in 1 .. Len(rows) : rows[i] = UserRow(m) /\ rows[j] = UserRow(m) => i = j
Adds(p, m) == io[p].op = "append" /\ io[p].row = UserRow(m)

\* A message is in a record only once its injection was acknowledged; the call
\* that will do that is the only one.
AddInv ==
  \A m \in Messages :
    /\ Has(rec.rows, m) => m \in acked
    /\ \A p \in Procs : Busy(p) /\ Has(io[p].seen.rows, m) => m \in acked
    /\ \A p \in Procs : Adds(p, m) =>
         /\ m \in injected \ acked
         /\ \A q \in Procs : Adds(q, m) => q = p
    /\ \A p \in Procs : io[p].op = "remove" /\ io[p].m = m =>
         m \in acked /\ Has(io[p].seen.rows, m)

\* As long as no two writers overlapped the record has what the host was told.
TellInv ==
  ~raced => \A m \in Messages :
    /\ Single(rec.rows, m)
    /\ m \in retracted => ~Has(rec.rows, m)
    /\ ~cleared /\ m \in acked \ retracted => Has(rec.rows, m)

\* A turn has each call once in the rows.
OnceEach(rows, t) ==
  \A i, j \in 1 .. Len(rows) :
    /\ rows[i].role = "tool_calls" /\ rows[j].role = "tool_calls"
    /\ rows[i].turn = t /\ rows[j].turn = t /\ rows[i].call = rows[j].call
    => i = j

\* The rows of s stand together in rows.
Block(rows, s) ==
  \E i \in 0 .. Len(rows) - Len(s) : \A k \in 1 .. Len(s) : rows[i + k] = s[k]

\* Every row of s is of turn t.
AllOf(s, t) == \A k \in 1 .. Len(s) : OfTurn(s[k], t)

\* A turn writes rows of its own, each call once.
SegmentInv ==
  \A p \in Procs : io[p].op = "segment" =>
    AllOf(io[p].segment, p) /\ OnceEach(io[p].segment, p)

\* The rows a turn saved stand together, but for what overlaps and a cleared record
\* allow.
KeepInv ==
  /\ \A t \in Turns : AllOf(saved[t], t)
  /\ ~raced /\ ~cleared =>
       \A t \in Turns : saved[t] # <<>> => Block(rec.rows, saved[t])

SameCall(rows, t, i, j) ==
  /\ rows[i].role = "tool_calls" /\ rows[j].role = "tool_calls"
  /\ rows[i].turn = t /\ rows[j].turn = t /\ rows[i].call = rows[j].call

\* Between two rows of one call of t stands a row that is not of t.
Apart(rows, t) ==
  \A i, j \in 1 .. Len(rows) : i < j /\ SameCall(rows, t, i, j) =>
    \E l \in i + 1 .. j - 1 : ~OfTurn(rows[l], t)

\* The record and every copy of it have the calls of a turn apart.
ApartInv ==
  \A t \in Turns \ joined :
    /\ Apart(rec.rows, t)
    /\ \A p \in Procs : Busy(p) => Apart(io[p].seen.rows, t)

\* The inductive invariant.
IInv ==
  TypeInv /\ ResolveInv /\ MarkInv /\ AddInv /\ TellInv /\ SegmentInv /\ KeepInv
    /\ ApartInv
-----------------------------------------------------------------------------
(* What the operations of mutation.rs do to the rows *)

\* A set of numbers that is not empty has a least one.
LEMMA LeastNumber ==
  ASSUME NEW T \in SUBSET Nat, T # {}
  PROVE  \E x \in T : \A y \in T : x <= y
<1>1. IsWellFoundedOn(OpToRel(<, Nat), Nat)
  BY NatLessThanWellFounded
<1>2. PICK x \in T : \A y \in T : ~ (<<y, x>> \in OpToRel(<, Nat))
  BY <1>1, WFMin
<1>3. ASSUME NEW y \in T PROVE x <= y
  <2>1. ~ (<<y, x>> \in {ss \in Nat \X Nat : ss[1] < ss[2]})
    BY <1>2 DEF OpToRel
  <2> QED BY <2>1
<1> QED BY <1>3

\* One that is bounded has a greatest one.
LEMMA GreatestNumber ==
  ASSUME NEW n \in Nat, NEW T \in SUBSET (0 .. n), T # {}
  PROVE  \E x \in T : \A y \in T : y <= x
<1> DEFINE U == {n - x : x \in T}
<1>1. U \in SUBSET Nat /\ U # {}
  <2>1. ASSUME NEW x \in T PROVE n - x \in Nat /\ n - x \in U
    OBVIOUS
  <2>2. U \in SUBSET Nat
    BY <2>1
  <2>3. U # {}
    BY <2>1
  <2> QED BY <2>2, <2>3
<1>2. PICK u \in U : \A y \in U : u <= y
  BY <1>1, LeastNumber
<1>3. PICK x \in T : u = n - x
  OBVIOUS
<1>4. \A y \in T : n - y \in U
  OBVIOUS
<1> HIDE DEF U
<1>5. \A y \in T : u <= n - y
  BY <1>2, <1>4
<1>6. \A y \in T : y <= x
  BY <1>3, <1>5
<1> QED BY <1>6

\* WithoutTail cuts the rows of the turn at the end of the record, all of them and
\* nothing else (replace_turn_segment pops them one by one).
LEMMA TailIsTurns ==
  ASSUME NEW rows \in Seq(AllRows), NEW t \in Turns
  PROVE  \E n \in 0 .. Len(rows) :
           /\ WithoutTail(rows, t) = SubSeq(rows, 1, n)
           /\ n = 0 \/ ~OfTurn(rows[n], t)
           /\ \A i \in n + 1 .. Len(rows) : OfTurn(rows[i], t)
<1> DEFINE T == {0} \cup {i \in 1 .. Len(rows) : ~OfTurn(rows[i], t)}
           P(n) == /\ n = 0 \/ ~OfTurn(rows[n], t)
                   /\ \A i \in n + 1 .. Len(rows) : OfTurn(rows[i], t)
           c == CHOOSE n \in 0 .. Len(rows) : P(n)
<1>1. Len(rows) \in Nat
  BY LenProperties
<1>2. PICK n \in T : \A i \in T : i <= n
  <2>1. T # {} /\ T \in SUBSET (0 .. Len(rows))
    BY <1>1
  <2> HIDE DEF T
  <2> QED BY <1>1, <2>1, GreatestNumber
<1>3. P(n) /\ n \in 0 .. Len(rows)
  BY <1>1, <1>2
<1>4. c \in 0 .. Len(rows) /\ P(c)
  BY <1>3
<1>5. WithoutTail(rows, t) = SubSeq(rows, 1, c)
  BY DEF WithoutTail
<1> QED BY <1>4, <1>5

\* new is old up to n, without a tail of the turn, and then the segment s.
Spliced(old, new, t, s, n) ==
  /\ Len(new) = n + Len(s)
  /\ \A i \in 1 .. n : new[i] = old[i]
  /\ \A i \in 1 .. Len(s) : new[n + i] = s[i]
  /\ n = 0 \/ ~OfTurn(old[n], t)
  /\ \A i \in n + 1 .. Len(old) : OfTurn(old[i], t)

\* What replace_turn_segment leaves: the rows before the tail, then the segment.
LEMMA SegmentReplaced ==
  ASSUME NEW r \in Records, NEW t \in Turns, NEW s \in Seq(TurnRows)
  PROVE  /\ ReplaceTurnSegment(r, t, s) \in Records
         /\ ReplaceTurnSegment(r, t, s).exists = r.exists
         /\ \E n \in 0 .. Len(r.rows) :
              Spliced(r.rows, ReplaceTurnSegment(r, t, s).rows, t, s, n)
<1> DEFINE rows == r.rows
           new == WithoutTail(rows, t) \o s
<1>1. /\ rows \in Seq(AllRows) /\ s \in Seq(AllRows)
      /\ Len(rows) \in Nat /\ Len(s) \in Nat
  <2>1. rows \in Seq(AllRows)
    BY DEF Records
  <2>2. s \in Seq(AllRows)
    BY SeqMonotonic, TurnRows \subseteq AllRows DEF AllRows
  <2> QED BY <2>1, <2>2, LenProperties
<1>2. /\ ReplaceTurnSegment(r, t, s) = [r EXCEPT !.rows = new]
      /\ r = [rows |-> r.rows, titled |-> r.titled, exists |-> r.exists]
  BY DEF ReplaceTurnSegment, Records
<1> HIDE DEF rows
<1>3. PICK n \in 0 .. Len(rows) :
        /\ WithoutTail(rows, t) = SubSeq(rows, 1, n)
        /\ n = 0 \/ ~OfTurn(rows[n], t)
        /\ \A i \in n + 1 .. Len(rows) : OfTurn(rows[i], t)
  BY <1>1, TailIsTurns
<1> DEFINE front == SubSeq(rows, 1, n)
<1>4. /\ front \in Seq(AllRows) /\ Len(front) = n
      /\ \A i \in 1 .. n : front[i] = rows[i]
  <2>1. n \in Int /\ 1 \in Int /\ \A i \in 1 .. n : rows[i] \in AllRows
    BY <1>1, ElementOfSeq
  <2>2. /\ front \in Seq(AllRows)
        /\ Len(front) = IF 1 <= n THEN n - 1 + 1 ELSE 0
        /\ \A i \in 1 .. n - 1 + 1 : front[i] = rows[1 + i - 1]
    BY ONLY <2>1, SubSeqProperties
  <2> QED BY <2>1, <2>2
<1>5. new = front \o s
  BY <1>3
<1> HIDE DEF front, new
<1>6. /\ new \in Seq(AllRows) /\ Len(new) = n + Len(s)
      /\ \A i \in 1 .. n + Len(s) : new[i] = IF i <= n THEN front[i] ELSE s[i - n]
  BY <1>1, <1>4, <1>5, ConcatProperties
<1>7. /\ \A i \in 1 .. n : new[i] = rows[i]
      /\ \A i \in 1 .. Len(s) : new[n + i] = s[i]
  BY <1>1, <1>4, <1>6
<1>8. /\ ReplaceTurnSegment(r, t, s) \in Records
      /\ ReplaceTurnSegment(r, t, s).exists = r.exists
      /\ ReplaceTurnSegment(r, t, s).rows = new
  BY <1>2, <1>6 DEF Records
<1>9. Spliced(rows, new, t, s, n)
  BY <1>3, <1>6, <1>7 DEF Spliced
<1> QED BY <1>8, <1>9 DEF rows

\* What remove_latest_user_message leaves: every row but one, which was the message.
LEMMA UserRemoved ==
  ASSUME NEW r \in Records, NEW m \in Messages, Has(r.rows, m)
  PROVE  /\ RemoveLatestUser(r, m) \in Records
         /\ RemoveLatestUser(r, m).exists = r.exists
         /\ \E last \in 1 .. Len(r.rows) :
              LET new == RemoveLatestUser(r, m).rows IN
              /\ r.rows[last] = UserRow(m)
              /\ Len(new) = Len(r.rows) - 1
              /\ \A i \in 1 .. last - 1 : new[i] = r.rows[i]
              /\ \A i \in last .. Len(r.rows) - 1 : new[i] = r.rows[i + 1]
<1> DEFINE rows == r.rows
           U == UserIndexes(r, m)
           last == CHOOSE i \in U : \A j \in U : j <= i
           a == SubSeq(rows, 1, last - 1)
           b == SubSeq(rows, last + 1, Len(rows))
<1>1. rows \in Seq(AllRows) /\ Len(rows) \in Nat
  BY LenProperties DEF Records
<1>2. U # {} /\ U \in SUBSET (0 .. Len(rows)) /\ U \in SUBSET (1 .. Len(rows))
  BY <1>1 DEF UserIndexes, Has
<1> HIDE DEF U
<1>3. \E i \in U : \A j \in U : j <= i
  BY <1>1, <1>2, GreatestNumber
<1>4. last \in U
  BY <1>3
<1>5. last \in 1 .. Len(rows) /\ rows[last] = UserRow(m)
  BY <1>4 DEF U, UserIndexes
<1>6. /\ RemoveLatestUser(r, m) = [r EXCEPT !.rows = a \o b]
      /\ r = [rows |-> r.rows, titled |-> r.titled, exists |-> r.exists]
  BY DEF RemoveLatestUser, U, Records
<1> HIDE DEF last, rows
<1>7. /\ a \in Seq(AllRows) /\ Len(a) = last - 1
      /\ \A i \in 1 .. last - 1 : a[i] = rows[i]
  <2>1. last - 1 \in Int /\ 1 \in Int /\ \A i \in 1 .. last - 1 : rows[i] \in AllRows
    BY <1>1, <1>5, ElementOfSeq
  <2>2. /\ a \in Seq(AllRows)
        /\ Len(a) = IF 1 <= last - 1 THEN (last - 1) - 1 + 1 ELSE 0
        /\ \A i \in 1 .. (last - 1) - 1 + 1 : a[i] = rows[1 + i - 1]
    BY ONLY <2>1, SubSeqProperties
  <2> QED BY <1>5, <2>1, <2>2
<1>8. /\ b \in Seq(AllRows) /\ Len(b) = Len(rows) - last
      /\ \A i \in 1 .. Len(rows) - last : b[i] = rows[i + last]
  <2>1. /\ last + 1 \in Int /\ Len(rows) \in Int
        /\ \A i \in last + 1 .. Len(rows) : rows[i] \in AllRows
    BY <1>1, <1>5, ElementOfSeq
  <2>2. /\ b \in Seq(AllRows)
        /\ Len(b) = IF last + 1 <= Len(rows) THEN Len(rows) - (last + 1) + 1 ELSE 0
        /\ \A i \in 1 .. Len(rows) - (last + 1) + 1 : b[i] = rows[(last + 1) + i - 1]
    BY ONLY <2>1, SubSeqProperties
  <2>3. last \in Int /\ Len(rows) \in Int /\ last <= Len(rows)
    BY <1>1, <1>5
  <2>4. Len(b) = Len(rows) - last
    BY <2>2, <2>3
  <2>5. ASSUME NEW i \in 1 .. Len(rows) - last PROVE b[i] = rows[i + last]
    <3>1. b[i] = rows[(last + 1) + i - 1] /\ (last + 1) + i - 1 = i + last
      BY <2>2, <2>3
    <3> QED BY <3>1
  <2> QED BY <2>2, <2>4, <2>5
<1> DEFINE new == a \o b
<1> HIDE DEF a, b
<1>9. /\ new \in Seq(AllRows) /\ Len(new) = Len(a) + Len(b)
      /\ \A i \in 1 .. Len(a) + Len(b) :
           new[i] = IF i <= Len(a) THEN a[i] ELSE b[i - Len(a)]
  BY <1>7, <1>8, ConcatProperties
<1>10. /\ RemoveLatestUser(r, m) \in Records
       /\ RemoveLatestUser(r, m).exists = r.exists
       /\ RemoveLatestUser(r, m).rows = new
  BY <1>6, <1>9 DEF Records
<1> HIDE DEF new
<1>11. /\ Len(new) = Len(rows) - 1
       /\ \A i \in 1 .. last - 1 : new[i] = rows[i]
       /\ \A i \in last .. Len(rows) - 1 : new[i] = rows[i + 1]
  <2>1. Len(new) = Len(rows) - 1
    BY <1>1, <1>5, <1>7, <1>8, <1>9
  <2>2. ASSUME NEW i \in 1 .. last - 1 PROVE new[i] = rows[i]
    <3>1. i \in 1 .. Len(a) + Len(b) /\ i <= Len(a)
      BY <1>1, <1>5, <1>7, <1>8
    <3> QED BY <1>7, <1>9, <3>1
  <2>3. ASSUME NEW i \in last .. Len(rows) - 1 PROVE new[i] = rows[i + 1]
    <3>1. i - (last - 1) \in 1 .. Len(rows) - last /\ i - (last - 1) + last = i + 1
      BY <1>1, <1>5
    <3>2. i \in 1 .. Len(a) + Len(b) /\ ~(i <= Len(a)) /\ Len(a) = last - 1
      BY <1>1, <1>5, <1>7, <1>8
    <3>3. new[i] = b[i - (last - 1)]
      BY <1>9, <3>2
    <3> QED BY <1>8, <3>1, <3>3
  <2> QED BY <2>1, <2>2, <2>3
<1> QED BY <1>5, <1>10, <1>11 DEF rows

\* Two sequences with one domain have one length.
LEMMA SameLength ==
  ASSUME NEW m \in Nat, NEW n \in Nat, 1 .. m = 1 .. n
  PROVE  m = n
<1>1. CASE m < n
  <2>1. n \in 1 .. n /\ n \notin 1 .. m
    BY <1>1
  <2> QED BY <2>1
<1>2. CASE n < m
  <2>1. m \in 1 .. m /\ m \notin 1 .. n
    BY <1>2
  <2> QED BY <2>1
<1> QED BY <1>1, <1>2

\* What append_messages leaves: the rows before, then the new one.
LEMMA RowAppended ==
  ASSUME NEW r \in Records, NEW row \in PlainRows
  PROVE  /\ AppendRow(r, row) \in Records
         /\ AppendRow(r, row).exists = r.exists
         /\ LET new == AppendRow(r, row).rows IN
              /\ Len(new) = Len(r.rows) + 1
              /\ \A i \in 1 .. Len(r.rows) : new[i] = r.rows[i]
              /\ new[Len(r.rows) + 1] = row
<1>1. /\ r.rows \in Seq(AllRows) /\ row \in AllRows
  BY DEF Records, AllRows
<1> DEFINE new == Append(r.rows, row)
<1>2. /\ new \in Seq(AllRows) /\ Len(new) = Len(r.rows) + 1
      /\ \A i \in 1 .. Len(r.rows) : new[i] = r.rows[i]
      /\ new[Len(r.rows) + 1] = row
  BY <1>1, AppendProperties
<1> DEFINE titled == r.titled \/ row.role = "user"
<1>3. AppendRow(r, row) = [r EXCEPT !.rows = new, !.titled = titled]
  BY DEF AppendRow
<1>5. titled \in BOOLEAN
  OBVIOUS
<1> HIDE DEF new, titled
<1>4. /\ AppendRow(r, row) \in Records /\ AppendRow(r, row).exists = r.exists
      /\ AppendRow(r, row).rows = new
  BY <1>2, <1>3, <1>5 DEF Records
<1> QED BY <1>2, <1>4

\* What mark_asking_human_interrupted leaves: the rows before, the open question of
\* the turn marked.
LEMMA AskingMarked ==
  ASSUME NEW r \in Records, NEW t \in Turns
  PROVE  /\ MarkAsking(r, t) \in Records
         /\ MarkAsking(r, t).exists = r.exists
         /\ LET new == MarkAsking(r, t).rows IN
              /\ Len(new) = Len(r.rows)
              /\ \A i \in 1 .. Len(r.rows) :
                   new[i] = IF r.rows[i] = AskingRow(t, FALSE)
                            THEN AskingRow(t, TRUE) ELSE r.rows[i]
<1> DEFINE rows == r.rows
           new == [i \in 1 .. Len(rows) |-> IF rows[i] = AskingRow(t, FALSE)
                                            THEN AskingRow(t, TRUE) ELSE rows[i]]
<1>1. /\ rows \in Seq(AllRows) /\ Len(rows) \in Nat /\ DOMAIN rows = 1 .. Len(rows)
  BY LenProperties DEF Records
<1>2. MarkAsking(r, t) = [r EXCEPT !.rows = new]
  <2>1. DOMAIN r.rows = 1 .. Len(r.rows)
    BY <1>1
  <2>2. MarkAsking(r, t) = [r EXCEPT !.rows = [i \in DOMAIN r.rows |->
          IF r.rows[i] = AskingRow(t, FALSE) THEN AskingRow(t, TRUE) ELSE r.rows[i]]]
    BY DEF MarkAsking, Records
  <2> QED BY <2>1, <2>2
<1> HIDE DEF rows
<1>3. ASSUME NEW i \in 1 .. Len(rows) PROVE new[i] \in AllRows
  <2>1. rows[i] \in AllRows
    BY <1>1, ElementOfSeq
  <2>2. AskingRow(t, TRUE) \in AllRows
    BY DEF AskingRow, AllRows, PlainRows
  <2> QED BY <2>1, <2>2
<1>4. new \in [1 .. Len(rows) -> AllRows]
  BY <1>3
<1>5. new \in Seq(AllRows)
  BY <1>1, <1>4, SeqDef
<1>6. Len(new) = Len(rows)
  <2>1. DOMAIN new = 1 .. Len(new) /\ Len(new) \in Nat
    BY <1>5, LenProperties
  <2>2. DOMAIN new = 1 .. Len(rows)
    OBVIOUS
  <2> HIDE DEF new
  <2>3. Len(rows) \in Nat
    BY <1>1
  <2> QED BY ONLY <2>1, <2>2, <2>3, SameLength
<1>7. \A i \in 1 .. Len(rows) : new[i] = IF rows[i] = AskingRow(t, FALSE)
                                         THEN AskingRow(t, TRUE) ELSE rows[i]
  OBVIOUS
<1> HIDE DEF new
<1>8. /\ MarkAsking(r, t) \in Records /\ MarkAsking(r, t).exists = r.exists
      /\ MarkAsking(r, t).rows = new
  BY <1>1, <1>2, <1>5 DEF Records
<1> QED BY <1>6, <1>7, <1>8 DEF rows

\* Rows of different kinds differ, and a row of a turn is of one turn.
LEMMA RowKinds ==
  /\ \A row \in PlainRows, t \in Turns : ~OfTurn(row, t)
  /\ \A row \in AllRows, t \in Turns, m \in Users :
       OfTurn(row, t) => row # UserRow(m)
  /\ \A row \in AllRows, t, u \in Turns, b \in BOOLEAN :
       OfTurn(row, t) => row # AskingRow(u, b)
  /\ \A row \in TurnRows, m \in Users : row # UserRow(m)
  /\ \A u \in Turns, b \in BOOLEAN, m \in Users : AskingRow(u, b) # UserRow(m)
  /\ \A t, u \in Turns, b \in BOOLEAN : ~OfTurn(AskingRow(u, b), t)
  /\ \A m \in Users, t \in Turns : ~OfTurn(UserRow(m), t)
  /\ \A m, n \in Users : UserRow(m) = UserRow(n) => m = n
  /\ \A row \in AllRows, t \in Turns :
       row.role = "tool_calls" /\ row.turn = t => OfTurn(row, t)
  /\ \A row \in AllRows, t, u \in Turns : OfTurn(row, t) /\ OfTurn(row, u) => t = u
BY DEF PlainRows, TurnRows, AllRows, OfTurn, UserRow, AskingRow

\* Each mutation of a record gives a record, and only a delete one without a file.
LEMMA AppliedIsRecord ==
  ASSUME NEW x \in Mutations, x.op = "remove" => Has(x.seen.rows, x.m)
  PROVE  /\ x.seen \in Records /\ Apply(x.seen, x) \in Records
         /\ x.seen.exists => Apply(x.seen, x).exists \/ x.op = "delete"
         /\ x.op = "delete" => Apply(x.seen, x) = Gone
<1>0. x.seen \in Records
  BY DEF Mutations
<1>1. CASE x.op = "append"
  <2>1. x.row \in PlainRows /\ Apply(x.seen, x) = AppendRow(x.seen, x.row)
    BY <1>1 DEF Mutations, Apply
  <2> QED BY <1>0, <1>1, <2>1, RowAppended
<1>2. CASE x.op = "segment"
  <2>1. /\ x.turn \in Turns /\ x.segment \in Seq(TurnRows)
        /\ Apply(x.seen, x) = ReplaceTurnSegment(x.seen, x.turn, x.segment)
    BY <1>2 DEF Mutations, Apply
  <2> QED BY <1>0, <1>2, <2>1, SegmentReplaced
<1>3. CASE x.op = "remove"
  <2>1. x.m \in Messages /\ Apply(x.seen, x) = RemoveLatestUser(x.seen, x.m)
    BY <1>3 DEF Mutations, Apply
  <2> QED BY <1>0, <1>3, <2>1, UserRemoved
<1>4. CASE x.op = "mark"
  <2>1. x.turn \in Turns /\ Apply(x.seen, x) = MarkAsking(x.seen, x.turn)
    BY <1>4 DEF Mutations, Apply
  <2> QED BY <1>0, <1>4, <2>1, AskingMarked
<1>5. CASE x.op = "clear"
  <2>1. Apply(x.seen, x) = [x.seen EXCEPT !.rows = <<>>]
    BY <1>5 DEF Apply
  <2> QED BY <1>0, <1>5, <2>1, EmptySeq DEF Records
<1>6. CASE x.op = "delete"
  <2>1. Apply(x.seen, x) = Gone
    BY <1>6 DEF Apply
  <2> QED BY <1>0, <1>6, <2>1, EmptySeq DEF Records, Gone
<1> QED BY <1>1, <1>2, <1>3, <1>4, <1>5, <1>6 DEF Mutations

\* A clear and a delete leave no rows.
LEMMA NoRowsLeft ==
  ASSUME NEW x \in Mutations, x.op \in {"clear", "delete"}
  PROVE  Apply(x.seen, x).rows = <<>> /\ Len(Apply(x.seen, x).rows) = 0
<1>1. x.seen \in Records
  BY DEF Mutations
<1>2. CASE x.op = "clear"
  <2>1. Apply(x.seen, x) = [x.seen EXCEPT !.rows = <<>>]
    BY <1>2 DEF Apply
  <2> QED BY <1>1, <2>1, EmptySeq DEF Records
<1>3. CASE x.op = "delete"
  <2>1. Apply(x.seen, x) = Gone
    BY <1>3 DEF Apply
  <2> QED BY <2>1, EmptySeq DEF Gone
<1> QED BY <1>2, <1>3

\* The rows before and after a mutation that is through with its write.
Before(x) == x.seen.rows
After(x)  == Apply(x.seen, x).rows

\* The rows before and after a write are sequences of rows.
LEMMA RowLists ==
  ASSUME NEW x \in Mutations, x.op = "remove" => Has(x.seen.rows, x.m)
  PROVE  /\ Before(x) \in Seq(AllRows) /\ Len(Before(x)) \in Nat
         /\ After(x) \in Seq(AllRows) /\ Len(After(x)) \in Nat
         /\ \A i \in 1 .. Len(Before(x)) : Before(x)[i] \in AllRows
         /\ \A i \in 1 .. Len(After(x)) : After(x)[i] \in AllRows
<1>1. Before(x) \in Seq(AllRows) /\ After(x) \in Seq(AllRows)
  BY AppliedIsRecord DEF Records, Before, After
<1> QED BY <1>1, LenProperties, ElementOfSeq

\* The rows after an append.
LEMMA AppendIs ==
  ASSUME NEW x \in Mutations, x.op = "append"
  PROVE  /\ x.row \in PlainRows
         /\ Len(After(x)) = Len(Before(x)) + 1
         /\ \A i \in 1 .. Len(Before(x)) : After(x)[i] = Before(x)[i]
         /\ After(x)[Len(Before(x)) + 1] = x.row
<1>1. x.seen \in Records /\ x.row \in PlainRows /\ Apply(x.seen, x) = AppendRow(x.seen, x.row)
  BY DEF Mutations, Apply
<1> QED BY <1>1, RowAppended DEF Before, After

\* The rows after a checkpoint.
LEMMA SegmentIs ==
  ASSUME NEW x \in Mutations, x.op = "segment"
  PROVE  /\ x.turn \in Turns /\ x.segment \in Seq(TurnRows) /\ Len(x.segment) \in Nat
         /\ \E n \in 0 .. Len(Before(x)) :
              Spliced(Before(x), After(x), x.turn, x.segment, n)
<1>1. /\ x.seen \in Records /\ x.turn \in Turns /\ x.segment \in Seq(TurnRows)
      /\ Apply(x.seen, x) = ReplaceTurnSegment(x.seen, x.turn, x.segment)
  BY DEF Mutations, Apply
<1>2. Len(x.segment) \in Nat
  BY <1>1, LenProperties
<1> QED BY <1>1, <1>2, SegmentReplaced DEF Before, After

\* The rows after a retraction.
LEMMA RemoveIs ==
  ASSUME NEW x \in Mutations, x.op = "remove", Has(x.seen.rows, x.m)
  PROVE  /\ x.m \in Messages
         /\ \E last \in 1 .. Len(Before(x)) :
              /\ Before(x)[last] = UserRow(x.m)
              /\ Len(After(x)) = Len(Before(x)) - 1
              /\ \A i \in 1 .. last - 1 : After(x)[i] = Before(x)[i]
              /\ \A i \in last .. Len(Before(x)) - 1 : After(x)[i] = Before(x)[i + 1]
<1>1. /\ x.seen \in Records /\ x.m \in Messages
      /\ Apply(x.seen, x) = RemoveLatestUser(x.seen, x.m)
  BY DEF Mutations, Apply
<1> DEFINE new == RemoveLatestUser(x.seen, x.m).rows
<1>2. \E last \in 1 .. Len(x.seen.rows) :
        /\ x.seen.rows[last] = UserRow(x.m)
        /\ Len(new) = Len(x.seen.rows) - 1
        /\ \A i \in 1 .. last - 1 : new[i] = x.seen.rows[i]
        /\ \A i \in last .. Len(x.seen.rows) - 1 : new[i] = x.seen.rows[i + 1]
  BY <1>1, UserRemoved
<1>3. new = After(x) /\ x.seen.rows = Before(x)
  BY <1>1 DEF Before, After
<1> HIDE DEF new
<1> QED BY <1>1, <1>2, <1>3

\* The rows after a question was marked.
LEMMA MarkIs ==
  ASSUME NEW x \in Mutations, x.op = "mark"
  PROVE  /\ x.turn \in Turns
         /\ Len(After(x)) = Len(Before(x))
         /\ \A i \in 1 .. Len(Before(x)) :
              After(x)[i] = IF Before(x)[i] = AskingRow(x.turn, FALSE)
                            THEN AskingRow(x.turn, TRUE) ELSE Before(x)[i]
<1>1. /\ x.seen \in Records /\ x.turn \in Turns
      /\ Apply(x.seen, x) = MarkAsking(x.seen, x.turn)
  BY DEF Mutations, Apply
<1> DEFINE new == MarkAsking(x.seen, x.turn).rows
<1>2. /\ Len(new) = Len(x.seen.rows)
      /\ \A i \in 1 .. Len(x.seen.rows) :
           new[i] = IF x.seen.rows[i] = AskingRow(x.turn, FALSE)
                    THEN AskingRow(x.turn, TRUE) ELSE x.seen.rows[i]
  BY <1>1, AskingMarked
<1>3. new = After(x) /\ x.seen.rows = Before(x)
  BY <1>1 DEF Before, After
<1> HIDE DEF new
<1> QED BY <1>1, <1>2, <1>3

\* Each row of a record was there before the write, or is what was written.
LEMMA RowOrigin ==
  ASSUME NEW x \in Mutations, x.op = "remove" => Has(x.seen.rows, x.m),
         NEW j \in 1 .. Len(After(x))
  PROVE  \/ \E i \in 1 .. Len(Before(x)) : After(x)[j] = Before(x)[i]
         \/ x.op = "append" /\ After(x)[j] = x.row
         \/ x.op = "segment" /\ \E k \in 1 .. Len(x.segment) : After(x)[j] = x.segment[k]
         \/ x.op = "mark" /\ After(x)[j] = AskingRow(x.turn, TRUE)
<1>0. Len(Before(x)) \in Nat /\ Len(After(x)) \in Nat
  BY RowLists
<1>1. CASE x.op = "append"
  BY <1>0, <1>1, AppendIs
<1>2. CASE x.op = "segment"
  <2>0. PICK n \in 0 .. Len(Before(x)) :
          Spliced(Before(x), After(x), x.turn, x.segment, n)
    BY <1>2, SegmentIs
  <2>1. /\ Len(After(x)) = n + Len(x.segment)
        /\ \A i \in 1 .. n : After(x)[i] = Before(x)[i]
        /\ \A i \in 1 .. Len(x.segment) : After(x)[n + i] = x.segment[i]
    BY <2>0 DEF Spliced
  <2>2. Len(x.segment) \in Nat
    BY <1>2, SegmentIs
  <2>3. CASE j <= n
    <3>1. j \in 1 .. n /\ j \in 1 .. Len(Before(x))
      BY <1>0, <2>3
    <3> QED BY <2>1, <3>1
  <2>4. CASE ~(j <= n)
    <3>1. j - n \in 1 .. Len(x.segment) /\ n + (j - n) = j
      BY <1>0, <2>1, <2>2, <2>4
    <3>2. After(x)[j] = x.segment[j - n]
      BY <2>1, <3>1
    <3> QED BY <1>2, <3>1, <3>2
  <2> QED BY <2>3, <2>4
<1>3. CASE x.op = "remove"
  <2>1. PICK last \in 1 .. Len(Before(x)) :
          /\ Len(After(x)) = Len(Before(x)) - 1
          /\ \A i \in 1 .. last - 1 : After(x)[i] = Before(x)[i]
          /\ \A i \in last .. Len(Before(x)) - 1 : After(x)[i] = Before(x)[i + 1]
    BY <1>3, RemoveIs
  <2>2. CASE j < last
    <3>1. j \in 1 .. last - 1 /\ j \in 1 .. Len(Before(x))
      BY <1>0, <2>2
    <3> QED BY <2>1, <3>1
  <2>3. CASE ~(j < last)
    <3>1. j \in last .. Len(Before(x)) - 1 /\ j + 1 \in 1 .. Len(Before(x))
      BY <1>0, <2>1, <2>3
    <3> QED BY <2>1, <3>1
  <2> QED BY <2>2, <2>3
<1>4. CASE x.op = "mark"
  BY <1>0, <1>4, MarkIs
<1>5. CASE x.op \in {"clear", "delete"}
  <2>1. Len(After(x)) = 0
    BY <1>5, NoRowsLeft DEF After
  <2> QED BY <2>1
<1> QED BY <1>1, <1>2, <1>3, <1>4, <1>5 DEF Mutations

\* A write marks the rows of a turn as interrupted as its writer does.
LEMMA MarksKept ==
  ASSUME NEW x \in Mutations, x.op = "remove" => Has(x.seen.rows, x.m),
         NEW turns, Marked(Before(x), turns),
         x.op = "segment" => Marked(x.segment, turns)
  PROVE  Marked(After(x), turns)
<1> SUFFICES ASSUME NEW j \in 1 .. Len(After(x)), NEW t \in Turns,
                    OfTurn(After(x)[j], t), ~After(x)[j].int
             PROVE  t \in turns
  BY DEF Marked
<1>1. CASE \E i \in 1 .. Len(Before(x)) : After(x)[j] = Before(x)[i]
  BY <1>1 DEF Marked
<1>2. CASE x.op = "append" /\ After(x)[j] = x.row
  <2>1. x.row \in PlainRows
    BY <1>2, AppendIs
  <2> QED BY <1>2, <2>1, RowKinds
<1>3. CASE x.op = "segment" /\ \E k \in 1 .. Len(x.segment) : After(x)[j] = x.segment[k]
  BY <1>3 DEF Marked
<1>4. CASE x.op = "mark" /\ After(x)[j] = AskingRow(x.turn, TRUE)
  <2>1. x.turn \in Turns
    BY <1>4, MarkIs
  <2>2. ~OfTurn(AskingRow(x.turn, TRUE), t)
    BY <2>1 DEF OfTurn, AskingRow
  <2> QED BY <1>4, <2>2
<1> QED BY <1>1, <1>2, <1>3, <1>4, RowOrigin

\* A user row is added by its append only.
LEMMA UserRowOrigin ==
  ASSUME NEW x \in Mutations, x.op = "remove" => Has(x.seen.rows, x.m),
         NEW m \in Messages, Has(After(x), m)
  PROVE  Has(Before(x), m) \/ (x.op = "append" /\ x.row = UserRow(m))
<1>1. PICK j \in 1 .. Len(After(x)) : After(x)[j] = UserRow(m)
  BY DEF Has
<1>0. m \in Users
  BY DEF Users
<1>2. CASE \E i \in 1 .. Len(Before(x)) : After(x)[j] = Before(x)[i]
  BY <1>1, <1>2 DEF Has
<1>3. CASE x.op = "append" /\ After(x)[j] = x.row
  BY <1>1, <1>3
<1>4. CASE x.op = "segment" /\ \E k \in 1 .. Len(x.segment) : After(x)[j] = x.segment[k]
  <2>1. PICK k \in 1 .. Len(x.segment) : After(x)[j] = x.segment[k]
    BY <1>4
  <2>2. x.segment[k] \in TurnRows
    BY <1>4, SegmentIs, ElementOfSeq
  <2> QED BY <1>0, <1>1, <2>1, <2>2, RowKinds
<1>5. CASE x.op = "mark" /\ After(x)[j] = AskingRow(x.turn, TRUE)
  <2>1. x.turn \in Turns
    BY <1>5, MarkIs
  <2> QED BY <1>0, <1>1, <1>5, <2>1, RowKinds
<1> QED BY <1>2, <1>3, <1>4, <1>5, RowOrigin

\* No row of a record is copied: rows that were there before the write come from
\* different places.
Sources(x, f) ==
  /\ f \in [1 .. Len(After(x)) -> 0 .. Len(Before(x))]
  /\ \A i, j \in 1 .. Len(After(x)) : f[i] = f[j] /\ f[i] # 0 => i = j
  /\ \A j \in 1 .. Len(After(x)) : f[j] # 0 =>
       After(x)[j] = Before(x)[f[j]] \/ (x.op = "mark" /\ After(x)[j] = AskingRow(x.turn, TRUE))
  /\ \A j \in 1 .. Len(After(x)) : f[j] = 0 =>
       \/ x.op = "append" /\ j = Len(After(x)) /\ After(x)[j] = x.row
       \/ x.op = "segment" /\ \E k \in 1 .. Len(x.segment) :
            After(x)[j] = x.segment[k] /\ j = k + (Len(After(x)) - Len(x.segment))

\* Every write has such sources.
LEMMA RowSources ==
  ASSUME NEW x \in Mutations, x.op = "remove" => Has(x.seen.rows, x.m)
  PROVE  \E f : Sources(x, f)
<1>0. Len(Before(x)) \in Nat /\ Len(After(x)) \in Nat
  BY RowLists
<1> DEFINE L == Len(Before(x))
           N == Len(After(x))
<1>1. CASE x.op = "append"
  <2> DEFINE f == [j \in 1 .. N |-> IF j <= L THEN j ELSE 0]
  <2>1. Sources(x, f)
    BY <1>0, <1>1, AppendIs DEF Sources
  <2> QED BY <2>1
<1>2. CASE x.op = "segment"
  <2>0. PICK n \in 0 .. L : Spliced(Before(x), After(x), x.turn, x.segment, n)
    BY <1>2, SegmentIs
  <2>1. /\ N = n + Len(x.segment) /\ Len(x.segment) \in Nat
        /\ \A i \in 1 .. n : After(x)[i] = Before(x)[i]
        /\ \A i \in 1 .. Len(x.segment) : After(x)[n + i] = x.segment[i]
    BY <1>2, <2>0, SegmentIs DEF Spliced
  <2> DEFINE f == [j \in 1 .. N |-> IF j <= n THEN j ELSE 0]
  <2>2. f \in [1 .. N -> 0 .. L]
    BY <1>0
  <2>3. ASSUME NEW j \in 1 .. N, f[j] # 0 PROVE After(x)[j] = Before(x)[f[j]]
    BY <1>0, <2>1, <2>3
  <2>4. ASSUME NEW j \in 1 .. N, f[j] = 0
        PROVE  \E k \in 1 .. Len(x.segment) :
                 After(x)[j] = x.segment[k] /\ j = k + (N - Len(x.segment))
    <3>1. j - n \in 1 .. Len(x.segment) /\ n + (j - n) = j
      BY <1>0, <2>1, <2>4
    <3>2. After(x)[j] = x.segment[j - n]
      BY <2>1, <3>1
    <3>3. j = (j - n) + (N - Len(x.segment))
      BY <1>0, <2>1
    <3> QED BY <3>1, <3>2, <3>3
  <2>5. \A i, j \in 1 .. N : f[i] = f[j] /\ f[i] # 0 => i = j
    BY <1>0
  <2> HIDE DEF f
  <2>6. Sources(x, f)
    BY <1>2, <2>2, <2>3, <2>4, <2>5 DEF Sources
  <2> QED BY <2>6
<1>3. CASE x.op = "remove"
  <2>1. PICK last \in 1 .. L :
          /\ N = L - 1
          /\ \A i \in 1 .. last - 1 : After(x)[i] = Before(x)[i]
          /\ \A i \in last .. L - 1 : After(x)[i] = Before(x)[i + 1]
    BY <1>3, RemoveIs
  <2> DEFINE f == [j \in 1 .. N |-> IF j < last THEN j ELSE j + 1]
  <2>2. f \in [1 .. N -> 0 .. L]
    BY <1>0, <2>1
  <2>3. ASSUME NEW j \in 1 .. N PROVE f[j] # 0 /\ After(x)[j] = Before(x)[f[j]]
    BY <1>0, <2>1
  <2>4. \A i, j \in 1 .. N : f[i] = f[j] => i = j
    BY <1>0, <2>1
  <2> HIDE DEF f
  <2>5. Sources(x, f)
    BY <2>2, <2>3, <2>4 DEF Sources
  <2> QED BY <2>5
<1>4. CASE x.op = "mark"
  <2>1. N = L
    BY <1>4, MarkIs
  <2>2. ASSUME NEW j \in 1 .. N
        PROVE  After(x)[j] = Before(x)[j] \/ After(x)[j] = AskingRow(x.turn, TRUE)
    BY <1>4, <2>1, MarkIs
  <2> DEFINE f == [j \in 1 .. N |-> j]
  <2>3. f \in [1 .. N -> 0 .. L] /\ \A j \in 1 .. N : f[j] = j /\ j # 0
    BY <1>0, <2>1
  <2> HIDE DEF f
  <2>4. Sources(x, f)
    BY <1>4, <2>2, <2>3 DEF Sources
  <2> QED BY <2>4
<1>5. CASE x.op \in {"clear", "delete"}
  <2>1. N = 0
    BY <1>5, NoRowsLeft DEF After
  <2> DEFINE f == [j \in 1 .. N |-> 0]
  <2>2. Sources(x, f)
    BY <1>0, <2>1 DEF Sources
  <2> QED BY <2>2
<1> QED BY <1>1, <1>2, <1>3, <1>4, <1>5 DEF Mutations

\* A message that is once in a record is so after each write that does not add it.
LEMMA SingleKept ==
  ASSUME NEW x \in Mutations, x.op = "remove" => Has(x.seen.rows, x.m),
         NEW m \in Messages, Single(Before(x), m),
         x.op = "append" /\ x.row = UserRow(m) => ~Has(Before(x), m)
  PROVE  Single(After(x), m)
<1>0. m \in Users /\ Len(Before(x)) \in Nat /\ Len(After(x)) \in Nat
  BY RowLists DEF Users
<1>1. PICK f : Sources(x, f)
  BY RowSources
<1> SUFFICES ASSUME NEW i \in 1 .. Len(After(x)), NEW j \in 1 .. Len(After(x)),
                    After(x)[i] = UserRow(m), After(x)[j] = UserRow(m)
             PROVE  i = j
  BY DEF Single
<1>2. ASSUME NEW k \in 1 .. Len(After(x)), After(x)[k] = UserRow(m), f[k] # 0
      PROVE  f[k] \in 1 .. Len(Before(x)) /\ Before(x)[f[k]] = UserRow(m)
  <2>1. f[k] \in 1 .. Len(Before(x))
    BY <1>0, <1>1, <1>2 DEF Sources
  <2>2. x.op = "mark" => After(x)[k] # AskingRow(x.turn, TRUE)
    <3>1. x.op = "mark" => x.turn \in Turns
      BY MarkIs
    <3> QED BY <1>0, <1>2, <3>1, RowKinds
  <2> QED BY <1>1, <1>2, <2>1, <2>2 DEF Sources
<1>3. ASSUME NEW k \in 1 .. Len(After(x)), After(x)[k] = UserRow(m), f[k] = 0
      PROVE  x.op = "append" /\ k = Len(After(x)) /\ x.row = UserRow(m)
  <2>1. CASE x.op = "segment" /\ \E n \in 1 .. Len(x.segment) : After(x)[k] = x.segment[n]
    <3>1. PICK n \in 1 .. Len(x.segment) : After(x)[k] = x.segment[n]
      BY <2>1
    <3>2. x.segment[n] \in TurnRows
      BY <2>1, SegmentIs, ElementOfSeq
    <3> QED BY <1>0, <1>3, <3>1, <3>2, RowKinds
  <2>2. CASE x.op = "append" /\ k = Len(After(x)) /\ After(x)[k] = x.row
    BY <1>3, <2>2
  <2> QED BY <1>1, <1>3, <2>1, <2>2 DEF Sources
<1>4. CASE f[i] # 0 /\ f[j] # 0
  <2>1. f[i] = f[j]
    BY <1>2, <1>4 DEF Single
  <2> QED BY <1>1, <1>4, <2>1 DEF Sources
<1>5. CASE f[i] = 0 /\ f[j] = 0
  BY <1>3, <1>5
<1>6. CASE f[i] = 0 /\ f[j] # 0
  BY <1>2, <1>3, <1>6 DEF Has
<1>7. CASE f[i] # 0 /\ f[j] = 0
  BY <1>2, <1>3, <1>7 DEF Has
<1> QED BY <1>4, <1>5, <1>6, <1>7

\* A retraction of a message that is once in the record takes it out.
LEMMA RemovedIsGone ==
  ASSUME NEW x \in Mutations, x.op = "remove", Has(x.seen.rows, x.m),
         Single(Before(x), x.m)
  PROVE  ~Has(After(x), x.m)
<1>0. Len(Before(x)) \in Nat /\ Len(After(x)) \in Nat
  BY RowLists
<1>1. PICK last \in 1 .. Len(Before(x)) :
        /\ Before(x)[last] = UserRow(x.m)
        /\ Len(After(x)) = Len(Before(x)) - 1
        /\ \A i \in 1 .. last - 1 : After(x)[i] = Before(x)[i]
        /\ \A i \in last .. Len(Before(x)) - 1 : After(x)[i] = Before(x)[i + 1]
  BY RemoveIs
<1>2. ASSUME NEW j \in 1 .. Len(After(x)), After(x)[j] = UserRow(x.m) PROVE FALSE
  <2>1. CASE j < last
    <3>1. j \in 1 .. Len(Before(x)) /\ Before(x)[j] = UserRow(x.m)
      BY <1>0, <1>1, <1>2, <2>1
    <3> QED BY <1>1, <2>1, <3>1 DEF Single
  <2>2. CASE ~(j < last)
    <3>1. j + 1 \in 1 .. Len(Before(x)) /\ Before(x)[j + 1] = UserRow(x.m)
      BY <1>0, <1>1, <1>2, <2>2
    <3>2. j + 1 # last
      BY <1>0, <2>2
    <3> QED BY <1>1, <3>1, <3>2 DEF Single
  <2> QED BY <2>1, <2>2
<1> QED BY <1>2 DEF Has

\* No write but its removal, a clear and a delete takes a message out.
LEMMA HasKept ==
  ASSUME NEW x \in Mutations, x.op = "remove" => Has(x.seen.rows, x.m),
         NEW m \in Messages, Has(Before(x), m),
         x.op \notin {"clear", "delete"}, ~(x.op = "remove" /\ x.m = m)
  PROVE  Has(After(x), m)
<1>0. m \in Users /\ Len(Before(x)) \in Nat /\ Len(After(x)) \in Nat
  BY RowLists DEF Users
<1>1. PICK i \in 1 .. Len(Before(x)) : Before(x)[i] = UserRow(m)
  BY DEF Has
<1>2. CASE x.op = "append"
  <2>1. i \in 1 .. Len(After(x)) /\ After(x)[i] = UserRow(m)
    BY <1>0, <1>1, <1>2, AppendIs
  <2> QED BY <2>1 DEF Has
<1>3. CASE x.op = "segment"
  <2>0. PICK n \in 0 .. Len(Before(x)) :
          Spliced(Before(x), After(x), x.turn, x.segment, n)
    BY <1>3, SegmentIs
  <2>1. x.turn \in Turns /\ Len(x.segment) \in Nat
    BY <1>3, SegmentIs
  <2>2. ~(i \in n + 1 .. Len(Before(x)))
    BY <1>0, <1>1, <2>0, <2>1, RowKinds, RowLists DEF Spliced
  <2>3. i \in 1 .. n /\ i \in 1 .. Len(After(x)) /\ After(x)[i] = Before(x)[i]
    BY <1>0, <2>0, <2>1, <2>2 DEF Spliced
  <2> QED BY <1>1, <2>3 DEF Has
<1>4. CASE x.op = "remove"
  <2>1. PICK last \in 1 .. Len(Before(x)) :
          /\ Before(x)[last] = UserRow(x.m)
          /\ Len(After(x)) = Len(Before(x)) - 1
          /\ \A k \in 1 .. last - 1 : After(x)[k] = Before(x)[k]
          /\ \A k \in last .. Len(Before(x)) - 1 : After(x)[k] = Before(x)[k + 1]
    BY <1>4, RemoveIs
  <2>2. i # last
    <3>1. x.m \in Users
      BY <1>4, RemoveIs DEF Users
    <3> QED BY <1>0, <1>1, <1>4, <2>1, <3>1, RowKinds
  <2>3. CASE i < last
    <3>1. i \in 1 .. Len(After(x)) /\ After(x)[i] = Before(x)[i]
      BY <1>0, <2>1, <2>3
    <3> QED BY <1>1, <3>1 DEF Has
  <2>4. CASE ~(i < last)
    <3>1. /\ i - 1 \in 1 .. Len(After(x)) /\ i - 1 \in last .. Len(Before(x)) - 1
          /\ (i - 1) + 1 = i
      BY <1>0, <2>1, <2>2, <2>4
    <3>2. After(x)[i - 1] = Before(x)[i]
      BY <2>1, <3>1
    <3> QED BY <1>1, <3>1, <3>2 DEF Has
  <2> QED BY <2>3, <2>4
<1>5. CASE x.op = "mark"
  <2>1. x.turn \in Turns
    BY <1>5, MarkIs
  <2>2. UserRow(m) # AskingRow(x.turn, FALSE)
    BY <1>0, <2>1, RowKinds
  <2>3. i \in 1 .. Len(After(x)) /\ After(x)[i] = Before(x)[i]
    BY <1>1, <1>5, <2>2, MarkIs
  <2> QED BY <1>1, <2>3 DEF Has
<1> QED BY <1>2, <1>3, <1>4, <1>5 DEF Mutations

\* An appended message is in the record.
LEMMA AppendedIsThere ==
  ASSUME NEW x \in Mutations, x.op = "append", NEW m, x.row = UserRow(m)
  PROVE  Has(After(x), m)
<1>1. Len(Before(x)) + 1 \in 1 .. Len(After(x)) /\ After(x)[Len(Before(x)) + 1] = UserRow(m)
  BY AppendIs, RowLists
<1> QED BY <1>1 DEF Has

\* The rows a turn had checkpointed stay together in every write but its own.
LEMMA BlockKept ==
  ASSUME NEW x \in Mutations, x.op = "remove" => Has(x.seen.rows, x.m),
         NEW t \in Turns, NEW s \in Seq(TurnRows), s # <<>>, AllOf(s, t),
         Block(Before(x), s),
         x.op \notin {"clear", "delete"}, ~(x.op = "segment" /\ x.turn = t)
  PROVE  Block(After(x), s)
<1>0. Len(Before(x)) \in Nat /\ Len(After(x)) \in Nat /\ Len(s) \in Nat \ {0}
  BY RowLists, LenProperties, EmptySeq
<1>1. PICK i \in 0 .. Len(Before(x)) - Len(s) :
        \A k \in 1 .. Len(s) : Before(x)[i + k] = s[k]
  BY DEF Block
<1>2. \A k \in 1 .. Len(s) : i + k \in 1 .. Len(Before(x)) /\ OfTurn(Before(x)[i + k], t)
  BY <1>0, <1>1 DEF AllOf
<1>3. CASE x.op = "append"
  <2>1. i \in 0 .. Len(After(x)) - Len(s)
    BY <1>0, <1>3, AppendIs
  <2>2. \A k \in 1 .. Len(s) : After(x)[i + k] = s[k]
    BY <1>1, <1>2, <1>3, AppendIs
  <2> QED BY <2>1, <2>2 DEF Block
<1>4. CASE x.op = "segment"
  <2>0. PICK n \in 0 .. Len(Before(x)) :
          Spliced(Before(x), After(x), x.turn, x.segment, n)
    BY <1>4, SegmentIs
  <2>1. x.turn \in Turns /\ Len(x.segment) \in Nat
    BY <1>4, SegmentIs
  <2>2. ASSUME NEW k \in 1 .. Len(s) PROVE i + k <= n
    <3>1. ~OfTurn(Before(x)[i + k], x.turn)
      BY <1>2, <1>4, <2>1, RowKinds, RowLists
    <3>2. i + k \notin n + 1 .. Len(Before(x))
      BY <2>0, <3>1 DEF Spliced
    <3> QED BY <1>0, <1>2, <3>2
  <2>3. i + Len(s) <= n
    BY <1>0, <2>2
  <2>4. i \in 0 .. Len(After(x)) - Len(s)
    BY <1>0, <2>0, <2>1, <2>3 DEF Spliced
  <2>5. \A k \in 1 .. Len(s) : After(x)[i + k] = s[k]
    BY <1>0, <1>1, <1>2, <2>0, <2>2 DEF Spliced
  <2> QED BY <2>4, <2>5 DEF Block
<1>5. CASE x.op = "remove"
  <2>1. PICK last \in 1 .. Len(Before(x)) :
          /\ Before(x)[last] = UserRow(x.m)
          /\ Len(After(x)) = Len(Before(x)) - 1
          /\ \A k \in 1 .. last - 1 : After(x)[k] = Before(x)[k]
          /\ \A k \in last .. Len(Before(x)) - 1 : After(x)[k] = Before(x)[k + 1]
    BY <1>5, RemoveIs
  <2>2. ASSUME NEW k \in 1 .. Len(s) PROVE i + k # last
    <3>1. x.m \in Users
      BY <1>5, RemoveIs DEF Users
    <3>2. ~OfTurn(UserRow(x.m), t)
      BY <3>1, RowKinds
    <3> QED BY <1>2, <2>1, <3>2
  <2>3. i + Len(s) < last \/ last <= i
    <3>1. last - i \notin 1 .. Len(s)
      BY <1>0, <2>2
    <3> QED BY <1>0, <3>1
  <2>4. CASE i + Len(s) < last
    <3>1. i \in 0 .. Len(After(x)) - Len(s)
      BY <1>0, <2>1, <2>4
    <3>2. ASSUME NEW k \in 1 .. Len(s) PROVE After(x)[i + k] = s[k]
      <4>1. i + k \in 1 .. last - 1
        BY <1>0, <2>4
      <4> QED BY <1>1, <2>1, <4>1
    <3> QED BY <3>1, <3>2 DEF Block
  <2>5. CASE last <= i
    <3>1. i - 1 \in 0 .. Len(After(x)) - Len(s)
      BY <1>0, <2>1, <2>5
    <3>2. ASSUME NEW k \in 1 .. Len(s) PROVE After(x)[(i - 1) + k] = s[k]
      <4>1. (i - 1) + k \in last .. Len(Before(x)) - 1 /\ ((i - 1) + k) + 1 = i + k
        BY <1>0, <2>5
      <4>2. After(x)[(i - 1) + k] = Before(x)[i + k]
        BY <2>1, <4>1
      <4> QED BY <1>1, <4>2
    <3> QED BY <3>1, <3>2 DEF Block
  <2> QED BY <2>3, <2>4, <2>5
<1>6. CASE x.op = "mark"
  <2>1. x.turn \in Turns
    BY <1>6, MarkIs
  <2>2. ASSUME NEW k \in 1 .. Len(s) PROVE After(x)[i + k] = s[k]
    <3>1. Before(x)[i + k] # AskingRow(x.turn, FALSE)
      <4>1. ~OfTurn(AskingRow(x.turn, FALSE), t)
        BY <2>1 DEF OfTurn, AskingRow
      <4> QED BY <1>2, <4>1
    <3> QED BY <1>1, <1>2, <1>6, <3>1, MarkIs
  <2>3. i \in 0 .. Len(After(x)) - Len(s)
    BY <1>6, MarkIs
  <2> QED BY <2>2, <2>3 DEF Block
<1> QED BY <1>3, <1>4, <1>5, <1>6 DEF Mutations

\* The rows of a checkpoint stand together once it is written.
LEMMA SegmentIsBlock ==
  ASSUME NEW x \in Mutations, x.op = "segment"
  PROVE  Block(After(x), x.segment)
<1>1. PICK n \in 0 .. Len(Before(x)) :
        Spliced(Before(x), After(x), x.turn, x.segment, n)
  BY SegmentIs
<1>2. Len(x.segment) \in Nat /\ Len(Before(x)) \in Nat
  BY SegmentIs, RowLists
<1>3. n \in 0 .. Len(After(x)) - Len(x.segment)
  BY <1>1, <1>2 DEF Spliced
<1> QED BY <1>1, <1>3 DEF Block, Spliced

\* Two rows of one call in a segment that has each call once are one row.
LEMMA SegmentOnce ==
  ASSUME NEW s, NEW t, OnceEach(s, t), NEW i \in 1 .. Len(s), NEW j \in 1 .. Len(s),
         SameCall(s, t, i, j)
  PROVE  i = j
BY DEF OnceEach, SameCall

\* A checkpoint keeps the calls of its turn apart: what it leaves of the record ends
\* in a row of somebody else.
LEMMA SegmentApart ==
  ASSUME NEW x \in Mutations, x.op = "segment", Apart(Before(x), x.turn),
         AllOf(x.segment, x.turn), OnceEach(x.segment, x.turn)
  PROVE  Apart(After(x), x.turn)
<1> DEFINE t == x.turn
           old == Before(x)
           new == After(x)
<1>0. /\ t \in Turns /\ Len(x.segment) \in Nat
      /\ Len(old) \in Nat /\ Len(new) \in Nat
      /\ \A i \in 1 .. Len(new) : new[i] \in AllRows
  BY SegmentIs, RowLists
<1>1. PICK n \in 0 .. Len(old) : Spliced(old, new, t, x.segment, n)
  BY SegmentIs
<1>2. /\ Len(new) = n + Len(x.segment)
      /\ \A i \in 1 .. n : new[i] = old[i]
      /\ \A i \in 1 .. Len(x.segment) : new[n + i] = x.segment[i]
      /\ n = 0 \/ ~OfTurn(old[n], t)
  BY <1>1 DEF Spliced
<1> HIDE DEF new, old
<1> SUFFICES ASSUME NEW i \in 1 .. Len(new), NEW j \in 1 .. Len(new), i < j,
                    SameCall(new, t, i, j)
             PROVE  \E l \in i + 1 .. j - 1 : ~OfTurn(new[l], t)
  BY DEF Apart, new
<1>3. OfTurn(new[i], t)
  BY <1>0, RowKinds DEF SameCall
<1>4. CASE j <= n
  <2>1. i \in 1 .. n /\ j \in 1 .. n /\ i \in 1 .. Len(old) /\ j \in 1 .. Len(old)
    BY <1>0, <1>4
  <2>2. SameCall(old, t, i, j)
    BY <1>2, <2>1 DEF SameCall
  <2>3. PICK l \in i + 1 .. j - 1 : ~OfTurn(old[l], t)
    BY <2>1, <2>2 DEF Apart, old
  <2>4. l \in 1 .. n
    BY <2>1
  <2> QED BY <1>2, <2>3, <2>4
<1>5. CASE i <= n /\ j > n
  <2>1. n # 0 /\ n \in 1 .. n /\ i \in 1 .. n
    BY <1>0, <1>5
  <2>2. ~OfTurn(new[n], t) /\ i # n
    BY <1>2, <1>3, <2>1
  <2>3. n \in i + 1 .. j - 1
    BY <1>0, <1>5, <2>1, <2>2
  <2> QED BY <2>2, <2>3
<1>6. CASE i > n
  <2>1. /\ i - n \in 1 .. Len(x.segment) /\ n + (i - n) = i
        /\ j - n \in 1 .. Len(x.segment) /\ n + (j - n) = j
    BY <1>0, <1>2, <1>6
  <2>2. new[i] = x.segment[i - n] /\ new[j] = x.segment[j - n]
    BY <1>2, <2>1
  <2>3. SameCall(x.segment, t, i - n, j - n)
    BY <2>2 DEF SameCall
  <2>4. i - n = j - n
    BY <2>1, <2>3, SegmentOnce
  <2> QED BY <1>0, <2>4
<1> QED BY <1>0, <1>4, <1>5, <1>6

\* A write that only adds rows of others, or marks some, keeps the calls apart.
LEMMA LongerApart ==
  ASSUME NEW old \in Seq(AllRows), NEW new, NEW t \in Turns, Apart(old, t),
         NEW n \in 0 .. Len(old), Len(new) \in Nat,
         \A i \in 1 .. n : OfTurn(old[i], t) => new[i] = old[i],
         \A i \in 1 .. n : ~OfTurn(old[i], t) => ~OfTurn(new[i], t),
         \A i \in 1 .. Len(new) : new[i] \in AllRows,
         \A i \in 1 .. Len(new) : i > n => ~OfTurn(new[i], t)
  PROVE  Apart(new, t)
<1>0. Len(old) \in Nat
  BY LenProperties
<1> SUFFICES ASSUME NEW i \in 1 .. Len(new), NEW j \in 1 .. Len(new), i < j,
                    SameCall(new, t, i, j)
             PROVE  \E l \in i + 1 .. j - 1 : ~OfTurn(new[l], t)
  BY DEF Apart
<1>1. OfTurn(new[i], t) /\ OfTurn(new[j], t)
  BY RowKinds DEF SameCall
<1>2. ~(i > n) /\ ~(j > n)
  BY <1>1
<1>3. i \in 1 .. n /\ j \in 1 .. n /\ i \in 1 .. Len(old) /\ j \in 1 .. Len(old)
  BY <1>0, <1>2
<1>4. new[i] = old[i] /\ new[j] = old[j]
  BY <1>1, <1>3
<1>5. SameCall(old, t, i, j)
  BY <1>4 DEF SameCall
<1>6. PICK l \in i + 1 .. j - 1 : ~OfTurn(old[l], t)
  BY <1>3, <1>5 DEF Apart
<1>7. l \in 1 .. n
  BY <1>3
<1> QED BY <1>6, <1>7

\* So does a retraction that brings no two rows of the turn together.
LEMMA RemoveApart ==
  ASSUME NEW x \in Mutations, x.op = "remove", Has(x.seen.rows, x.m),
         NEW t \in Turns, Apart(Before(x), t), ~Joins(x, t)
  PROVE  Apart(After(x), t)
<1> DEFINE old == Before(x)
           new == After(x)
<1>0. /\ Len(old) \in Nat /\ Len(new) \in Nat
      /\ \A i \in 1 .. Len(old) : old[i] \in AllRows
      /\ \A i \in 1 .. Len(new) : new[i] \in AllRows
  BY RowLists
<1>1. PICK last \in 1 .. Len(old) :
        /\ old[last] = UserRow(x.m)
        /\ Len(new) = Len(old) - 1
        /\ \A i \in 1 .. last - 1 : new[i] = old[i]
        /\ \A i \in last .. Len(old) - 1 : new[i] = old[i + 1]
  BY RemoveIs
<1>2. ASSUME last \in 2 .. Len(old) - 1
      PROVE  ~OfTurn(old[last - 1], t) \/ ~OfTurn(old[last + 1], t)
  BY <1>1, <1>2 DEF Joins, Before
<1> HIDE DEF new, old
<1> SUFFICES ASSUME NEW i \in 1 .. Len(new), NEW j \in 1 .. Len(new), i < j,
                    SameCall(new, t, i, j)
             PROVE  \E l \in i + 1 .. j - 1 : ~OfTurn(new[l], t)
  BY DEF Apart, new
<1> DEFINE a == IF i < last THEN i ELSE i + 1
           b == IF j < last THEN j ELSE j + 1
<1>3. /\ a \in 1 .. Len(old) /\ b \in 1 .. Len(old) /\ a < b
      /\ new[i] = old[a] /\ new[j] = old[b] /\ a # last /\ b # last
  <2>0. ASSUME NEW k \in 1 .. Len(new), NEW c, c = IF k < last THEN k ELSE k + 1
        PROVE  new[k] = old[c] /\ c \in 1 .. Len(old)
    <3>1. CASE k < last
      <4>1. k \in 1 .. last - 1 /\ c = k
        BY <1>0, <1>1, <2>0, <3>1
      <4> QED BY <1>0, <1>1, <4>1
    <3>2. CASE ~(k < last)
      <4>1. k \in last .. Len(old) - 1 /\ c = k + 1
        BY <1>0, <1>1, <2>0, <3>2
      <4> QED BY <1>0, <1>1, <4>1
    <3> QED BY <3>1, <3>2
  <2>1. new[i] = old[a] /\ a \in 1 .. Len(old)
    BY <2>0
  <2>2. new[j] = old[b] /\ b \in 1 .. Len(old)
    BY <2>0
  <2>3. a < b /\ a # last /\ b # last
    BY <1>0, <1>1
  <2> HIDE DEF a, b
  <2> QED BY <2>1, <2>2, <2>3
<1>4. OfTurn(old[a], t) /\ OfTurn(old[b], t) /\ SameCall(old, t, a, b)
  <2>1. OfTurn(new[i], t) /\ OfTurn(new[j], t)
    BY <1>0, RowKinds DEF SameCall
  <2> HIDE DEF a, b
  <2> QED BY <1>3, <2>1 DEF SameCall
<1>5. PICK l \in a + 1 .. b - 1 : ~OfTurn(old[l], t)
  <2> HIDE DEF a, b
  <2> QED BY <1>3, <1>4 DEF Apart, old
<1>6. ASSUME NEW k \in a + 1 .. b - 1, k # last, ~OfTurn(old[k], t)
      PROVE  \E g \in i + 1 .. j - 1 : ~OfTurn(new[g], t)
  <2>1. CASE k < last
    <3>1. k \in i + 1 .. j - 1 /\ k \in 1 .. last - 1
      BY <1>0, <1>1, <1>3, <1>6, <2>1
    <3> QED BY <1>1, <1>6, <3>1
  <2>2. CASE k > last
    <3>1. k - 1 \in i + 1 .. j - 1 /\ k - 1 \in last .. Len(old) - 1
          /\ (k - 1) + 1 = k
      BY <1>0, <1>1, <1>3, <1>6, <2>2
    <3>2. new[k - 1] = old[k]
      BY <1>1, <3>1
    <3> QED BY <1>6, <3>1, <3>2
  <2> QED BY <1>0, <1>1, <1>6, <1>3, <2>1, <2>2
<1>7. CASE l # last
  BY <1>5, <1>6, <1>7
<1>8. CASE l = last
  <2>1. /\ last \in 2 .. Len(old) - 1
        /\ last - 1 \in a .. b - 1 /\ last + 1 \in a + 1 .. b
    BY <1>0, <1>3, <1>5, <1>8
  <2>2. CASE ~OfTurn(old[last - 1], t)
    <3>1. last - 1 # a
      BY <1>4, <2>2
    <3>2. last - 1 \in a + 1 .. b - 1 /\ last - 1 # last
      BY <1>3, <2>1, <3>1
    <3> QED BY <1>6, <2>2, <3>2
  <2>3. CASE ~OfTurn(old[last + 1], t)
    <3>1. last + 1 # b
      BY <1>4, <2>3
    <3>2. last + 1 \in a + 1 .. b - 1 /\ last + 1 # last
      BY <1>3, <2>1, <3>1
    <3> QED BY <1>6, <2>3, <3>2
  <2> QED BY <1>2, <2>1, <2>2, <2>3
<1> QED BY <1>7, <1>8

\* Every write keeps the calls of a turn apart, but a retraction that joins them.
LEMMA ApartKept ==
  ASSUME NEW x \in Mutations, x.op = "remove" => Has(x.seen.rows, x.m),
         NEW t \in Turns, Apart(Before(x), t), ~Joins(x, t),
         x.op = "segment" => AllOf(x.segment, x.turn) /\ OnceEach(x.segment, x.turn)
  PROVE  Apart(After(x), t)
<1>0. /\ Before(x) \in Seq(AllRows) /\ Len(Before(x)) \in Nat
      /\ Len(After(x)) \in Nat
      /\ \A i \in 1 .. Len(Before(x)) : Before(x)[i] \in AllRows
      /\ \A i \in 1 .. Len(After(x)) : After(x)[i] \in AllRows
  BY RowLists
<1>1. CASE x.op = "append"
  <2>1. /\ Len(After(x)) = Len(Before(x)) + 1
        /\ \A i \in 1 .. Len(Before(x)) : After(x)[i] = Before(x)[i]
        /\ ~OfTurn(After(x)[Len(Before(x)) + 1], t)
    BY <1>1, AppendIs, RowKinds
  <2>2. \A i \in 1 .. Len(After(x)) : i > Len(Before(x)) => i = Len(Before(x)) + 1
    BY <1>0, <2>1
  <2> QED BY <1>0, <2>1, <2>2, LongerApart
<1>2. CASE x.op = "segment" /\ x.turn = t
  BY <1>2, SegmentApart
<1>3. CASE x.op = "segment" /\ x.turn # t
  <2>0. /\ x.turn \in Turns /\ Len(x.segment) \in Nat
        /\ \A k \in 1 .. Len(x.segment) : OfTurn(x.segment[k], x.turn)
    BY <1>3, SegmentIs DEF AllOf
  <2>1. PICK n \in 0 .. Len(Before(x)) :
          Spliced(Before(x), After(x), x.turn, x.segment, n)
    BY <1>3, SegmentIs
  <2>2. /\ Len(After(x)) = n + Len(x.segment)
        /\ \A i \in 1 .. n : After(x)[i] = Before(x)[i]
        /\ \A i \in 1 .. Len(x.segment) : After(x)[n + i] = x.segment[i]
    BY <2>1 DEF Spliced
  <2>3. ASSUME NEW i \in 1 .. Len(After(x)), i > n PROVE ~OfTurn(After(x)[i], t)
    <3>1. i - n \in 1 .. Len(x.segment) /\ n + (i - n) = i
      BY <1>0, <2>0, <2>2, <2>3
    <3>2. After(x)[i] = x.segment[i - n]
      BY <2>2, <3>1
    <3>3. OfTurn(After(x)[i], x.turn)
      BY <2>0, <3>1, <3>2
    <3> QED BY <1>0, <1>3, <2>0, <3>3, RowKinds
  <2> QED BY <1>0, <2>2, <2>3, LongerApart
<1>4. CASE x.op = "remove"
  BY <1>4, RemoveApart
<1>5. CASE x.op = "mark"
  <2>1. /\ x.turn \in Turns /\ Len(After(x)) = Len(Before(x))
        /\ \A i \in 1 .. Len(Before(x)) :
             After(x)[i] = IF Before(x)[i] = AskingRow(x.turn, FALSE)
                           THEN AskingRow(x.turn, TRUE) ELSE Before(x)[i]
    BY <1>5, MarkIs
  <2>2. ~OfTurn(AskingRow(x.turn, FALSE), t) /\ ~OfTurn(AskingRow(x.turn, TRUE), t)
    BY DEF OfTurn, AskingRow
  <2>3. ASSUME NEW i \in 1 .. Len(Before(x))
        PROVE  /\ OfTurn(Before(x)[i], t) => After(x)[i] = Before(x)[i]
               /\ ~OfTurn(Before(x)[i], t) => ~OfTurn(After(x)[i], t)
    BY <2>1, <2>2
  <2>4. Len(Before(x)) \in 0 .. Len(Before(x))
    BY <1>0
  <2> QED BY <1>0, <2>1, <2>3, <2>4, LongerApart
<1>6. CASE x.op \in {"clear", "delete"}
  BY <1>6, NoRowsLeft DEF After, Apart
<1> QED BY <1>1, <1>2, <1>3, <1>4, <1>5, <1>6 DEF Mutations

-----------------------------------------------------------------------------
(* Steps that do not write the record *)

\* Process p has read the record for y, which it may write.
Reads(p, y) ==
  /\ p \in Procs /\ io[p] = NoIO /\ rec.exists
  /\ y \in Mutations /\ y.seen = rec
  /\ io' = [io EXCEPT ![p] = y]
  /\ y.op = "segment" =>
       /\ p \in Turns /\ y.turn = p /\ Len(y.segment) <= MaxCalls + 1
       /\ AllOf(y.segment, p) /\ OnceEach(y.segment, p)
       /\ Marked(y.segment, Finished')
  /\ y.op = "remove" => y.m \in acked /\ Has(rec.rows, y.m)
  /\ \A m \in Messages : y.op = "append" /\ y.row = UserRow(m) =>
       m \in injected' \ injected
  /\ \A t \in Turns : p \in Hosts /\ Resolving(y, t) =>
       pc[t] = "waiting" /\ pc'[t] = "answering"

\* What holds of every step but a write and a kill.
Quiet ==
  /\ UNCHANGED <<rec, acked, retracted, historyVars, crashed>>
  /\ pc' \in [Turns -> Labels] /\ trace' \in [Turns -> Traces]
  /\ asked' \subseteq Turns
  /\ injected \subseteq injected' /\ injected' \subseteq Messages
  /\ Finished \subseteq Finished'
  /\ \A t \in Turns : pc[t] = "answering" => pc'[t] = "answering"
  /\ UNCHANGED io \/ \E p, y : Reads(p, y)

\* After a quiet step a process has what it had, or has just read.
LEMMA QuietIO ==
  ASSUME TypeInv, Quiet, NEW p \in Procs
  PROVE  /\ io' \in [Procs -> Mutations \cup {NoIO}]
         /\ io'[p] = io[p] \/ Reads(p, io'[p])
<1>1. CASE UNCHANGED io
  BY <1>1 DEF TypeInv
<1>2. ASSUME NEW q, NEW y, Reads(q, y)
      PROVE  /\ io' \in [Procs -> Mutations \cup {NoIO}]
             /\ io'[p] = io[p] \/ Reads(p, io'[p])
  <2>1. q \in Procs /\ y \in Mutations /\ io' = [io EXCEPT ![q] = y]
    BY <1>2 DEF Reads
  <2>2. io \in [Procs -> Mutations \cup {NoIO}]
    BY DEF TypeInv
  <2>3. io' \in [Procs -> Mutations \cup {NoIO}]
    BY <2>1, <2>2
  <2>4. CASE p = q
    <3>1. io'[p] = y
      BY <2>1, <2>2, <2>4
    <3> QED BY <1>2, <2>3, <2>4, <3>1
  <2>5. CASE p # q
    <3>1. io'[p] = io[p]
      BY <2>1, <2>2, <2>5
    <3> QED BY <2>3, <3>1
  <2> QED BY <2>4, <2>5
<1> QED BY <1>1, <1>2 DEF Quiet

\* At most one process reads in a step.
LEMMA OneReads ==
  ASSUME TypeInv, Quiet, NEW p \in Procs, NEW q \in Procs,
         io'[p] # io[p], io'[q] # io[q]
  PROVE  p = q
<1>1. PICK r, y : Reads(r, y)
  BY DEF Quiet
<1>2. r \in Procs /\ io' = [io EXCEPT ![r] = y] /\ io \in [Procs -> Mutations \cup {NoIO}]
  BY <1>1 DEF Reads, TypeInv
<1> QED BY <1>2

\* Quiet steps keep the types.
LEMMA QuietType ==
  ASSUME TypeInv, Quiet
  PROVE  TypeInv'
<1>1. io' \in [Procs -> Mutations \cup {NoIO}]
  <2>1. CASE UNCHANGED io
    BY <2>1 DEF TypeInv
  <2>2. ASSUME NEW p, NEW y, Reads(p, y)
        PROVE  io' \in [Procs -> Mutations \cup {NoIO}]
    BY <2>2, QuietIO DEF Reads
  <2> QED BY <2>1, <2>2 DEF Quiet
<1>2. TypeOK'
  <2>1. /\ \A t \in Turns : trace'[t].calls \in 0 .. MaxCalls
        /\ pc' \in [Turns -> Labels]
    BY DEF Quiet, Traces
  <2> QED BY <2>1 DEF Quiet, TypeInv, TypeOK, historyVars
<1>3. ASSUME NEW p \in Procs, Busy(p)' PROVE io'[p].seen.exists
  <2>1. CASE io'[p] = io[p]
    BY <1>3, <2>1 DEF TypeInv, Busy
  <2>2. CASE Reads(p, io'[p])
    BY <2>2 DEF Reads
  <2> QED BY <2>1, <2>2, QuietIO
<1>4. ASSUME NEW p \in Procs, io'[p].op = "segment"
      PROVE  p \in Turns /\ io'[p].turn = p /\ Len(io'[p].segment) <= MaxCalls + 1
  <2>1. CASE io'[p] = io[p]
    BY <1>4, <2>1 DEF TypeInv
  <2>2. CASE Reads(p, io'[p])
    BY <1>4, <2>2 DEF Reads
  <2> QED BY <2>1, <2>2, QuietIO
<1> QED BY <1>1, <1>2, <1>3, <1>4 DEF TypeInv, Quiet, historyVars

\* More finished turns allow the same marks.
LEMMA MarkedMore ==
  ASSUME NEW rows, NEW S, NEW T, S \subseteq T, Marked(rows, S)
  PROVE  Marked(rows, T)
BY DEF Marked

\* A question that is read for was waiting, so nobody else resolves it.
LEMMA QuietResolve ==
  ASSUME TypeInv, ResolveInv, Quiet
  PROVE  ResolveInv'
<1> SUFFICES ASSUME NEW h \in Hosts, NEW t \in Turns, Resolving(io'[h], t)
             PROVE  /\ pc'[t] = "answering"
                    /\ \A g \in Hosts : Resolving(io'[g], t) => g = h
  BY DEF ResolveInv, Resolving
<1>0. h \in Procs
  BY DEF Procs
<1>1. CASE io'[h] = io[h]
  <2>1. /\ pc[t] = "answering"
        /\ \A g \in Hosts : Resolving(io[g], t) => g = h
    BY <1>1 DEF ResolveInv
  <2>2. ASSUME NEW g \in Hosts, Resolving(io'[g], t) PROVE io'[g] = io[g]
    <3>1. ~Reads(g, io'[g])
      BY <2>1, <2>2 DEF Reads
    <3> QED BY <3>1, QuietIO DEF Procs
  <2>3. ASSUME NEW g \in Hosts, Resolving(io'[g], t) PROVE g = h
    BY <2>1, <2>2, <2>3
  <2> QED BY <2>1, <2>3 DEF Quiet
<1>2. CASE io'[h] # io[h] /\ Reads(h, io'[h])
  <2>1. pc[t] = "waiting" /\ pc'[t] = "answering"
    BY <1>2 DEF Reads
  <2>2. ASSUME NEW g \in Hosts, Resolving(io'[g], t), g # h PROVE FALSE
    <3>1. io'[g] = io[g]
      BY <1>0, <1>2, <2>2, OneReads DEF Procs
    <3> QED BY <2>1, <2>2, <3>1 DEF ResolveInv
  <2> QED BY <2>1, <2>2
<1> QED BY <1>0, <1>1, <1>2, QuietIO

\* Quiet steps keep the marks: a checkpoint is read for with marks that are true.
LEMMA QuietMark ==
  ASSUME TypeInv, MarkInv, Quiet
  PROVE  MarkInv'
<1>0. rec' = rec /\ Finished \subseteq Finished'
  BY DEF Quiet
<1>1. Marked(rec'.rows, Finished')
  BY <1>0, MarkedMore DEF MarkInv
<1>2. ASSUME NEW p \in Procs, io'[p] # NoIO PROVE Marked(io'[p].seen.rows, Finished')
  <2>1. CASE io'[p] = io[p]
    <3>1. Marked(io[p].seen.rows, Finished)
      BY <1>2, <2>1 DEF MarkInv, Busy
    <3> QED BY <1>0, <2>1, <3>1, MarkedMore
  <2>2. CASE Reads(p, io'[p])
    <3>1. io'[p].seen = rec
      BY <2>2 DEF Reads
    <3> QED BY <1>0, <1>1, <3>1
  <2> QED BY <2>1, <2>2, QuietIO
<1>3. ASSUME NEW p \in Procs, io'[p].op = "segment" PROVE Marked(io'[p].segment, Finished')
  <2>1. CASE io'[p] = io[p]
    <3>1. Marked(io[p].segment, Finished)
      BY <1>3, <2>1 DEF MarkInv
    <3> QED BY <1>0, <2>1, <3>1, MarkedMore
  <2>2. CASE Reads(p, io'[p])
    BY <1>3, <2>2 DEF Reads
  <2> QED BY <2>1, <2>2, QuietIO
<1> QED BY <1>1, <1>2, <1>3 DEF MarkInv, Busy

\* A message is read for once, before it is acknowledged.
LEMMA QuietAdd ==
  ASSUME TypeInv, AddInv, Quiet
  PROVE  AddInv'
<1>0. rec' = rec /\ acked' = acked /\ injected \subseteq injected'
  BY DEF Quiet
<1> SUFFICES ASSUME NEW m \in Messages
             PROVE
    /\ Has(rec'.rows, m) => m \in acked'
    /\ \A p \in Procs : io'[p] # NoIO /\ Has(io'[p].seen.rows, m) => m \in acked'
    /\ \A p \in Procs : io'[p].op = "append" /\ io'[p].row = UserRow(m) =>
         /\ m \in injected' \ acked'
         /\ \A q \in Procs : io'[q].op = "append" /\ io'[q].row = UserRow(m) => q = p
    /\ \A p \in Procs : io'[p].op = "remove" /\ io'[p].m = m =>
         m \in acked' /\ Has(io'[p].seen.rows, m)
  BY DEF AddInv, Busy, Adds
<1>1. Has(rec'.rows, m) => m \in acked'
  BY <1>0 DEF AddInv
<1>2. ASSUME NEW p \in Procs, io'[p] # NoIO, Has(io'[p].seen.rows, m) PROVE m \in acked'
  <2>1. CASE io'[p] = io[p]
    BY <1>0, <1>2, <2>1 DEF AddInv, Busy
  <2>2. CASE Reads(p, io'[p])
    BY <1>0, <1>1, <1>2, <2>2 DEF Reads
  <2> QED BY <2>1, <2>2, QuietIO
<1>3. ASSUME NEW p \in Procs, io'[p].op = "append", io'[p].row = UserRow(m)
      PROVE  /\ m \in injected' \ acked'
             /\ \A q \in Procs : io'[q].op = "append" /\ io'[q].row = UserRow(m) => q = p
  <2>1. CASE io'[p] = io[p]
    <3>1. m \in injected \ acked /\ \A q \in Procs : Adds(q, m) => q = p
      BY <1>3, <2>1 DEF AddInv, Adds
    <3>2. ASSUME NEW q \in Procs, io'[q].op = "append", io'[q].row = UserRow(m)
          PROVE  q = p
      <4>1. ~Reads(q, io'[q])
        BY <3>1, <3>2 DEF Reads
      <4>2. io'[q] = io[q]
        BY <4>1, QuietIO
      <4> QED BY <3>1, <3>2, <4>2 DEF Adds
    <3> QED BY <1>0, <3>1, <3>2
  <2>2. CASE io'[p] # io[p] /\ Reads(p, io'[p])
    <3>1. m \in injected' \ injected
      BY <1>3, <2>2 DEF Reads
    <3>2. m \notin acked
      BY <3>1 DEF TypeInv, TypeOK
    <3>3. ASSUME NEW q \in Procs, io'[q].op = "append", io'[q].row = UserRow(m), q # p
          PROVE  FALSE
      <4>1. io'[q] = io[q]
        BY <2>2, <3>3, OneReads
      <4> QED BY <3>1, <3>3, <4>1 DEF AddInv, Adds
    <3> QED BY <1>0, <3>1, <3>2, <3>3
  <2> QED BY <2>1, <2>2, QuietIO
<1>4. ASSUME NEW p \in Procs, io'[p].op = "remove", io'[p].m = m
      PROVE  m \in acked' /\ Has(io'[p].seen.rows, m)
  <2>1. CASE io'[p] = io[p]
    BY <1>0, <1>4, <2>1 DEF AddInv
  <2>2. CASE Reads(p, io'[p])
    BY <1>0, <1>4, <2>2 DEF Reads
  <2> QED BY <2>1, <2>2, QuietIO
<1> QED BY <1>1, <1>2, <1>3, <1>4

\* A checkpoint is read for with rows of its turn, each call once.
LEMMA QuietSegment ==
  ASSUME TypeInv, SegmentInv, Quiet
  PROVE  SegmentInv'
<1> SUFFICES ASSUME NEW p \in Procs, io'[p].op = "segment"
             PROVE  AllOf(io'[p].segment, p) /\ OnceEach(io'[p].segment, p)
  BY DEF SegmentInv
<1>1. CASE io'[p] = io[p]
  BY <1>1 DEF SegmentInv
<1>2. CASE Reads(p, io'[p])
  BY <1>2 DEF Reads
<1> QED BY <1>1, <1>2, QuietIO

\* What is read has the calls apart as the record has.
LEMMA QuietApart ==
  ASSUME TypeInv, ApartInv, Quiet
  PROVE  ApartInv'
<1>0. rec' = rec /\ joined' = joined
  BY DEF Quiet, historyVars
<1> SUFFICES ASSUME NEW t \in Turns \ joined, NEW p \in Procs, io'[p] # NoIO
             PROVE  Apart(io'[p].seen.rows, t)
  BY <1>0 DEF ApartInv, Busy
<1>1. CASE io'[p] = io[p]
  BY <1>1 DEF ApartInv, Busy
<1>2. CASE Reads(p, io'[p])
  BY <1>2 DEF Reads, ApartInv
<1> QED BY <1>1, <1>2, QuietIO

\* Quiet steps keep the invariant.
LEMMA QuietStep ==
  ASSUME IInv, Quiet
  PROVE  IInv'
<1>1. /\ TypeInv' /\ ResolveInv' /\ MarkInv' /\ AddInv' /\ SegmentInv'
  BY QuietType, QuietResolve, QuietMark, QuietAdd, QuietSegment DEF IInv
<1>2. TellInv' /\ KeepInv'
  BY DEF IInv, TellInv, KeepInv, Quiet, historyVars
<1>3. ApartInv'
  BY QuietApart DEF IInv
<1> QED BY <1>1, <1>2, <1>3 DEF IInv

-----------------------------------------------------------------------------
(* The actions that are such steps *)

\* snapshot_messages: rows of the turn, each call once, all marked alike.
LEMMA SnapshotIs ==
  ASSUME NEW t \in Turns, NEW tr \in Traces, NEW int \in BOOLEAN
  PROVE  /\ Snapshot(t, tr, int) \in Seq(TurnRows)
         /\ Len(Snapshot(t, tr, int)) <= MaxCalls + 1
         /\ AllOf(Snapshot(t, tr, int), t) /\ OnceEach(Snapshot(t, tr, int), t)
         /\ \A k \in 1 .. Len(Snapshot(t, tr, int)) : Snapshot(t, tr, int)[k].int = int
<1> DEFINE c == tr.calls
           s == Snapshot(t, tr, int)
           a == [k \in 1 .. c |-> CallRow(t, k, ~(tr.open /\ k = c), int)]
           b == IF tr.final THEN <<AnswerRow(t, int)>> ELSE <<>>
<1>1. c \in Nat /\ c <= MaxCalls /\ MaxCalls \in Nat /\ tr.open \in BOOLEAN
  BY HistoryAssumption DEF Traces
<1>2. s = a \o b
  BY DEF Snapshot
<1>3. \A k \in 1 .. c : a[k] = CallRow(t, k, ~(tr.open /\ k = c), int)
  OBVIOUS
<1>4. ASSUME NEW k \in 1 .. c
      PROVE  /\ a[k] \in TurnRows /\ a[k].role = "tool_calls" /\ a[k].turn = t
             /\ a[k].call = k /\ a[k].int = int
  <2>1. k \in Nat
    BY <1>1
  <2> DEFINE d == ~(tr.open /\ k = c)
  <2>2. a[k] = CallRow(t, k, d, int)
    BY <1>3
  <2>5. d \in BOOLEAN
    BY Zenon
  <2> HIDE DEF a, d
  <2>3. a[k] = [role |-> "tool_calls", turn |-> t, call |-> k, done |-> d, int |-> int]
    BY <2>2 DEF CallRow
  <2>4. a[k] \in [role : {"tool_calls"}, turn : Turns, call : Nat, done : BOOLEAN,
                  int : BOOLEAN]
    BY <2>1, <2>3, <2>5
  <2> QED BY <2>3, <2>4 DEF TurnRows
<1>5. a \in [1 .. c -> TurnRows]
  BY <1>4
<1>6. a \in Seq(TurnRows)
  BY <1>1, <1>5, SeqDef
<1>7. Len(a) = c
  <2>1. DOMAIN a = 1 .. Len(a) /\ Len(a) \in Nat
    BY <1>6, LenProperties
  <2>2. DOMAIN a = 1 .. c
    OBVIOUS
  <2> HIDE DEF a, c
  <2> QED BY ONLY <1>1, <2>1, <2>2, SameLength
<1>8. /\ b \in Seq(TurnRows) /\ Len(b) \in 0 .. 1
      /\ \A k \in 1 .. Len(b) : b[k] = AnswerRow(t, int)
  <2>1. AnswerRow(t, int) \in TurnRows
    BY DEF AnswerRow, TurnRows
  <2> QED BY <2>1
<1>9. AnswerRow(t, int).role = "assistant" /\ AnswerRow(t, int).turn = t
      /\ AnswerRow(t, int).int = int
  BY DEF AnswerRow
<1> HIDE DEF a, b, c, s
<1>10. /\ s \in Seq(TurnRows) /\ Len(s) = c + Len(b)
       /\ \A k \in 1 .. c + Len(b) : s[k] = IF k <= c THEN a[k] ELSE b[k - c]
  BY <1>2, <1>6, <1>7, <1>8, ConcatProperties
<1>11. ASSUME NEW k \in 1 .. Len(s)
       PROVE  \/ k \in 1 .. c /\ s[k] = a[k]
              \/ k = c + 1 /\ s[k] = AnswerRow(t, int)
  <2>1. CASE k <= c
    BY <1>1, <1>10, <2>1
  <2>2. CASE ~(k <= c)
    <3>1. k = c + 1 /\ 1 \in 1 .. Len(b) /\ k - c = 1
      BY <1>1, <1>8, <1>10, <2>2
    <3> QED BY <1>8, <1>10, <2>2, <3>1
  <2> QED BY <2>1, <2>2
<1>12. AllOf(s, t)
  BY <1>4, <1>9, <1>11 DEF AllOf, OfTurn
<1>13. OnceEach(s, t)
  <2> SUFFICES ASSUME NEW i \in 1 .. Len(s), NEW j \in 1 .. Len(s),
                      s[i].role = "tool_calls", s[j].role = "tool_calls",
                      s[i].call = s[j].call
               PROVE  i = j
    BY DEF OnceEach
  <2>1. i \in 1 .. c /\ s[i] = a[i] /\ j \in 1 .. c /\ s[j] = a[j]
    BY <1>9, <1>11
  <2> QED BY <1>4, <2>1
<1>14. \A k \in 1 .. Len(s) : s[k].int = int
  BY <1>4, <1>9, <1>11
<1> QED BY <1>1, <1>8, <1>10, <1>12, <1>13, <1>14 DEF s

\* A checkpoint reads for the rows of its turn, or nothing.
LEMMA CheckpointReads ==
  ASSUME TypeInv, NEW t \in Turns, NEW tr \in Traces, NEW int \in BOOLEAN,
         Ready(t), Checkpoint(t, tr, int),
         int \/ t \in Finished'
  PROVE  UNCHANGED io \/ \E p, y : Reads(p, y)
<1> DEFINE s == Snapshot(t, tr, int)
           y == [op |-> "segment", seen |-> rec, turn |-> t, segment |-> s]
<1>1. /\ s \in Seq(TurnRows) /\ Len(s) <= MaxCalls + 1
      /\ AllOf(s, t) /\ OnceEach(s, t)
      /\ \A k \in 1 .. Len(s) : s[k].int = int
  BY SnapshotIs
<1>2. CASE UNCHANGED io
  BY <1>2
<1>3. CASE ~UNCHANGED io
  <2>1. Read(t, [op |-> "segment", seen |-> Gone, turn |-> t, segment |-> s])
    BY <1>3 DEF Checkpoint
  <2>2. rec.exists /\ io' = [io EXCEPT ![t] =
          [[op |-> "segment", seen |-> Gone, turn |-> t, segment |-> s] EXCEPT !.seen = rec]]
    BY <1>3, <2>1 DEF Read
  <2> HIDE DEF s
  <2>3. [[op |-> "segment", seen |-> Gone, turn |-> t, segment |-> s] EXCEPT !.seen = rec] = y
    OBVIOUS
  <2>4. io' = [io EXCEPT ![t] = y]
    BY <2>2, <2>3
  <2>5. y \in Mutations /\ y.seen = rec /\ y.op = "segment" /\ y.turn = t /\ y.segment = s
    BY <1>1 DEF Mutations, TypeInv
  <2>6. Marked(s, Finished')
    <3>1. ASSUME NEW i \in 1 .. Len(s), NEW u \in Turns, OfTurn(s[i], u), ~s[i].int
          PROVE  u \in Finished'
      <4>1. s[i] \in AllRows /\ OfTurn(s[i], t)
        BY <1>1, ElementOfSeq DEF AllOf, AllRows
      <4>2. u = t
        BY <3>1, <4>1, RowKinds
      <4> QED BY <1>1, <3>1, <4>2
    <3> QED BY <3>1 DEF Marked
  <2>7. t \in Procs /\ io[t] = NoIO /\ t \notin Hosts
    BY HistoryAssumption DEF Ready, Procs
  <2> HIDE DEF y
  <2>8. Reads(t, y)
    BY <1>1, <2>2, <2>4, <2>5, <2>6, <2>7 DEF Reads
  <2> QED BY <2>8
<1> QED BY <1>2, <1>3

\* So does the append of a row that is no injected message, by a turn.
LEMMA AppendReads ==
  ASSUME TypeInv, NEW t \in Turns, NEW row \in PlainRows, Ready(t),
         Read(t, AppendOp(row)),
         \A m \in Messages : row # UserRow(m)
  PROVE  UNCHANGED io \/ \E p, y : Reads(p, y)
<1> DEFINE y == [op |-> "append", seen |-> rec, row |-> row]
<1>1. CASE ~rec.exists
  BY <1>1 DEF Read
<1>2. CASE rec.exists
  <2>1. io' = [io EXCEPT ![t] = [AppendOp(row) EXCEPT !.seen = rec]]
    BY <1>2 DEF Read
  <2>2. [AppendOp(row) EXCEPT !.seen = rec] = y
    BY DEF AppendOp
  <2>3. /\ y \in Mutations /\ y.seen = rec /\ y.op = "append" /\ y.row = row
    BY DEF Mutations, TypeInv
  <2>4. t \in Procs /\ io[t] = NoIO /\ t \notin Hosts
    BY HistoryAssumption DEF Ready, Procs
  <2> HIDE DEF y
  <2>5. Reads(t, y)
    BY <1>2, <2>1, <2>2, <2>3, <2>4 DEF Reads
  <2> QED BY <2>5
<1> QED BY <1>1, <1>2

\* An event of the recorder and the checkpoint it triggers.
LEMMA RecordIsQuiet ==
  ASSUME TypeInv, NEW t \in Turns, NEW tr \in Traces, NEW int \in BOOLEAN,
         Ready(t), Record(t, tr, int), pc[t] \notin {"done", "answering"},
         NEW label \in Labels, Goto(t, label), UNCHANGED asked,
         int \/ (label = "done" /\ tr.final)
  PROVE  Quiet
<1>1. /\ pc' = [pc EXCEPT ![t] = label] /\ trace' = [trace EXCEPT ![t] = tr]
      /\ pc \in [Turns -> Labels] /\ trace \in [Turns -> Traces]
  BY DEF Record, Goto, TypeInv, TypeOK
<1>2. pc' \in [Turns -> Labels] /\ trace' \in [Turns -> Traces]
  BY <1>1
<1>3. Finished \subseteq Finished' /\ (int \/ t \in Finished')
  BY <1>1 DEF Finished
<1>4. \A u \in Turns : pc[u] = "answering" => pc'[u] = "answering"
  BY <1>1
<1>5. UNCHANGED io \/ \E p, y : Reads(p, y)
  BY <1>3, CheckpointReads DEF Record
<1> QED BY <1>2, <1>3, <1>4, <1>5
    DEF Quiet, Record, messageVars, historyVars, TypeInv, TypeOK

\* A step of a turn that records nothing.
LEMMA PlainIsQuiet ==
  ASSUME TypeInv, NEW t \in Turns, pc[t] \notin {"done", "answering"},
         NEW label \in Labels, Goto(t, label), asked' \subseteq Turns,
         UNCHANGED <<rec, trace, messageVars, historyVars, crashed>>,
         UNCHANGED io \/ \E p, y : Reads(p, y)
  PROVE  Quiet
<1>1. /\ pc' = [pc EXCEPT ![t] = label]
      /\ pc \in [Turns -> Labels] /\ trace \in [Turns -> Traces]
  BY DEF Goto, TypeInv, TypeOK
<1>2. pc' \in [Turns -> Labels] /\ trace' \in [Turns -> Traces]
  BY <1>1
<1>3. Finished \subseteq Finished'
  BY <1>1 DEF Finished
<1>4. \A u \in Turns : pc[u] = "answering" => pc'[u] = "answering"
  BY <1>1
<1> QED BY <1>2, <1>3, <1>4 DEF Quiet, messageVars, TypeInv, TypeOK

\* Every step of a turn is quiet.
LEMMA TurnIsQuiet ==
  ASSUME TypeInv, NEW t \in Turns, TurnStep(t)
  PROVE  Quiet
<1>0. trace[t] \in Traces /\ trace \in [Turns -> Traces]
  BY DEF TypeInv
<1>1. CASE BeginTurn(t)
  <2>1. UserRow(t) \in PlainRows /\ \A m \in Messages : UserRow(t) # UserRow(m)
    BY HistoryAssumption DEF UserRow, PlainRows, Users
  <2>2. UNCHANGED io \/ \E p, y : Reads(p, y)
    BY <1>1, <2>1, AppendReads DEF BeginTurn
  <2>3. pc[t] = "idle" /\ Goto(t, "model") /\ "model" \in Labels
    BY <1>1 DEF BeginTurn, Labels
  <2> QED BY <1>1, <2>2, <2>3, PlainIsQuiet DEF BeginTurn, TypeInv, TypeOK
<1>2. CASE ToolCall(t)
  <2> DEFINE tr == [trace[t] EXCEPT !.calls = @ + 1, !.open = TRUE]
  <2>3. trace[t].calls + 1 \in 0 .. MaxCalls
    BY <1>0, <1>2, HistoryAssumption DEF ToolCall, Traces
  <2>1. tr \in Traces
    BY <1>0, <2>3 DEF Traces
  <2> HIDE DEF tr
  <2>2. Record(t, tr, TRUE) /\ Goto(t, "call") /\ "call" \in Labels
    BY <1>2 DEF ToolCall, Labels, tr
  <2> QED BY <1>2, <2>1, <2>2, RecordIsQuiet DEF ToolCall
<1>3. CASE ToolResult(t)
  <2> DEFINE tr == [trace[t] EXCEPT !.open = FALSE]
  <2>1. tr \in Traces
    BY <1>0 DEF Traces
  <2> HIDE DEF tr
  <2>2. Record(t, tr, TRUE) /\ Goto(t, "model") /\ "model" \in Labels
    BY <1>3 DEF ToolResult, Labels, tr
  <2> QED BY <1>3, <2>1, <2>2, RecordIsQuiet DEF ToolResult
<1>4. CASE AskRow(t)
  <2>1. AskingRow(t, FALSE) \in PlainRows
    BY DEF AskingRow, PlainRows
  <2>2. \A m \in Messages : AskingRow(t, FALSE) # UserRow(m)
    BY DEF AskingRow, UserRow
  <2>3. UNCHANGED io \/ \E p, y : Reads(p, y)
    BY <1>4, <2>1, <2>2, AppendReads DEF AskRow
  <2>4. pc[t] = "call" /\ Goto(t, "asking") /\ "asking" \in Labels /\ asked' \subseteq Turns
    BY <1>4 DEF AskRow, Labels, TypeInv, TypeOK
  <2> QED BY <1>4, <2>3, <2>4, PlainIsQuiet DEF AskRow
<1>5. CASE AskEvent(t)
  <2>1. "waiting" \in Labels
    BY DEF Labels
  <2> QED BY <1>0, <1>5, <2>1, RecordIsQuiet DEF AskEvent
<1>6. CASE ResponseEvent(t)
  <2>1. "call" \in Labels
    BY DEF Labels
  <2> QED BY <1>0, <1>6, <2>1, RecordIsQuiet DEF ResponseEvent
<1>7. CASE FinishTurn(t)
  <2> DEFINE tr == [trace[t] EXCEPT !.final = TRUE]
  <2>1. tr \in Traces /\ tr.final
    BY <1>0 DEF Traces
  <2> HIDE DEF tr
  <2>2. Record(t, tr, FALSE) /\ Goto(t, "done") /\ "done" \in Labels
    BY <1>7 DEF FinishTurn, Labels, tr
  <2> QED BY <1>7, <2>1, <2>2, RecordIsQuiet DEF FinishTurn
<1>8. CASE CancelTurn(t)
  <2>1. AbortedRow(t) \in PlainRows /\ \A m \in Messages : AbortedRow(t) # UserRow(m)
    BY DEF AbortedRow, UserRow, PlainRows
  <2>2. UNCHANGED io \/ \E p, y : Reads(p, y)
    <3>1. CASE trace[t].calls = 0
      BY <1>8, <2>1, <3>1, AppendReads DEF CancelTurn
    <3>2. CASE trace[t].calls # 0
      BY <1>0, <1>8, <3>2, CheckpointReads DEF CancelTurn
    <3> QED BY <3>1, <3>2
  <2>3. pc[t] = "model" /\ Goto(t, "done") /\ "done" \in Labels
    BY <1>8 DEF CancelTurn, Labels
  <2> QED BY <1>8, <2>2, <2>3, PlainIsQuiet DEF CancelTurn, TypeInv, TypeOK
<1> QED BY <1>1, <1>2, <1>3, <1>4, <1>5, <1>6, <1>7, <1>8 DEF TurnStep

\* A call of the host that reads, with what the invariants ask of it.
LEMMA HostIsPlain ==
  ASSUME TypeInv,
         UNCHANGED <<rec, trace, asked, acked, retracted, historyVars, crashed>>,
         injected \subseteq injected', injected' \subseteq Messages,
         UNCHANGED pc \/ \E t \in Turns, label \in Labels :
           pc[t] = "waiting" /\ Goto(t, label),
         UNCHANGED io \/ \E p, y : Reads(p, y)
  PROVE  Quiet
<1>1. pc \in [Turns -> Labels] /\ trace \in [Turns -> Traces] /\ asked \subseteq Turns
  BY DEF TypeInv, TypeOK
<1>2. /\ pc' \in [Turns -> Labels]
      /\ \A t \in Turns : pc[t] \in {"answering", "done"} => pc'[t] = pc[t]
  <2>1. CASE UNCHANGED pc
    BY <1>1, <2>1
  <2>2. ASSUME NEW t \in Turns, NEW label \in Labels, pc[t] = "waiting", Goto(t, label)
        PROVE  /\ pc' \in [Turns -> Labels]
               /\ \A u \in Turns : pc[u] \in {"answering", "done"} => pc'[u] = pc[u]
    <3>1. pc' = [pc EXCEPT ![t] = label]
      BY <2>2 DEF Goto
    <3> QED BY <1>1, <2>2, <3>1
  <2> QED BY <2>1, <2>2
<1>3. Finished \subseteq Finished'
  BY <1>2 DEF Finished
<1> QED BY <1>1, <1>2, <1>3 DEF Quiet

\* Every call of the host is quiet until its write.
LEMMA HostIsQuiet ==
  ASSUME TypeInv, NEW h \in Hosts, HostStep(h)
  PROVE  Quiet
<1>0. h \in Procs /\ rec \in Records /\ injected \subseteq Messages
  BY DEF Procs, TypeInv
<1>1. ASSUME NEW m \in Messages, Inject(h, m) PROVE Quiet
  <2> DEFINE y == [op |-> "append", seen |-> rec, row |-> UserRow(m)]
  <2>1. UNCHANGED io \/ Reads(h, y)
    <3>1. CASE ~rec.exists
      BY <1>1, <3>1 DEF Inject, Read
    <3>2. CASE rec.exists
      <4>1. io' = [io EXCEPT ![h] = y] /\ io[h] = NoIO /\ m \in injected' \ injected
        BY <1>1, <3>2 DEF Inject, Read, AppendOp, HostReady
      <4>2. y \in Mutations /\ y.op = "append" /\ y.seen = rec /\ y.row = UserRow(m)
        BY <1>0 DEF Mutations, PlainRows, Users, UserRow
      <4>3. \A n \in Messages : UserRow(m) = UserRow(n) => n = m
        BY DEF UserRow
      <4>4. \A t \in Turns : UserRow(m) # UserRow(<<"answer", t>>)
        BY HistoryAssumption DEF UserRow
      <4> HIDE DEF y
      <4> QED BY <1>0, <3>2, <4>1, <4>2, <4>3, <4>4 DEF Reads, Resolving
    <3> QED BY <3>1, <3>2
  <2> HIDE DEF y
  <2>2. UNCHANGED io \/ \E p, z : Reads(p, z)
    BY <2>1
  <2> QED BY <1>0, <1>1, <2>2, HostIsPlain DEF Inject
<1>2. ASSUME NEW m \in Messages, Retract(h, m) PROVE Quiet
  <2> DEFINE y == [op |-> "remove", seen |-> rec, m |-> m]
  <2>1. UNCHANGED io \/ Reads(h, y)
    <3>1. CASE ~rec.exists
      BY <1>2, <3>1 DEF Retract, Read
    <3>2. CASE rec.exists
      <4>1. io' = [io EXCEPT ![h] = y] /\ io[h] = NoIO /\ m \in acked
        BY <1>2, <3>2 DEF Retract, Read, HostReady
      <4>2. y \in Mutations /\ y.op = "remove" /\ y.seen = rec /\ y.m = m
        BY <1>0 DEF Mutations
      <4>3. Has(rec.rows, m)
        BY <1>2 DEF Retract, UserIndexes, Has
      <4> HIDE DEF y
      <4> QED BY <1>0, <3>2, <4>1, <4>2, <4>3 DEF Reads, Resolving
    <3> QED BY <3>1, <3>2
  <2> HIDE DEF y
  <2>2. UNCHANGED io \/ \E p, z : Reads(p, z)
    BY <2>1
  <2> QED BY <1>0, <1>2, <2>2, HostIsPlain DEF Retract, messageVars
<1>3. ASSUME NEW t \in Turns, AnswerHuman(h, t) PROVE Quiet
  <2> DEFINE y == [op |-> "append", seen |-> rec, row |-> UserRow(<<"answer", t>>)]
  <2>1. UNCHANGED io \/ Reads(h, y)
    <3>1. CASE ~rec.exists
      BY <1>3, <3>1 DEF AnswerHuman, Read
    <3>2. CASE rec.exists
      <4>1. io' = [io EXCEPT ![h] = y] /\ io[h] = NoIO
        BY <1>3, <3>2 DEF AnswerHuman, Read, AppendOp, HostReady
      <4>2. /\ y \in Mutations /\ y.op = "append" /\ y.seen = rec
            /\ y.row = UserRow(<<"answer", t>>)
        BY <1>0 DEF Mutations, PlainRows, Users, UserRow
      <4>3. \A n \in Messages : UserRow(<<"answer", t>>) # UserRow(n)
        BY HistoryAssumption DEF UserRow
      <4>4. \A u \in Turns : UserRow(<<"answer", t>>) = UserRow(<<"answer", u>>) => u = t
        BY DEF UserRow
      <4>5. pc[t] = "waiting" /\ pc'[t] = "answering"
        BY <1>3, <3>2 DEF AnswerHuman, Goto, TypeInv, TypeOK
      <4> HIDE DEF y
      <4> QED BY <1>0, <3>2, <4>1, <4>2, <4>3, <4>4, <4>5 DEF Reads, Resolving
    <3> QED BY <3>1, <3>2
  <2> HIDE DEF y
  <2>2. UNCHANGED io \/ \E p, z : Reads(p, z)
    BY <2>1
  <2>3. \E label \in Labels : pc[t] = "waiting" /\ Goto(t, label)
    BY <1>3 DEF AnswerHuman, Labels
  <2> QED BY <1>0, <1>3, <2>2, <2>3, HostIsPlain DEF AnswerHuman, messageVars
<1>4. ASSUME NEW t \in Turns, CancelAsking(h, t) PROVE Quiet
  <2> DEFINE y == [op |-> "mark", seen |-> rec, turn |-> t]
             asking == \E i \in DOMAIN rec.rows : rec.rows[i] = AskingRow(t, FALSE)
  <2>1. UNCHANGED io \/ Reads(h, y)
    <3>1. CASE ~(asking /\ rec.exists)
      BY <1>4, <3>1 DEF CancelAsking, Read
    <3>2. CASE asking /\ rec.exists
      <4>1. io' = [io EXCEPT ![h] = y] /\ io[h] = NoIO
        BY <1>4, <3>2 DEF CancelAsking, Read, HostReady
      <4>2. y \in Mutations /\ y.op = "mark" /\ y.seen = rec /\ y.turn = t
        BY <1>0 DEF Mutations
      <4>5. pc[t] = "waiting" /\ pc'[t] = "answering"
        BY <1>4, <3>2 DEF CancelAsking, Goto, TypeInv, TypeOK
      <4> HIDE DEF y, asking
      <4> QED BY <1>0, <3>2, <4>1, <4>2, <4>5 DEF Reads, Resolving
    <3> QED BY <3>1, <3>2
  <2>3. \E label \in Labels : pc[t] = "waiting" /\ Goto(t, label)
    <3>1. "answering" \in Labels /\ "resumed" \in Labels
      BY DEF Labels
    <3> QED BY <1>4, <3>1 DEF CancelAsking
  <2> HIDE DEF y, asking
  <2>2. UNCHANGED io \/ \E p, z : Reads(p, z)
    BY <2>1
  <2> QED BY <1>0, <1>4, <2>2, <2>3, HostIsPlain DEF CancelAsking, messageVars
<1>5. ASSUME NEW op \in {"clear", "delete"}, HostReady(h),
             Read(h, [op |-> op, seen |-> Gone])
      PROVE  UNCHANGED io \/ \E p, z : Reads(p, z)
  <2> DEFINE y == [op |-> op, seen |-> rec]
  <2>1. CASE ~rec.exists
    BY <1>5, <2>1 DEF Read
  <2>2. CASE rec.exists
    <3>1. io' = [io EXCEPT ![h] = y] /\ io[h] = NoIO
      BY <1>5, <2>2 DEF Read, HostReady
    <3>2. y \in Mutations /\ y.op \in {"clear", "delete"} /\ y.seen = rec
      BY <1>0 DEF Mutations
    <3> HIDE DEF y
    <3>3. Reads(h, y)
      BY <1>0, <2>2, <3>1, <3>2 DEF Reads, Resolving
    <3> QED BY <3>3
  <2> QED BY <2>1, <2>2
<1>6. CASE ClearSession(h)
  BY <1>0, <1>5, <1>6, HostIsPlain DEF ClearSession, messageVars
<1>7. CASE DeleteIfEmpty(h)
  BY <1>0, <1>5, <1>7, HostIsPlain DEF DeleteIfEmpty, messageVars
<1> QED BY <1>1, <1>2, <1>3, <1>4, <1>6, <1>7 DEF HostStep

-----------------------------------------------------------------------------
(* The write *)

\* What a write is of, and what it leaves to the others.
LEMMA WriteIs ==
  ASSUME IInv, NEW p \in Procs, Write(p)
  PROVE  /\ io[p] \in Mutations /\ Busy(p)
         /\ io[p].op = "remove" => Has(io[p].seen.rows, io[p].m)
         /\ rec' = Apply(io[p].seen, io[p]) /\ rec'.rows = After(io[p])
         /\ io' \in [Procs -> Mutations \cup {NoIO}]
         /\ io'[p].op = "none" /\ io'[p] = NoIO
         /\ \A q \in Procs : q # p => io'[q] = io[q]
<1>1. io \in [Procs -> Mutations \cup {NoIO}] /\ io[p] # NoIO
  BY DEF IInv, TypeInv, Write
<1>2. io' = [io EXCEPT ![p] = NoIO] /\ rec' = Apply(io[p].seen, io[p])
  BY DEF Write
<1>3. io[p] \in Mutations
  BY <1>1
<1>4. io[p].op = "remove" => Has(io[p].seen.rows, io[p].m)
  <2>1. io[p].op = "remove" => io[p].m \in Messages
    BY <1>3 DEF Mutations
  <2> QED BY <2>1 DEF IInv, AddInv
<1> QED BY <1>1, <1>2, <1>3, <1>4 DEF Busy, After, NoIO

\* A write keeps the types.
LEMMA WriteType ==
  ASSUME IInv, NEW p \in Procs, Write(p)
  PROVE  TypeInv'
<1> DEFINE x == io[p]
<1>0. TypeInv /\ TypeOK /\ AddInv
  BY DEF IInv, TypeInv
<1>1. /\ rec' \in Records
      /\ ~rec'.exists => rec' = Gone
  <2>1. x.seen.exists
    BY <1>0, WriteIs DEF TypeInv
  <2> QED BY <2>1, WriteIs, AppliedIsRecord
<1>2. rec'.exists \in BOOLEAN /\ rec'.titled \in BOOLEAN
  BY <1>1 DEF Records
<1>3. pc' \in [Turns -> Labels]
  <2>1. pc \in [Turns -> Labels] /\ "resumed" \in Labels
    BY <1>0 DEF TypeOK, Labels
  <2> QED BY <2>1 DEF Write
<1>4. /\ saved' \in [Turns -> Seq(TurnRows)]
      /\ \A t \in Turns : Len(saved'[t]) <= MaxCalls + 1
  <2>1. saved \in [Turns -> Seq(TurnRows)] /\ \A t \in Turns : Len(saved[t]) <= MaxCalls + 1
    BY <1>0 DEF TypeInv, TypeOK
  <2>2. CASE x.op = "segment"
    <3>1. p \in Turns /\ Len(x.segment) <= MaxCalls + 1 /\ x.segment \in Seq(TurnRows)
      BY <1>0, <2>2, WriteIs, SegmentIs DEF TypeInv
    <3>2. saved' = [saved EXCEPT ![p] = x.segment]
      BY <2>2 DEF Write
    <3> HIDE DEF x
    <3> QED BY <2>1, <3>1, <3>2
  <2>3. CASE x.op # "segment"
    <3>1. saved' = saved
      BY <2>3 DEF Write
    <3> QED BY <2>1, <3>1
  <2> QED BY <2>2, <2>3
<1>5. acked' \subseteq injected'
  <2>1. ASSUME NEW m \in Messages, x.op = "append", x.row = UserRow(m)
        PROVE  m \in injected
    BY <1>0, <2>1 DEF AddInv, Adds
  <2> QED BY <1>0, <2>1 DEF Write, TypeOK
<1>6. retracted' \subseteq acked'
  <2>1. ASSUME NEW m \in Messages, x.op = "remove", x.m = m PROVE m \in acked
    BY <1>0, <2>1 DEF AddInv
  <2> QED BY <1>0, <2>1 DEF Write, TypeOK
<1>7. ASSUME NEW q \in Procs, io'[q] # NoIO PROVE io'[q].seen.exists
  BY <1>0, <1>7, WriteIs DEF TypeInv, Busy
<1>8. ASSUME NEW q \in Procs, io'[q].op = "segment"
      PROVE  q \in Turns /\ io'[q].turn = q /\ Len(io'[q].segment) <= MaxCalls + 1
  BY <1>0, <1>8, WriteIs DEF TypeInv
<1>9. TypeOK'
  BY <1>0, <1>1, <1>2, <1>3, <1>4, <1>5, <1>6 DEF TypeOK, Write
<1>10. /\ cleared' \in BOOLEAN /\ raced' \in BOOLEAN /\ crashed' \in BOOLEAN
       /\ joined' \subseteq Turns /\ injected' \subseteq Messages
       /\ trace' \in [Turns -> Traces]
  BY <1>0 DEF TypeInv, Write
<1> QED BY <1>1, <1>4, <1>7, <1>8, <1>9, <1>10, WriteIs DEF TypeInv, Busy

\* A write that ends no wait changes no turn; one that ends a wait is the only
\* call that resolves it.
LEMMA WriteTurns ==
  ASSUME IInv, NEW p \in Procs, Write(p), NEW t \in Turns
  PROVE  \/ pc'[t] = pc[t]
         \/ p \in Hosts /\ Resolving(io[p], t) /\ pc[t] = "answering"
<1>1. p \in Hosts /\ Resolving(io[p], t) => pc[t] = "answering"
  BY DEF IInv, ResolveInv
<1> QED BY <1>1 DEF Write, Resolving

\* A write that resolves a question is the only call that would.
LEMMA WriteResolve ==
  ASSUME IInv, NEW p \in Procs, Write(p)
  PROVE  ResolveInv'
<1> SUFFICES ASSUME NEW h \in Hosts, NEW t \in Turns, Resolving(io'[h], t)
             PROVE  /\ pc'[t] = "answering"
                    /\ \A g \in Hosts : Resolving(io'[g], t) => g = h
  BY DEF ResolveInv, Resolving
<1>1. ASSUME NEW g \in Hosts, Resolving(io'[g], t) PROVE g # p /\ Resolving(io[g], t)
  BY <1>1, WriteIs DEF Procs, Resolving
<1>2. /\ h # p /\ Resolving(io[h], t) /\ pc[t] = "answering"
      /\ \A g \in Hosts : Resolving(io[g], t) => g = h
  BY <1>1 DEF IInv, ResolveInv
<1>3. pc'[t] = pc[t]
  BY <1>2, WriteTurns
<1> QED BY <1>1, <1>2, <1>3

\* A write keeps the marks true.
LEMMA WriteMark ==
  ASSUME IInv, NEW p \in Procs, Write(p)
  PROVE  MarkInv'
<1> DEFINE x == io[p]
<1>0. MarkInv
  BY DEF IInv
<1>1. Finished \subseteq Finished'
  <2>1. trace' = trace
    BY DEF Write
  <2> QED BY <2>1, WriteTurns DEF Finished
<1>2. Marked(After(x), Finished)
  <2>1. Marked(Before(x), Finished) /\ (x.op = "segment" => Marked(x.segment, Finished))
    BY <1>0, WriteIs DEF MarkInv, Before
  <2> QED BY <2>1, WriteIs, MarksKept
<1>3. Marked(rec'.rows, Finished')
  BY <1>1, <1>2, MarkedMore, WriteIs
<1>4. ASSUME NEW q \in Procs, io'[q] # NoIO PROVE Marked(io'[q].seen.rows, Finished')
  <2>1. io'[q] = io[q] /\ Marked(io[q].seen.rows, Finished)
    BY <1>0, <1>4, WriteIs DEF MarkInv, Busy
  <2> QED BY <1>1, <2>1, MarkedMore
<1>5. ASSUME NEW q \in Procs, io'[q].op = "segment" PROVE Marked(io'[q].segment, Finished')
  <2>1. io'[q] = io[q] /\ Marked(io[q].segment, Finished)
    BY <1>0, <1>5, WriteIs DEF MarkInv
  <2> QED BY <1>1, <2>1, MarkedMore
<1> QED BY <1>3, <1>4, <1>5 DEF MarkInv, Busy

\* A write puts a message into the record only when it acknowledges it.
LEMMA WriteAdd ==
  ASSUME IInv, NEW p \in Procs, Write(p)
  PROVE  AddInv'
<1> DEFINE x == io[p]
<1>0. AddInv /\ acked \subseteq acked' /\ injected' = injected
  BY DEF IInv, Write
<1> SUFFICES ASSUME NEW m \in Messages
             PROVE
    /\ Has(rec'.rows, m) => m \in acked'
    /\ \A q \in Procs : io'[q] # NoIO /\ Has(io'[q].seen.rows, m) => m \in acked'
    /\ \A q \in Procs : io'[q].op = "append" /\ io'[q].row = UserRow(m) =>
         /\ m \in injected' \ acked'
         /\ \A g \in Procs : io'[g].op = "append" /\ io'[g].row = UserRow(m) => g = q
    /\ \A q \in Procs : io'[q].op = "remove" /\ io'[q].m = m =>
         m \in acked' /\ Has(io'[q].seen.rows, m)
  BY DEF AddInv, Busy, Adds
<1>1. ASSUME Has(rec'.rows, m) PROVE m \in acked'
  <2>1. Has(After(x), m)
    BY <1>1, WriteIs
  <2>2. Has(Before(x), m) \/ (x.op = "append" /\ x.row = UserRow(m))
    BY <2>1, WriteIs, UserRowOrigin
  <2>3. CASE Has(Before(x), m)
    <3>1. m \in acked
      BY <1>0, <2>3, WriteIs DEF AddInv, Before
    <3> QED BY <1>0, <3>1
  <2>4. CASE x.op = "append" /\ x.row = UserRow(m)
    BY <2>4 DEF Write
  <2> QED BY <2>2, <2>3, <2>4
<1>2. ASSUME NEW q \in Procs, io'[q] # NoIO, Has(io'[q].seen.rows, m) PROVE m \in acked'
  BY <1>0, <1>2, WriteIs DEF AddInv, Busy
<1>3. ASSUME NEW q \in Procs, io'[q].op = "append", io'[q].row = UserRow(m)
      PROVE  q # p /\ Adds(q, m)
  BY <1>3, WriteIs DEF Adds
<1>4. ASSUME NEW q \in Procs, q # p, Adds(q, m) PROVE m \in injected' \ acked'
  <2>1. m \in injected \ acked /\ ~Adds(p, m)
    BY <1>0, <1>4 DEF AddInv
  <2> QED BY <1>0, <2>1 DEF Write, Adds
<1>5. ASSUME NEW q \in Procs, io'[q].op = "remove", io'[q].m = m
      PROVE  m \in acked' /\ Has(io'[q].seen.rows, m)
  BY <1>0, <1>5, WriteIs DEF AddInv
<1> QED BY <1>0, <1>1, <1>2, <1>3, <1>4, <1>5 DEF AddInv

\* A write of a record that is as it was read keeps what the host was told.
LEMMA WriteTell ==
  ASSUME IInv, NEW p \in Procs, Write(p)
  PROVE  TellInv'
<1> DEFINE x == io[p]
<1> SUFFICES ASSUME ~raced', NEW m \in Messages
             PROVE  /\ Single(rec'.rows, m)
                    /\ m \in retracted' => ~Has(rec'.rows, m)
                    /\ ~cleared' /\ m \in acked' \ retracted' => Has(rec'.rows, m)
  BY DEF TellInv
<1>0. /\ TypeOK /\ AddInv
      /\ rec'.rows = After(x) /\ x \in Mutations
      /\ x.op = "remove" => Has(x.seen.rows, x.m)
  BY WriteIs DEF IInv, TypeInv
<1>1. ~raced /\ rec = x.seen /\ Before(x) = rec.rows
  BY DEF Write, Before
<1>2. /\ Single(Before(x), m)
      /\ m \in retracted => ~Has(Before(x), m)
      /\ ~cleared /\ m \in acked \ retracted => Has(Before(x), m)
  BY <1>1 DEF IInv, TellInv
<1>3. ASSUME x.op = "append", x.row = UserRow(m) PROVE m \notin acked /\ ~Has(Before(x), m)
  BY <1>0, <1>1, <1>3 DEF AddInv, Adds
<1>4. Single(After(x), m)
  BY <1>0, <1>2, <1>3, SingleKept
<1>5. ASSUME m \in retracted' PROVE ~Has(After(x), m)
  <2>1. CASE m \in retracted
    <3>1. m \in acked /\ ~Has(Before(x), m)
      BY <1>0, <1>2, <2>1 DEF TypeOK
    <3> QED BY <1>0, <1>3, <3>1, UserRowOrigin
  <2>2. CASE m \notin retracted
    <3>1. x.op = "remove" /\ x.m = m
      BY <1>5, <2>2 DEF Write
    <3> QED BY <1>0, <1>2, <3>1, RemovedIsGone
  <2> QED BY <2>1, <2>2
<1>6. ASSUME ~cleared', m \in acked' \ retracted' PROVE Has(After(x), m)
  <2>1. /\ ~cleared /\ x.op \notin {"clear", "delete"} /\ m \notin retracted
        /\ ~(x.op = "remove" /\ x.m = m)
    BY <1>6 DEF Write
  <2>2. CASE m \in acked
    BY <1>0, <1>2, <2>1, <2>2, HasKept
  <2>3. CASE m \notin acked
    <3>1. x.op = "append" /\ x.row = UserRow(m)
      BY <1>6, <2>3 DEF Write
    <3> QED BY <1>0, <3>1, AppendedIsThere
  <2> QED BY <2>2, <2>3
<1> QED BY <1>0, <1>4, <1>5, <1>6

\* A write changes nothing of what others will write.
LEMMA WriteSegment ==
  ASSUME IInv, NEW p \in Procs, Write(p)
  PROVE  SegmentInv'
BY WriteIs DEF IInv, SegmentInv

\* A write of a record that is as it was read keeps the checkpoints in it.
LEMMA WriteKeep ==
  ASSUME IInv, NEW p \in Procs, Write(p)
  PROVE  KeepInv'
<1> DEFINE x == io[p]
<1>0. /\ TypeInv /\ KeepInv /\ SegmentInv
      /\ rec'.rows = After(x) /\ x \in Mutations
      /\ x.op = "remove" => Has(x.seen.rows, x.m)
  BY WriteIs DEF IInv
<1>1. x.op = "segment" => /\ p \in Turns /\ x.turn = p
                          /\ AllOf(x.segment, p) /\ OnceEach(x.segment, p)
  BY <1>0 DEF TypeInv, SegmentInv
<1>2. /\ saved \in [Turns -> Seq(TurnRows)]
      /\ saved' = IF x.op = "segment" THEN [saved EXCEPT ![p] = x.segment] ELSE saved
  BY <1>0 DEF TypeInv, Write
<1>3. ASSUME NEW t \in Turns
      PROVE  \/ x.op = "segment" /\ x.turn = t /\ saved'[t] = x.segment
             \/ ~(x.op = "segment" /\ x.turn = t) /\ saved'[t] = saved[t]
  <2> HIDE DEF x
  <2> QED BY <1>1, <1>2
<1>4. ASSUME NEW t \in Turns PROVE AllOf(saved'[t], t)
  BY <1>0, <1>1, <1>3 DEF KeepInv
<1>5. ASSUME ~raced' PROVE ~raced /\ rec = x.seen /\ Before(x) = rec.rows
  BY <1>5 DEF Write, Before
<1>6. ASSUME ~raced', ~cleared', NEW t \in Turns, saved'[t] # <<>>
      PROVE  Block(rec'.rows, saved'[t])
  <2>1. ~cleared /\ x.op \notin {"clear", "delete"}
    BY <1>6 DEF Write
  <2>2. CASE x.op = "segment" /\ x.turn = t /\ saved'[t] = x.segment
    BY <1>0, <2>2, SegmentIsBlock
  <2>3. CASE ~(x.op = "segment" /\ x.turn = t) /\ saved'[t] = saved[t]
    <3>1. Block(Before(x), saved[t]) /\ AllOf(saved[t], t)
      BY <1>0, <1>5, <1>6, <2>1, <2>3 DEF KeepInv
    <3>2. saved[t] \in Seq(TurnRows)
      BY <1>2
    <3> HIDE DEF x
    <3> QED BY <1>0, <1>6, <2>1, <2>3, <3>1, <3>2, BlockKept
  <2> QED BY <1>3, <2>2, <2>3
<1> QED BY <1>4, <1>6 DEF KeepInv

\* A write keeps the calls of the turns apart, in the record and in the copies.
LEMMA WriteApart ==
  ASSUME IInv, NEW p \in Procs, Write(p)
  PROVE  ApartInv'
<1> DEFINE x == io[p]
<1>0. /\ TypeInv /\ ApartInv /\ SegmentInv
      /\ rec'.rows = After(x) /\ x \in Mutations /\ Busy(p)
      /\ x.op = "remove" => Has(x.seen.rows, x.m)
  BY WriteIs DEF IInv
<1>1. x.op = "segment" => AllOf(x.segment, x.turn) /\ OnceEach(x.segment, x.turn)
  BY <1>0 DEF TypeInv, SegmentInv
<1>2. ASSUME NEW t \in Turns \ joined' PROVE t \notin joined /\ ~Joins(x, t)
  BY DEF Write
<1>3. ASSUME NEW t \in Turns \ joined' PROVE Apart(rec'.rows, t)
  <2>1. Apart(Before(x), t)
    BY <1>0, <1>2, <1>3 DEF ApartInv, Before
  <2> HIDE DEF x
  <2> QED BY <1>0, <1>1, <1>2, <1>3, <2>1, ApartKept
<1>4. ASSUME NEW t \in Turns \ joined', NEW q \in Procs, io'[q] # NoIO
      PROVE  Apart(io'[q].seen.rows, t)
  BY <1>0, <1>2, <1>4, WriteIs DEF ApartInv, Busy
<1> QED BY <1>3, <1>4 DEF ApartInv, Busy

-----------------------------------------------------------------------------
(* The invariant *)

\* A kill drops what the processes have read and leaves the rest.
LEMMA CrashStep ==
  ASSUME IInv, Crash
  PROVE  IInv'
<1>1. \A p \in Procs : io'[p] = NoIO /\ io'[p].op = "none"
  BY DEF Crash, NoIO
<1>2. /\ UNCHANGED <<rec, pc, trace, asked, injected, acked, retracted,
                     cleared, raced, joined, saved>>
      /\ io' \in [Procs -> Mutations \cup {NoIO}] /\ crashed' = TRUE
  BY DEF Crash, messageVars, historyVars
<1>3. TypeInv'
  BY <1>1, <1>2 DEF IInv, TypeInv, TypeOK, Busy
<1>4. ResolveInv'
  BY <1>1 DEF ResolveInv, Resolving, Procs
<1>5. MarkInv'
  BY <1>1, <1>2 DEF IInv, MarkInv, Busy, Finished
<1>6. AddInv'
  BY <1>1, <1>2 DEF IInv, AddInv, Busy, Adds
<1>7. SegmentInv'
  BY <1>1 DEF SegmentInv
<1>8. TellInv' /\ KeepInv' /\ ApartInv'
  BY <1>1, <1>2 DEF IInv, TellInv, KeepInv, ApartInv, Busy
<1> QED BY <1>3, <1>4, <1>5, <1>6, <1>7, <1>8 DEF IInv

\* The session just created.
LEMMA InitStep == Init => IInv
<1> SUFFICES ASSUME Init PROVE IInv
  OBVIOUS
<1>1. \A p \in Procs : io[p] = NoIO /\ io[p].op = "none"
  BY DEF Init, NoIO
<1>2. rec \in Records /\ rec.rows = <<>> /\ Len(rec.rows) = 0 /\ rec.exists
  BY EmptySeq DEF Init, Fresh, Records
<1>3. /\ saved \in [Turns -> Seq(TurnRows)]
      /\ \A t \in Turns : saved[t] = <<>> /\ Len(saved[t]) = 0
  BY EmptySeq DEF Init
<1>4. TypeOK
  BY <1>3, HistoryAssumption DEF Init, TypeOK, Labels, Fresh
<1>5. io \in [Procs -> Mutations \cup {NoIO}] /\ trace \in [Turns -> Traces]
  BY HistoryAssumption DEF Init, Traces
<1>6. TypeInv
  BY <1>1, <1>2, <1>3, <1>4, <1>5 DEF Init, TypeInv, Busy
<1>7. ResolveInv
  BY <1>1 DEF ResolveInv, Resolving, Procs
<1>8. MarkInv
  BY <1>1, <1>2 DEF MarkInv, Marked, Busy
<1>9. AddInv
  BY <1>1, <1>2 DEF AddInv, Has, Busy, Adds
<1>10. TellInv
  BY <1>2 DEF Init, TellInv, Single
<1>11. SegmentInv
  BY <1>1 DEF SegmentInv
<1>12. KeepInv
  BY <1>3 DEF KeepInv, AllOf
<1>13. ApartInv
  BY <1>1, <1>2 DEF ApartInv, Apart, Busy
<1> QED BY <1>6, <1>7, <1>8, <1>9, <1>10, <1>11, <1>12, <1>13 DEF IInv

\* Every step keeps the invariant.
LEMMA NextStep == IInv /\ [Next]_vars => IInv'
<1> SUFFICES ASSUME IInv, [Next]_vars PROVE IInv'
  OBVIOUS
<1>0. TypeInv
  BY DEF IInv
<1>1. ASSUME NEW t \in Turns, TurnStep(t) PROVE IInv'
  BY <1>0, <1>1, TurnIsQuiet, QuietStep
<1>2. ASSUME NEW h \in Hosts, HostStep(h) PROVE IInv'
  BY <1>0, <1>2, HostIsQuiet, QuietStep
<1>3. ASSUME NEW p \in Procs, Write(p) PROVE IInv'
  BY <1>3, WriteType, WriteResolve, WriteMark, WriteAdd, WriteTell, WriteSegment,
     WriteKeep, WriteApart DEF IInv
<1>4. CASE Crash
  BY <1>4, CrashStep
<1>5. CASE UNCHANGED vars
  <2>1. /\ rec' = rec /\ io' = io /\ pc' = pc /\ trace' = trace /\ asked' = asked
        /\ injected' = injected /\ acked' = acked /\ retracted' = retracted
        /\ cleared' = cleared /\ raced' = raced /\ joined' = joined
        /\ saved' = saved /\ crashed' = crashed
    BY <1>5 DEF vars
  <2>2. TypeInv'
    BY <2>1 DEF IInv, TypeInv, TypeOK, Busy
  <2>3. ResolveInv' /\ SegmentInv'
    BY <2>1 DEF IInv, ResolveInv, SegmentInv
  <2>4. MarkInv'
    BY <2>1 DEF IInv, MarkInv, Finished, Busy
  <2>5. AddInv'
    BY <2>1 DEF IInv, AddInv, Adds, Busy
  <2>6. TellInv' /\ KeepInv' /\ ApartInv'
    BY <2>1 DEF IInv, TellInv, KeepInv, ApartInv, Busy
  <2> QED BY <2>2, <2>3, <2>4, <2>5, <2>6 DEF IInv
<1> QED BY <1>1, <1>2, <1>3, <1>4, <1>5 DEF Next

\* The invariant of the record, its writers and what they were told.
THEOREM InductiveInvariant == Spec => []IInv
BY InitStep, NextStep, PTL DEF Spec

\* Every variable of the record, its writers and its history keeps its type.
THEOREM TypeCorrect == Spec => []TypeOK
<1>1. IInv => TypeOK
  BY DEF IInv, TypeInv
<1> QED BY <1>1, InductiveInvariant, PTL

\* turn/history.rs: only a turn that ran to its end has rows that are not marked
\* interrupted, whatever writers overlap and wherever the process is killed.
THEOREM UnfinishedMarked == Spec => []UnfinishedIsMarked
<1>1. IInv => UnfinishedIsMarked
  <2> SUFFICES ASSUME IInv, NEW i \in DOMAIN rec.rows, NEW t \in Turns,
                      OfTurn(rec.rows[i], t), ~rec.rows[i].int
               PROVE  pc[t] = "done" /\ trace[t].final
    BY DEF UnfinishedIsMarked
  <2>1. DOMAIN rec.rows = 1 .. Len(rec.rows)
    BY LenProperties DEF IInv, TypeInv, Records
  <2>2. t \in Finished
    BY <2>1 DEF IInv, MarkInv, Marked
  <2> QED BY <2>2 DEF Finished
<1> QED BY <1>1, InductiveInvariant, PTL

\* mutation.rs:136-203: while no write replaced a record it had not read, a message
\* the host was told is in is in, and one it was told is out is out.
THEOREM MessagesTold == Spec => []MessagesAsTold
<1>1. IInv => MessagesAsTold
  <2> SUFFICES ASSUME IInv PROVE MessagesAsTold
    OBVIOUS
  <2>1. DOMAIN rec.rows = 1 .. Len(rec.rows)
    BY LenProperties DEF IInv, TypeInv, Records
  <2>2. \A m \in Messages : Has(rec.rows, m) <=> Rows(UserRow(m)) # {}
    BY <2>1 DEF Has, Rows
  <2>3. AckedMessageKept
    <3>1. \A m \in acked : m \in Messages
      BY DEF IInv, TypeInv, TypeOK
    <3> QED BY <2>2, <3>1 DEF IInv, TellInv, AckedMessageKept
  <2>4. RetractedStaysGone
    <3>1. \A m \in retracted : m \in Messages
      BY DEF IInv, TypeInv, TypeOK
    <3> QED BY <2>2, <3>1 DEF IInv, TellInv, RetractedStaysGone
  <2> QED BY <2>3, <2>4 DEF MessagesAsTold
<1> QED BY <1>1, InductiveInvariant, PTL

\* A block of rows is a part of the record.
LEMMA BlockIsPart ==
  ASSUME NEW rows \in Seq(AllRows), NEW s \in Seq(TurnRows), s # <<>>, Block(rows, s)
  PROVE  \E i \in 0 .. Len(rows) - Len(s) : SubSeq(rows, i + 1, i + Len(s)) = s
<1>0. Len(rows) \in Nat /\ Len(s) \in Nat \ {0} /\ s \in Seq(AllRows)
  BY LenProperties, EmptySeq, SeqMonotonic, TurnRows \subseteq AllRows DEF AllRows
<1>1. PICK i \in 0 .. Len(rows) - Len(s) : \A k \in 1 .. Len(s) : rows[i + k] = s[k]
  BY DEF Block
<1> DEFINE part == SubSeq(rows, i + 1, i + Len(s))
<1>2. /\ i + 1 \in Int /\ i + Len(s) \in Int
      /\ \A k \in i + 1 .. i + Len(s) : rows[k] \in AllRows
  <2>1. \A k \in 1 .. Len(rows) : rows[k] \in AllRows
    BY ElementOfSeq
  <2> QED BY <1>0, <2>1
<1>3. /\ part \in Seq(AllRows)
      /\ Len(part) = IF i + 1 <= i + Len(s) THEN (i + Len(s)) - (i + 1) + 1 ELSE 0
      /\ \A k \in 1 .. (i + Len(s)) - (i + 1) + 1 : part[k] = rows[(i + 1) + k - 1]
  BY ONLY <1>2, SubSeqProperties
<1>4. Len(part) = Len(s)
  BY <1>0, <1>3
<1>5. ASSUME NEW k \in 1 .. Len(s) PROVE part[k] = s[k]
  <2>1. part[k] = rows[(i + 1) + k - 1] /\ (i + 1) + k - 1 = i + k
    BY <1>0, <1>3
  <2> QED BY <1>1, <2>1
<1> HIDE DEF part
<1>6. part = s
  BY <1>0, <1>3, <1>4, <1>5, SeqEqual
<1> QED BY <1>6 DEF part

\* mutation.rs:60-99: while no write replaced a record it had not read, the rows of
\* a turn's last finished checkpoint stand together in the record; through any
\* overlap, a call is there again only behind a row of somebody else.
THEOREM CheckpointsKept == Spec => []CheckpointKept
<1>1. IInv => CheckpointKept
  <2> SUFFICES ASSUME IInv PROVE CheckpointKept
    OBVIOUS
  <2>0. /\ KeepInv /\ saved \in [Turns -> Seq(TurnRows)] /\ rec.rows \in Seq(AllRows)
        /\ DOMAIN rec.rows = 1 .. Len(rec.rows) /\ Len(rec.rows) \in Nat
    BY LenProperties DEF IInv, TypeInv, Records
  <2>1. CheckpointSurvives
    BY <2>0, BlockIsPart DEF KeepInv, CheckpointSurvives
  <2>2. CopiesApart
    <3> SUFFICES ASSUME NEW t \in Turns \ joined, NEW k \in 1 .. MaxCalls,
                        NEW i \in CopiesOf(t, k), NEW j \in CopiesOf(t, k), i < j
                 PROVE  \E l \in i + 1 .. j - 1 : ~OfTurn(rec.rows[l], t)
      BY DEF CopiesApart
    <3>1. i \in 1 .. Len(rec.rows) /\ j \in 1 .. Len(rec.rows)
          /\ SameCall(rec.rows, t, i, j)
      BY <2>0 DEF CopiesOf, SameCall
    <3>2. Apart(rec.rows, t)
      BY DEF IInv, ApartInv
    <3> QED BY <3>1, <3>2 DEF Apart
  <2> QED BY <2>1, <2>2 DEF CheckpointKept
<1> QED BY <1>1, InductiveInvariant, PTL
=============================================================================
