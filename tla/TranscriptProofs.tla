-------------------------- MODULE TranscriptProofs --------------------------
(***************************************************************************)
(* What holds of the timeline of any host, whatever it emits: the pages of *)
(* the log stay one rising piece of it, the list of tasks asks for the     *)
(* user exactly where a request is open, a tool call or a task is one card *)
(* of its list, and a turn that ended leaves no card streaming.            *)
(***************************************************************************)
EXTENDS Transcript, SelectionsProofs

-----------------------------------------------------------------------------
(* The log: a rising sequence of entries that only grows.                  *)

Rises(q) == \A i, j \in 1..Len(q) : i < j => q[i].ev < q[j].ev
IsLog(log, n) ==
    /\ log \in Seq(ToSet(log))
    /\ Rises(log)
    /\ \A e \in ToSet(log) : e.ev \in Nat /\ e.ev <= n
\* A later log: the same entries first, then what came after n events.
Extends(more, log, n) ==
    /\ Len(log) <= Len(more)
    /\ \A i \in 1..Len(log) : more[i] = log[i]
    /\ \A i \in 1..Len(more) : i \in 1..Len(log) \/ more[i].ev > n
Log(s) == Logged(sent, s)

LEMMA SeqOfItsMembers ==
    ASSUME NEW D, NEW q \in Seq(D)
    PROVE  q \in Seq(ToSet(q)) /\ ToSet(q) = {q[i] : i \in 1..Len(q)}
<1>1. DOMAIN q = 1..Len(q) /\ Len(q) \in Nat /\ \A i \in 1..Len(q) : q[i] \in ToSet(q)
  BY DEF ToSet
<1>2. QED
  BY <1>1 DEF ToSet

LEMMA EntriesOf ==
    ASSUME NEW log, NEW n, IsLog(log, n)
    PROVE  /\ Len(log) \in Nat
           /\ \A i \in 1..Len(log) : log[i] \in ToSet(log) /\ log[i].ev \in Nat
           /\ \A i, j \in 1..Len(log) : i < j => log[i].ev < log[j].ev
<1>1. log \in Seq(ToSet(log)) /\ Len(log) \in Nat
  BY DEF IsLog
<1>2. ToSet(log) = {log[i] : i \in 1..Len(log)}
  BY <1>1, SeqOfItsMembers
<1>3. \A i \in 1..Len(log) : log[i] \in ToSet(log)
  BY <1>2
<1>4. QED
  BY <1>1, <1>3 DEF IsLog, Rises

\* What is logged of the events emitted, in their order.
LEMMA LogRises ==
    ASSUME NEW n \in Nat, NEW s
    PROVE  IsLog(Logged(n, s), n)
<1> DEFINE q == [p \in 1..n |-> p]
           at == Positions(n, s)
<1>1. q \in Seq(1..n) /\ Len(q) = n /\ \A a \in 1..n : q[a] = a
  OBVIOUS
<1> HIDE DEF q
<1>2. at \in Seq(1..n)
  BY <1>1, OnlyKeeps DEF Positions, q
<1>3. \A i, j \in 1..Len(at) : i < j => \E a, b \in 1..Len(q) : a < b /\ at[i] = q[a] /\ at[j] = q[b]
  <2>1. at = Only(q, InLog(s))
    BY DEF Positions, q
  <2> HIDE DEF at
  <2>2. q \in Seq(1..n)
    BY <1>1
  <2>3. \A i, j \in 1..Len(Only(q, InLog(s))) : i < j =>
           \E a, b \in 1..Len(q) : a < b /\ Only(q, InLog(s))[i] = q[a] /\ Only(q, InLog(s))[j] = q[b]
    BY <2>2, OnlyInOrder
  <2>4. QED
    BY <2>1, <2>3
<1>4. \A i, j \in 1..Len(at) : i < j => at[i] < at[j]
  BY <1>1, <1>3
<1> HIDE DEF at
<1> DEFINE log == [i \in DOMAIN at |-> Entry(at[i])]
<1>5. Logged(n, s) = log
  BY DEF Logged, at
<1>6. /\ DOMAIN at = 1..Len(at) /\ Len(at) \in Nat
      /\ \A i \in 1..Len(at) : at[i] \in Nat /\ at[i] <= n /\ log[i] = Entry(at[i]) /\ log[i].ev = at[i]
  BY <1>2 DEF Entry
<1>7. log \in Seq({Entry(p) : p \in Nat}) /\ Len(log) = Len(at)
  BY <1>6
<1> HIDE DEF log
<1>8. log \in Seq(ToSet(log)) /\ ToSet(log) = {log[i] : i \in 1..Len(log)}
  BY <1>7, SeqOfItsMembers
<1>9. Rises(log)
  BY <1>4, <1>6, <1>7 DEF Rises
<1>10. \A e \in ToSet(log) : e.ev \in Nat /\ e.ev <= n
  BY <1>6, <1>7, <1>8
<1>11. QED
  BY <1>5, <1>8, <1>9, <1>10 DEF IsLog

\* One more event emitted adds at most one entry, at the end.
LEMMA LogGrows ==
    ASSUME NEW n \in Nat, NEW s
    PROVE  Extends(Logged(n + 1, s), Logged(n, s), n)
<1> DEFINE q == [p \in 1..n |-> p]
           r == [p \in 1..n + 1 |-> p]
           at == Positions(n, s)
           more == Positions(n + 1, s)
<1>1. q \in Seq(1..n + 1) /\ r = Append(q, n + 1) /\ n + 1 \in 1..n + 1
  OBVIOUS
<1>2. at \in Seq(1..n + 1)
  <2> HIDE DEF q, r
  <2>1. QED
    BY <1>1, OnlyKeeps DEF Positions, q
<1>3. more = at \/ more = Append(at, n + 1)
  <2>1. at = Only(q, InLog(s)) /\ more = Only(r, InLog(s))
    BY DEF Positions
  <2> HIDE DEF q, r, at, more
  <2>2. QED
    BY <1>1, <2>1, OnlyAppended
<1> HIDE DEF at, more
<1>4. /\ Len(at) \in Nat /\ Len(at) <= Len(more) /\ DOMAIN at = 1..Len(at) /\ DOMAIN more = 1..Len(more)
      /\ \A i \in 1..Len(at) : more[i] = at[i] /\ i \in DOMAIN more
      /\ \A i \in 1..Len(more) : i \in 1..Len(at) \/ more[i] = n + 1
  <2>1. CASE more = at
    BY <1>2, <2>1
  <2>2. CASE more = Append(at, n + 1)
    <3>1. PICK D : at \in Seq(D) /\ n + 1 \in D
      BY <1>2
    <3>2. Len(more) = Len(at) + 1 /\ more[Len(at) + 1] = n + 1 /\ \A i \in 1..Len(at) : more[i] = at[i]
      BY <2>2, <3>1
    <3>3. QED
      BY <2>2, <3>1, <3>2
  <2>3. QED
    BY <1>3, <2>1, <2>2
<1>5. Logged(n, s) = [i \in DOMAIN at |-> Entry(at[i])] /\ Logged(n + 1, s) = [i \in DOMAIN more |-> Entry(more[i])]
  BY DEF Logged, at, more
<1>6. Len(Logged(n, s)) = Len(at) /\ Len(Logged(n + 1, s)) = Len(more)
  <2>1. Len(more) \in Nat
    BY <1>2, <1>3
  <2>2. QED
    BY <1>4, <1>5, <2>1
<1>7. /\ \A i \in 1..Len(at) : Logged(n + 1, s)[i] = Logged(n, s)[i]
      /\ \A i \in 1..Len(more) : i \in 1..Len(at) \/ Logged(n + 1, s)[i] = Entry(n + 1)
  BY <1>4, <1>5
<1>8. Entry(n + 1).ev > n
  BY DEF Entry
<1>9. QED
  BY <1>4, <1>6, <1>7, <1>8 DEF Extends

-----------------------------------------------------------------------------
(* Pages, and what is made of two of them.                                 *)

LEMMA Cursor ==
    ASSUME NEW c \in Nat
    PROVE  /\ PageCursor(c) \in Nat /\ PageCursor(c) <= c /\ (c > 0 => PageCursor(c) < c)
           /\ PageCursor(c) = (IF c > PageSize THEN c - PageSize ELSE 0)
<1>1. PageSize \in Nat \ {0}
  BY TranscriptPages
<1> DEFINE d == c - PageSize
           m == IF c > PageSize THEN d ELSE 0
<1>2. m \in {0, d} /\ \A x \in {0, d} : x <= m
  BY <1>1
<1>3. \A x \in {0, d} : (\A y \in {0, d} : y <= x) => x = m
  BY <1>1
<1>4. Max({0, d}) = m
  <2> HIDE DEF m, d
  <2>1. QED
    BY <1>2, <1>3 DEF Max
<1>5. QED
  BY <1>1, <1>4 DEF PageCursor

\* Every entry of b is in a or comes after all of it; what the two are folded into.
NewAtEnd(a, b) ==
    \A i \in 1..Len(b) : (\E k \in 1..Len(a) : a[k].ev = b[i].ev) \/ \A j \in 1..Len(a) : a[j].ev < b[i].ev
IsMerge(m, a, b) ==
    /\ Rises(m)
    /\ Len(a) <= Len(m)
    /\ Len(m) = Len(a) => m = a
    /\ \A i \in 1..Len(a) : m[i] = a[i]
    /\ \A i \in 1..Len(m) : i \in 1..Len(a) \/ \E k \in 1..Len(b) : m[i] = b[k]
    /\ \A k \in 1..Len(b) : \E i \in 1..Len(m) : m[i].ev = b[k].ev

\* Two rising pages, of which the second has nothing new before the end of the first.
LEMMA MergeIs ==
    ASSUME NEW U, \A e \in U : e.ev \in Nat, NEW a \in Seq(U), NEW b \in Seq(U), Rises(a), Rises(b),
           NewAtEnd(a, b)
    PROVE  MergeUpdatePages(a, b) \in Seq(U) /\ IsMerge(MergeUpdatePages(a, b), a, b)
<1> DEFINE known == {a[i].ev : i \in DOMAIN a}
           fresh == {e \in ToSet(b) : e.ev \notin known}
           c == Only(b, fresh)
           m == MergeUpdatePages(a, b)
<1>1. m = a \o c
  BY DEF MergeUpdatePages
<1>2. c \in Seq(U) /\ ToSet(c) = ToSet(b) \cap fresh
  BY OnlyKeeps
<1>3. \A i, j \in 1..Len(c) : i < j => \E x, y \in 1..Len(b) : x < y /\ c[i] = b[x] /\ c[j] = b[y]
  <2> HIDE DEF fresh
  <2>1. QED
    BY OnlyInOrder
<1> HIDE DEF c, m
<1>4. /\ Len(a) \in Nat /\ Len(b) \in Nat /\ Len(c) \in Nat /\ DOMAIN a = 1..Len(a) /\ DOMAIN b = 1..Len(b)
      /\ DOMAIN c = 1..Len(c)
      /\ \A i \in 1..Len(a) : a[i] \in U /\ a[i].ev \in Nat
      /\ \A i \in 1..Len(b) : b[i] \in U /\ b[i].ev \in Nat
  BY <1>2
<1>5. /\ m \in Seq(U) /\ Len(m) = Len(a) + Len(c)
      /\ \A i \in 1..Len(a) : m[i] = a[i] /\ i \in 1..Len(m)
      /\ \A i \in 1..Len(c) : m[Len(a) + i] = c[i] /\ Len(a) + i \in 1..Len(m)
      /\ \A i \in 1..Len(m) : i \in 1..Len(a) \/ (i - Len(a) \in 1..Len(c) /\ m[i] = c[i - Len(a)])
  BY <1>1, <1>2
<1>6. ASSUME NEW i \in 1..Len(c)
      PROVE  \E k \in 1..Len(b) : c[i] = b[k] /\ \A j \in 1..Len(a) : a[j].ev < b[k].ev
  <2>1. c[i] \in ToSet(b) /\ c[i].ev \notin known
    BY <1>2, <1>4 DEF ToSet
  <2>2. PICK k \in 1..Len(b) : c[i] = b[k]
    BY <1>4, <2>1 DEF ToSet
  <2>3. QED
    BY <1>4, <2>1, <2>2 DEF NewAtEnd
<1>7. Rises(m)
  <2> SUFFICES ASSUME NEW i \in 1..Len(m), NEW j \in 1..Len(m), i < j PROVE m[i].ev < m[j].ev
    BY DEF Rises
  <2>1. CASE i \in 1..Len(a) /\ j \in 1..Len(a)
    BY <1>5, <2>1 DEF Rises
  <2>2. CASE i \in 1..Len(a) /\ j \notin 1..Len(a)
    <3>1. PICK p \in 1..Len(c) : m[j] = c[p]
      BY <1>5, <2>2
    <3>2. PICK k \in 1..Len(b) : c[p] = b[k] /\ \A x \in 1..Len(a) : a[x].ev < b[k].ev
      BY <1>6
    <3>3. m[i] = a[i]
      BY <1>5, <2>2
    <3>4. QED
      BY <2>2, <3>1, <3>2, <3>3
  <2>3. CASE i \notin 1..Len(a)
    <3>1. PICK p \in 1..Len(c) : p = i - Len(a) /\ m[i] = c[p]
      BY <1>5, <2>3
    <3>2. j - Len(a) \in 1..Len(c) /\ m[j] = c[j - Len(a)]
      BY <1>4, <1>5, <2>3
    <3>3. PICK r \in 1..Len(c) : r = j - Len(a) /\ m[j] = c[r]
      BY <3>2
    <3>4. p < r
      BY <1>4, <3>1, <3>3
    <3>5. PICK x \in 1..Len(b), y \in 1..Len(b) : x < y /\ c[p] = b[x] /\ c[r] = b[y]
      BY <1>3, <3>4
    <3>6. b[x].ev < b[y].ev
      BY <3>5 DEF Rises
    <3>7. QED
      BY <3>1, <3>3, <3>5, <3>6
  <2>4. QED
    BY <2>1, <2>2, <2>3
<1>8. Len(m) = Len(a) => m = a
  <2> SUFFICES ASSUME Len(m) = Len(a) PROVE m = a
    OBVIOUS
  <2>1. c = <<>>
    BY <1>2, <1>4, <1>5
  <2>2. QED
    BY <1>1, <2>1
<1>9. ASSUME NEW i \in 1..Len(m), i \notin 1..Len(a) PROVE \E k \in 1..Len(b) : m[i] = b[k]
  <2>1. PICK p \in 1..Len(c) : m[i] = c[p]
    BY <1>5, <1>9
  <2>2. QED
    BY <1>6, <2>1
<1>10. ASSUME NEW k \in 1..Len(b) PROVE \E i \in 1..Len(m) : m[i].ev = b[k].ev
  <2>1. CASE b[k].ev \in known
    BY <1>4, <1>5, <2>1
  <2>2. CASE b[k].ev \notin known
    <3>1. b[k] \in ToSet(c)
      BY <1>2, <1>4, <2>2 DEF ToSet
    <3>2. PICK i \in 1..Len(c) : c[i] = b[k]
      BY <1>4, <3>1 DEF ToSet
    <3>3. Len(a) + i \in 1..Len(m) /\ m[Len(a) + i] = b[k]
      BY <1>5, <3>2
    <3>4. QED
      BY <3>3
  <2>3. QED
    BY <2>1, <2>2
<1>11. Len(a) <= Len(m)
  BY <1>4, <1>5
<1>12. QED
  BY <1>5, <1>7, <1>8, <1>9, <1>10, <1>11 DEF m, IsMerge

-----------------------------------------------------------------------------
(* What is kept: a page under way or shown, an older page under way, and   *)
(* the pages folded together.  They are said of a log, so that the log may *)
(* grow under them.                                                        *)

Piece(us, log, from, upto) == Len(us) = upto - from /\ \A i \in 1..Len(us) : us[i] = log[from + i]

\* The page that ends the log as it was when it was read.
IsPage(d, log) ==
    /\ d \in [session : Sessions, updates : Seq(ToSet(log)), cursor : Nat, more : BOOLEAN]
    /\ d.more => d.cursor > 0
    /\ \E total \in 0..Len(log) : d.cursor = PageCursor(total) /\ Piece(d.updates, log, d.cursor, total)
\* The page that ends where the pages folded begin.
IsOlder(o, log) ==
    /\ o \in [session : Sessions, cursor : Nat, updates : Seq(ToSet(log))]
    /\ o.cursor \in 1..Len(log)
    /\ Piece(o.updates, log, PageCursor(o.cursor), o.cursor)
\* What is folded has, from the page shown on, every entry up to its last one.
NoGap(us, from, log) ==
    \A i \in from + 1..Len(log), j \in 1..Len(us) :
        log[i].ev <= us[j].ev => \E k \in 1..Len(us) : us[k].ev = log[i].ev
IsFolded(h, from, log) ==
    /\ h \in [session : Sessions, updates : Seq(ToSet(log)), cursor : Nat, more : BOOLEAN]
    /\ h.more => h.cursor > 0
    /\ Rises(h.updates)
    /\ h.cursor > 0 => Len(h.updates) > 0 /\ h.cursor < Len(log) /\ h.updates[1] = log[h.cursor + 1]
    /\ NoGap(h.updates, from, log)

HistoryInv ==
    /\ sent \in Nat
    /\ selected \in Sessions
    /\ poll # None =>
          /\ IsPage(poll, Log(poll.session))
          /\ detail # None /\ detail.session = poll.session => detail.cursor <= poll.cursor
    /\ detail # None => IsPage(detail, Log(detail.session))
    /\ hist # None =>
          /\ detail # None /\ detail.session = hist.session
          /\ IsFolded(hist, detail.cursor, Log(hist.session))
    /\ older # None => IsOlder(older, Log(older.session))

\* A log that grows has the same members and more.
LEMMA MembersStay ==
    ASSUME NEW log, NEW more, NEW n \in Nat, NEW m, IsLog(log, n), IsLog(more, m), Extends(more, log, n)
    PROVE  ToSet(log) \subseteq ToSet(more)
<1>1. ToSet(log) = {log[i] : i \in 1..Len(log)} /\ ToSet(more) = {more[i] : i \in 1..Len(more)}
      /\ Len(log) \in Nat /\ Len(more) \in Nat
  <2>1. PICK D, E : log \in Seq(D) /\ more \in Seq(E)
    BY DEF IsLog
  <2>2. ToSet(log) = {log[i] : i \in 1..Len(log)} /\ Len(log) \in Nat
    BY <2>1, SeqOfItsMembers
  <2>3. ToSet(more) = {more[i] : i \in 1..Len(more)} /\ Len(more) \in Nat
    BY <2>1, SeqOfItsMembers
  <2>4. QED
    BY <2>2, <2>3
<1>2. \A i \in 1..Len(log) : i \in 1..Len(more) /\ more[i] = log[i]
  BY <1>1 DEF Extends
<1>3. QED
  BY <1>1, <1>2

LEMMA KeptAsLogGrows ==
    ASSUME NEW log, NEW more, NEW n \in Nat, NEW m, IsLog(log, n), IsLog(more, m), Extends(more, log, n)
    PROVE  /\ \A d : IsPage(d, log) => IsPage(d, more)
           /\ \A o : IsOlder(o, log) => IsOlder(o, more)
           /\ \A h, from : from \in Nat /\ IsFolded(h, from, log) => IsFolded(h, from, more)
<1>1. ToSet(log) \subseteq ToSet(more)
  BY MembersStay
<1>2. \A us : us \in Seq(ToSet(log)) => us \in Seq(ToSet(more))
  BY <1>1
<1>3. Len(log) \in Nat /\ Len(more) \in Nat /\ Len(log) <= Len(more)
  BY DEF IsLog, Extends
<1>4. \A i \in 1..Len(log) : more[i] = log[i]
  BY DEF Extends
<1>5. ASSUME NEW us, NEW from \in Nat, NEW upto \in 0..Len(log), us \in Seq(ToSet(log)), Piece(us, log, from, upto)
      PROVE  Piece(us, more, from, upto)
  <2>1. \A i \in 1..Len(us) : from + i \in 1..Len(log)
    BY <1>3, <1>5 DEF Piece
  <2>2. QED
    BY <1>4, <1>5, <2>1 DEF Piece
<1>6. ASSUME NEW d, IsPage(d, log) PROVE IsPage(d, more)
  <2>1. PICK total \in 0..Len(log) : d.cursor = PageCursor(total) /\ Piece(d.updates, log, d.cursor, total)
    BY <1>6 DEF IsPage
  <2>2. d.cursor \in Nat /\ d.updates \in Seq(ToSet(log)) /\ total \in 0..Len(more)
    BY <1>3, <1>6 DEF IsPage
  <2>3. Piece(d.updates, more, d.cursor, total)
    BY <1>5, <2>1, <2>2
  <2>4. d \in [session : Sessions, updates : Seq(ToSet(more)), cursor : Nat, more : BOOLEAN]
    BY <1>2, <1>6 DEF IsPage
  <2>5. QED
    BY <1>6, <2>1, <2>2, <2>3, <2>4 DEF IsPage
<1>7. ASSUME NEW o, IsOlder(o, log) PROVE IsOlder(o, more)
  <2>1. o.cursor \in Nat /\ o.cursor \in 1..Len(log) /\ o.cursor \in 1..Len(more) /\ o.updates \in Seq(ToSet(log)) /\ o.cursor \in 0..Len(log)
    <3>1. o.cursor \in 1..Len(log) /\ o.updates \in Seq(ToSet(log))
      BY <1>7 DEF IsOlder
    <3>2. o.cursor \in Nat /\ o.cursor >= 1 /\ o.cursor <= Len(log)
      BY <1>3, <3>1
    <3>3. o.cursor <= Len(more)
      BY <1>3, <3>2
    <3>4. QED
      BY <1>3, <3>1, <3>2, <3>3
  <2>2. PageCursor(o.cursor) \in Nat
    BY <2>1, Cursor
  <2>3. Piece(o.updates, more, PageCursor(o.cursor), o.cursor)
    BY <1>5, <1>7, <2>1, <2>2 DEF IsOlder
  <2>4. o \in [session : Sessions, cursor : Nat, updates : Seq(ToSet(more))]
    BY <1>2, <1>7 DEF IsOlder
  <2>5. QED
    BY <2>1, <2>3, <2>4 DEF IsOlder
<1>8. ASSUME NEW h, NEW from \in Nat, IsFolded(h, from, log) PROVE IsFolded(h, from, more)
  <2>1. h \in [session : Sessions, updates : Seq(ToSet(more)), cursor : Nat, more : BOOLEAN]
    BY <1>2, <1>8 DEF IsFolded
  <2>2. h.cursor > 0 => Len(h.updates) > 0 /\ h.cursor < Len(more) /\ h.updates[1] = more[h.cursor + 1]
    <3>1. h.cursor \in Nat
      BY <2>1
    <3>2. QED
      BY <1>3, <1>4, <1>8, <3>1 DEF IsFolded
  <2>3. NoGap(h.updates, from, more)
    <3> SUFFICES ASSUME NEW i \in from + 1..Len(more), NEW j \in 1..Len(h.updates), more[i].ev <= h.updates[j].ev
                 PROVE  \E k \in 1..Len(h.updates) : h.updates[k].ev = more[i].ev
      BY DEF NoGap
    <3>1. h.updates[j] \in ToSet(log)
      BY <1>8 DEF IsFolded
    <3>2. h.updates[j].ev \in Nat /\ h.updates[j].ev <= n
      BY <3>1 DEF IsLog
    <3>3. i \in 1..Len(more) /\ more[i] \in ToSet(more)
      BY <1>3, SeqOfItsMembers DEF IsLog
    <3>4. more[i].ev \in Nat
      BY <3>3 DEF IsLog
    <3>5. i \in 1..Len(log)
      BY <3>2, <3>3, <3>4 DEF Extends
    <3>6. i \in from + 1..Len(log) /\ more[i] = log[i]
      BY <1>3, <1>4, <3>5
    <3>7. QED
      BY <1>8, <3>6 DEF IsFolded, NoGap
  <2>4. QED
    BY <1>8, <2>1, <2>2, <2>3 DEF IsFolded
<1>9. QED
  BY <1>6, <1>7, <1>8

\* What is read of a log before a cursor.
LEMMA PageRead ==
    ASSUME NEW log, NEW n, IsLog(log, n), NEW c \in 0..Len(log)
    PROVE  /\ PageBefore(log, c) \in Seq(ToSet(log))
           /\ Piece(PageBefore(log, c), log, PageCursor(c), c)
<1>1. log \in Seq(ToSet(log)) /\ Len(log) \in Nat /\ c \in Nat /\ c <= Len(log)
  BY DEF IsLog
<1>2. PageCursor(c) \in Nat /\ PageCursor(c) <= c
  BY <1>1, Cursor
<1>3. PageBefore(log, c) = SubSeq(log, PageCursor(c) + 1, c)
  BY DEF PageBefore, PageCursor
<1> DEFINE d == PageCursor(c)
<1> HIDE DEF d
<1>4. d \in Nat /\ d <= c /\ PageBefore(log, c) = SubSeq(log, d + 1, c)
  BY <1>2, <1>3 DEF d
<1>5. SubSeq(log, d + 1, c) \in Seq(ToSet(log)) /\ Len(SubSeq(log, d + 1, c)) = c - d
      /\ \A i \in 1..c - d : SubSeq(log, d + 1, c)[i] = log[d + i]
  BY <1>1, <1>4
<1>6. QED
  BY <1>4, <1>5 DEF d, Piece

\* A piece of the log rises, and has the entries of the log from its start to any of its own.
LEMMA PieceOfLog ==
    ASSUME NEW log, NEW n, IsLog(log, n), NEW from \in Nat, NEW upto \in 0..Len(log), from <= upto,
           NEW us \in Seq(ToSet(log)), Piece(us, log, from, upto)
    PROVE  /\ Rises(us)
           /\ \A i \in from + 1..Len(log), j \in 1..Len(us) :
                 log[i].ev <= us[j].ev => \E k \in 1..Len(us) : us[k] = log[i]
<1>1. /\ Len(log) \in Nat /\ Len(us) = upto - from /\ Len(us) \in Nat /\ upto \in Nat
      /\ \A i \in 1..Len(us) : us[i] = log[from + i] /\ from + i \in 1..Len(log)
  BY DEF IsLog, Piece
<1>2. \A i \in 1..Len(log) : log[i].ev \in Nat
  BY SeqOfItsMembers DEF IsLog
<1>3. \A i, j \in 1..Len(log) : i < j => log[i].ev < log[j].ev
  BY DEF IsLog, Rises
<1>4. Rises(us)
  <2> SUFFICES ASSUME NEW i \in 1..Len(us), NEW j \in 1..Len(us), i < j PROVE us[i].ev < us[j].ev
    BY DEF Rises
  <2>1. from + i < from + j /\ us[i] = log[from + i] /\ us[j] = log[from + j]
        /\ from + i \in 1..Len(log) /\ from + j \in 1..Len(log)
    BY <1>1
  <2>2. QED
    BY <1>3, <2>1
<1>5. ASSUME NEW i \in from + 1..Len(log), NEW j \in 1..Len(us), log[i].ev <= us[j].ev
      PROVE  \E k \in 1..Len(us) : us[k] = log[i]
  <2>1. PICK p \in 1..Len(log) : p = from + j /\ us[j] = log[p]
    BY <1>1
  <2>2. i \in 1..Len(log)
    BY <1>1
  <2>3. ~(p < i)
    BY <1>2, <1>3, <1>5, <2>1, <2>2
  <2>4. PICK k \in 1..Len(us) : from + k = i
    BY <1>1, <2>1, <2>2, <2>3
  <2>5. QED
    BY <1>1, <2>4
<1>6. QED
  BY <1>4, <1>5

\* The question about the log as it is; what is asked later starts no earlier.
LEMMA LaterPages ==
    ASSUME NEW c \in Nat, NEW d \in Nat, c <= d PROVE PageCursor(c) <= PageCursor(d)
BY Cursor, TranscriptPages

LEMMA PageMade ==
    ASSUME NEW log, NEW n, IsLog(log, n), NEW s \in Sessions
    PROVE  IsPage([session |-> s, updates |-> PageBefore(log, Len(log)),
                   cursor |-> PageCursor(Len(log)), more |-> PageCursor(Len(log)) > 0], log)
<1>1. Len(log) \in Nat /\ Len(log) \in 0..Len(log)
  BY DEF IsLog
<1>2. PageCursor(Len(log)) \in Nat
  BY <1>1, Cursor
<1>3. PageBefore(log, Len(log)) \in Seq(ToSet(log)) /\ Piece(PageBefore(log, Len(log)), log, PageCursor(Len(log)), Len(log))
  BY <1>1, PageRead
<1> DEFINE us == PageBefore(log, Len(log))
           c == PageCursor(Len(log))
           d == [session |-> s, updates |-> us, cursor |-> c, more |-> c > 0]
<1>4. d \in [session : Sessions, updates : Seq(ToSet(log)), cursor : Nat, more : BOOLEAN]
  <2>1. (c > 0) \in BOOLEAN
    OBVIOUS
  <2> HIDE DEF us, c
  <2>2. us \in Seq(ToSet(log)) /\ c \in Nat
    BY <1>2, <1>3 DEF us, c
  <2>3. QED
    BY <2>1, <2>2
<1>5. d.updates = us /\ d.cursor = c /\ d.more = (c > 0)
  OBVIOUS
<1>6. d.cursor = PageCursor(Len(log)) /\ Piece(d.updates, log, d.cursor, Len(log))
  BY <1>3, <1>5
<1> HIDE DEF d
<1>7. QED
  BY <1>1, <1>4, <1>5, <1>6 DEF IsPage, d

\* A page by itself is folded.
LEMMA PageFolded ==
    ASSUME NEW log, NEW n, IsLog(log, n), NEW d, IsPage(d, log)
    PROVE  IsFolded(d, d.cursor, log)
<1>1. PICK total \in 0..Len(log) : d.cursor = PageCursor(total) /\ Piece(d.updates, log, d.cursor, total)
  BY DEF IsPage
<1>2. Len(log) \in Nat /\ total \in Nat /\ d.cursor \in Nat /\ d.updates \in Seq(ToSet(log))
  BY <1>1 DEF IsPage, IsLog
<1>3. d.cursor <= total /\ (total > 0 => d.cursor < total)
  BY <1>1, <1>2, Cursor
<1>4. /\ Rises(d.updates)
      /\ \A i \in d.cursor + 1..Len(log), j \in 1..Len(d.updates) :
            log[i].ev <= d.updates[j].ev => \E k \in 1..Len(d.updates) : d.updates[k] = log[i]
  BY <1>1, <1>2, <1>3, PieceOfLog
<1>5. NoGap(d.updates, d.cursor, log)
  BY <1>4 DEF NoGap
<1>6. ASSUME d.cursor > 0
      PROVE  Len(d.updates) > 0 /\ d.cursor < Len(log) /\ d.updates[1] = log[d.cursor + 1]
  <2>1. d.cursor < total /\ total <= Len(log) /\ Len(d.updates) = total - d.cursor
    BY <1>1, <1>2, <1>3, <1>6 DEF Piece
  <2>2. 1 \in 1..Len(d.updates) /\ Len(d.updates) > 0
    BY <1>2, <2>1
  <2>3. QED
    BY <1>1, <1>2, <2>1, <2>2 DEF Piece
<1>7. QED
  BY <1>4, <1>5, <1>6 DEF IsPage, IsFolded

\* A page is new to what is folded only past its end.
LEMMA NewIsPastTheEnd ==
    ASSUME NEW log, NEW n, IsLog(log, n), NEW us \in Seq(ToSet(log)), NEW from \in Nat, NoGap(us, from, log),
           NEW d, IsPage(d, log), from <= d.cursor
    PROVE  NewAtEnd(us, d.updates)
<1>1. PICK total \in 0..Len(log) : d.cursor = PageCursor(total) /\ Piece(d.updates, log, d.cursor, total)
  BY DEF IsPage
<1>2. Len(log) \in Nat /\ total \in Nat /\ d.cursor \in Nat /\ total <= Len(log)
  BY <1>1 DEF IsPage, IsLog
<1> SUFFICES ASSUME NEW i \in 1..Len(d.updates)
             PROVE  (\E k \in 1..Len(us) : us[k].ev = d.updates[i].ev)
                    \/ \A j \in 1..Len(us) : us[j].ev < d.updates[i].ev
  BY DEF NewAtEnd
<1>3. PICK p \in from + 1..Len(log) : d.updates[i] = log[p]
  <2>1. Len(d.updates) = total - d.cursor /\ d.updates[i] = log[d.cursor + i]
    BY <1>1 DEF Piece
  <2>2. d.cursor + i \in from + 1..Len(log)
    BY <1>2, <2>1
  <2>3. QED
    BY <2>1, <2>2
<1>4. p \in 1..Len(log) /\ \A x \in 1..Len(log) : log[x].ev \in Nat
  <2>1. p \in 1..Len(log)
    BY <1>2
  <2>2. QED
    BY <2>1, EntriesOf
<1>5. \A j \in 1..Len(us) : us[j].ev \in Nat
  BY DEF IsLog
<1>6. log[p].ev \in Nat /\ \A j \in 1..Len(us) : log[p].ev <= us[j].ev \/ us[j].ev < log[p].ev
  BY <1>4, <1>5
<1>7. QED
  BY <1>3, <1>6 DEF NoGap

\* A page folded in: what is folded rises, begins where it began, and has no gap from the page on.
LEMMA FoldKeeps ==
    ASSUME NEW log, NEW n, IsLog(log, n), NEW h, NEW from \in Nat, IsFolded(h, from, log),
           NEW d, IsPage(d, log), from <= d.cursor,
           NEW r, r.cursor = h.cursor, r.more = h.more, r.updates = MergeUpdatePages(h.updates, d.updates),
           MergeUpdatePages(h.updates, d.updates) \in Seq(ToSet(log)) =>
              r \in [session : Sessions, updates : Seq(ToSet(log)), cursor : Nat, more : BOOLEAN]
    PROVE  IsFolded(r, d.cursor, log)
<1> DEFINE U == ToSet(log)  a == h.updates  b == d.updates  m == MergeUpdatePages(a, b)
<1>1. \A e \in U : e.ev \in Nat
  BY DEF IsLog
<1>2. a \in Seq(U) /\ Rises(a) /\ NoGap(a, from, log) /\ h.cursor \in Nat
  BY DEF IsFolded
<1>3. b \in Seq(U) /\ Rises(b) /\ NoGap(b, d.cursor, log) /\ d.cursor \in Nat
  BY PageFolded DEF IsFolded
<1>4. NewAtEnd(a, b)
  BY <1>2, NewIsPastTheEnd
<1> HIDE DEF a, b, U, m
<1>5. m \in Seq(U) /\ IsMerge(m, a, b)
  BY <1>1, <1>2, <1>3, <1>4, MergeIs DEF m
<1>6. Len(a) \in Nat /\ Len(b) \in Nat /\ Len(m) \in Nat /\ Len(log) \in Nat
  BY <1>2, <1>3, <1>5 DEF IsLog, IsMerge
<1>7. NoGap(m, d.cursor, log)
  <2> SUFFICES ASSUME NEW i \in d.cursor + 1..Len(log), NEW j \in 1..Len(m), log[i].ev <= m[j].ev
               PROVE  \E k \in 1..Len(m) : m[k].ev = log[i].ev
    BY DEF NoGap
  <2>1. CASE j \in 1..Len(a)
    <3>1. i \in from + 1..Len(log) /\ m[j] = a[j]
      BY <1>3, <1>5, <1>6, <2>1 DEF IsMerge
    <3>2. PICK k \in 1..Len(a) : a[k].ev = log[i].ev
      BY <1>2, <2>1, <3>1 DEF NoGap
    <3>3. m[k] = a[k] /\ k \in 1..Len(m)
      BY <1>5, <1>6 DEF IsMerge
    <3>4. QED
      BY <3>2, <3>3
  <2>2. CASE \E x \in 1..Len(b) : m[j] = b[x]
    <3>1. PICK x \in 1..Len(b) : m[j] = b[x]
      BY <2>2
    <3>2. PICK k \in 1..Len(b) : b[k].ev = log[i].ev
      BY <1>3, <3>1 DEF NoGap
    <3>3. QED
      BY <1>5, <3>2 DEF IsMerge
  <2>3. QED
    BY <1>5, <2>1, <2>2 DEF IsMerge
<1>8. ASSUME h.cursor > 0
      PROVE  Len(m) > 0 /\ h.cursor < Len(log) /\ m[1] = log[h.cursor + 1]
  <2>1. Len(a) > 0 /\ h.cursor < Len(log) /\ a[1] = log[h.cursor + 1]
    BY <1>8 DEF IsFolded, a
  <2>2. 1 \in 1..Len(a)
    BY <1>6, <2>1
  <2>3. QED
    BY <1>5, <1>6, <2>1, <2>2 DEF IsMerge
<1>9. m = r.updates /\ (h.more => h.cursor > 0)
  BY DEF IsFolded, m, a, b
<1>10. r \in [session : Sessions, updates : Seq(ToSet(log)), cursor : Nat, more : BOOLEAN]
  BY <1>5 DEF m, a, b, U, IsMerge
<1>11. QED
  BY <1>5, <1>7, <1>8, <1>9, <1>10 DEF IsFolded, IsMerge

\* Pages of one fingerprint are as long.
LEMMA SameFingerprint ==
    ASSUME NEW D, NEW a \in Seq(D), NEW b \in Seq(D), Fingerprint(a) = Fingerprint(b)
    PROVE  Len(a) = Len(b)
<1>1. /\ a = <<>> => Len(Fingerprint(a)) = 1 /\ Len(a) = 0
      /\ a # <<>> => Len(Fingerprint(a)) = 4 /\ Fingerprint(a)[1] = Len(a)
  BY DEF Fingerprint
<1>2. /\ b = <<>> => Len(Fingerprint(b)) = 1 /\ Len(b) = 0
      /\ b # <<>> => Len(Fingerprint(b)) = 4 /\ Fingerprint(b)[1] = Len(b)
  BY DEF Fingerprint
<1>3. Len(Fingerprint(a)) = Len(Fingerprint(b)) /\ Fingerprint(a)[1] = Fingerprint(b)[1]
  OBVIOUS
<1>4. CASE a = <<>>
  <2>1. Len(Fingerprint(b)) = 1
    BY <1>1, <1>3, <1>4
  <2>2. b = <<>>
    BY <1>2, <2>1
  <2>3. QED
    BY <1>4, <2>2
<1>5. CASE a # <<>>
  <2>1. Len(Fingerprint(b)) = 4
    BY <1>1, <1>3, <1>5
  <2>2. b # <<>>
    BY <1>2, <2>1
  <2>3. QED
    BY <1>1, <1>2, <1>3, <1>5, <2>2
<1>6. QED
  BY <1>4, <1>5

\* The older page put before what is folded.
LEMMA OlderKeeps ==
    ASSUME NEW log, NEW n, IsLog(log, n), NEW h, NEW from \in Nat, IsFolded(h, from, log),
           NEW o, IsOlder(o, log), h.cursor = o.cursor,
           NEW r, r.cursor = PageCursor(o.cursor), r.more = (PageCursor(o.cursor) > 0),
           r.updates = MergeUpdatePages(o.updates, h.updates),
           MergeUpdatePages(o.updates, h.updates) \in Seq(ToSet(log)) =>
              r \in [session : Sessions, updates : Seq(ToSet(log)), cursor : Nat, more : BOOLEAN]
    PROVE  IsFolded(r, from, log)
<1> DEFINE U == ToSet(log)  a == o.updates  b == h.updates  m == MergeUpdatePages(a, b)
           c == o.cursor  p == PageCursor(o.cursor)
<1>1. \A e \in U : e.ev \in Nat
  BY DEF IsLog
<1>2. b \in Seq(U) /\ Rises(b) /\ NoGap(b, from, log)
  BY DEF IsFolded
<1>3. a \in Seq(U) /\ c \in 1..Len(log) /\ Len(log) \in Nat /\ c \in Nat /\ c > 0 /\ c \in 0..Len(log)
  BY DEF IsOlder, IsLog
<1>4. p \in Nat /\ p < c /\ Piece(a, log, p, c)
  BY <1>3, Cursor DEF IsOlder
<1>5. Rises(a)
  BY <1>3, <1>4, PieceOfLog
<1>6. Len(b) > 0 /\ c < Len(log) /\ b[1] = log[c + 1]
  BY <1>3 DEF IsFolded
<1> HIDE DEF a, b, U, c, p
<1>7. Len(a) = c - p /\ Len(a) \in Nat /\ Len(b) \in Nat /\ 1 \in 1..Len(b) /\ 1 \in 1..Len(a)
      /\ \A i \in 1..Len(a) : a[i] = log[p + i] /\ p + i \in 1..Len(log) /\ p + i < c + 1
  BY <1>2, <1>3, <1>4, <1>6 DEF Piece
<1>8. /\ \A i \in 1..Len(log) : log[i].ev \in Nat
      /\ \A i, j \in 1..Len(log) : i < j => log[i].ev < log[j].ev
  BY SeqOfItsMembers DEF IsLog, Rises
<1>9. \A i \in 1..Len(a) : a[i].ev < b[1].ev /\ a[i].ev \in Nat /\ b[1].ev \in Nat
  <2>1. c + 1 \in 1..Len(log)
    BY <1>3, <1>6
  <2>2. QED
    BY <1>6, <1>7, <1>8, <2>1
<1>10. \A i \in 1..Len(b) : b[i].ev \in Nat /\ b[1].ev <= b[i].ev
  <2>1. \A i \in 1..Len(b) : b[i].ev \in Nat
    BY <1>1, <1>2
  <2>2. \A i \in 1..Len(b) : i = 1 \/ 1 < i
    BY <1>7
  <2>3. QED
    BY <1>2, <1>7, <2>1, <2>2 DEF Rises
<1>11. \A i \in 1..Len(b), j \in 1..Len(a) : a[j].ev < b[i].ev
  BY <1>9, <1>10
<1>12. m \in Seq(U) /\ IsMerge(m, a, b)
  <2>1. NewAtEnd(a, b)
    BY <1>11 DEF NewAtEnd
  <2>2. QED
    BY <1>1, <1>2, <1>3, <1>5, <2>1, MergeIs DEF m
<1> HIDE DEF m
<1>13. NoGap(m, from, log)
  <2> SUFFICES ASSUME NEW i \in from + 1..Len(log), NEW j \in 1..Len(m), log[i].ev <= m[j].ev
               PROVE  \E k \in 1..Len(m) : m[k].ev = log[i].ev
    BY DEF NoGap
  <2>1. \E k \in 1..Len(b) : log[i].ev <= b[k].ev
    <3>1. CASE j \in 1..Len(a)
      <4>1. i \in 1..Len(log) /\ log[i].ev \in Nat
        BY <1>3, <1>8
      <4>2. log[i].ev <= b[1].ev
        BY <1>9, <1>12, <3>1, <4>1 DEF IsMerge
      <4>3. QED
        BY <1>7, <4>2
    <3>2. CASE \E k \in 1..Len(b) : m[j] = b[k]
      BY <3>2
    <3>3. QED
      BY <1>12, <3>1, <3>2 DEF IsMerge
  <2>2. PICK k \in 1..Len(b) : b[k].ev = log[i].ev
    BY <1>2, <2>1 DEF NoGap
  <2>3. QED
    BY <1>12, <2>2 DEF IsMerge
<1>14. Len(m) > 0 /\ p < Len(log) /\ m[1] = log[p + 1]
  <2>1. Len(m) \in Nat
    BY <1>12 DEF IsMerge
  <2>2. QED
    BY <1>3, <1>4, <1>7, <1>12, <2>1 DEF IsMerge
<1>15. m = r.updates /\ r.cursor = p
  BY DEF m, a, b, p
<1>16. r \in [session : Sessions, updates : Seq(ToSet(log)), cursor : Nat, more : BOOLEAN]
  BY <1>12 DEF m, a, b, U, IsMerge
<1>17. r.more => p > 0
  BY DEF p
<1>18. QED
  BY <1>12, <1>13, <1>14, <1>15, <1>16, <1>17 DEF IsFolded, IsMerge

-----------------------------------------------------------------------------
(* The steps.                                                              *)

LEMMA LogStays ==
    ASSUME UNCHANGED <<script, sent>>
    PROVE  \A s : Log(s)' = Log(s)
BY DEF Log, Logged, Positions, InLog, Entry

LEMMA LogMoves ==
    ASSUME script' = script, sent' = sent + 1
    PROVE  \A s : Log(s)' = Logged(sent + 1, s)
BY DEF Log, Logged, Positions, InLog, Entry

LEMMA HistoryRests ==
    ASSUME HistoryInv, UNCHANGED <<script, sent, history>>
    PROVE  HistoryInv'
BY LogStays DEF HistoryInv, history

LEMMA LogNow == ASSUME sent \in Nat, NEW s PROVE IsLog(Log(s), sent)
BY LogRises DEF Log

LEMMA HistoryInit == Init => HistoryInv
BY DEF Init, HistoryInv

LEMMA HostEmitsKeeps ==
    ASSUME HistoryInv, HostEmits
    PROVE  HistoryInv'
<1>1. sent \in Nat /\ sent' = sent + 1 /\ script' = script /\ UNCHANGED history /\ sent + 1 \in Nat
  BY DEF HistoryInv, HostEmits
<1>2. ASSUME NEW s
      PROVE  /\ IsLog(Log(s), sent) /\ IsLog(Log(s)', sent + 1) /\ Extends(Log(s)', Log(s), sent)
  <2>1. Log(s)' = Logged(sent + 1, s)
    BY <1>1, LogMoves
  <2>2. QED
    BY <1>1, <2>1, LogRises, LogGrows DEF Log
<1>3. ASSUME NEW s
      PROVE  /\ \A d : IsPage(d, Log(s)) => IsPage(d, Log(s)')
             /\ \A o : IsOlder(o, Log(s)) => IsOlder(o, Log(s)')
             /\ \A h, from : from \in Nat /\ IsFolded(h, from, Log(s)) => IsFolded(h, from, Log(s)')
  BY <1>1, <1>2, KeptAsLogGrows
<1>4. UNCHANGED <<selected, poll, detail, hist, older>>
  BY <1>1 DEF history
<1>5. poll # None => IsPage(poll, Log(poll.session))'
  BY <1>3, <1>4 DEF HistoryInv
<1>6. detail # None => IsPage(detail, Log(detail.session))' /\ detail.cursor \in Nat
  BY <1>3, <1>4 DEF HistoryInv, IsPage
<1>7. older # None => IsOlder(older, Log(older.session))'
  BY <1>3, <1>4 DEF HistoryInv
<1>8. hist # None => IsFolded(hist, detail.cursor, Log(hist.session))'
  BY <1>3, <1>4, <1>6 DEF HistoryInv
<1>9. QED
  BY <1>1, <1>4, <1>5, <1>6, <1>7, <1>8 DEF HistoryInv

\* A page that starts no earlier than the one shown, folded into what was folded.
LEMMA FoldedIs ==
    ASSUME HistoryInv, NEW d, IsPage(d, Log(d.session)),
           detail # None /\ detail.session = d.session => detail.cursor <= d.cursor
    PROVE  Folded(d) # None /\ Folded(d).session = d.session /\ IsFolded(Folded(d), d.cursor, Log(d.session))
<1> DEFINE log == Log(d.session)  U == ToSet(log)  m == MergeUpdatePages(hist.updates, d.updates)
           next == [hist EXCEPT !.updates = m]
<1>1. IsLog(log, sent) /\ d \in [session : Sessions, updates : Seq(U), cursor : Nat, more : BOOLEAN]
  BY LogNow DEF HistoryInv, IsPage
<1>2. d # None /\ d.session \in Sessions /\ d.session # "none"
  BY <1>1, TranscriptPages DEF None
<1>3. CASE hist.session # d.session
  <2>1. Folded(d) = d
    BY <1>3 DEF Folded
  <2>2. QED
    BY <1>1, <1>2, <2>1, PageFolded
<1>4. CASE hist.session = d.session
  <2>1. hist # None
    BY <1>2, <1>4 DEF None
  <2>2. IsFolded(hist, detail.cursor, log) /\ detail # None /\ detail.session = d.session
    BY <1>4, <2>1 DEF HistoryInv
  <2>3. detail.cursor \in Nat /\ detail.cursor <= d.cursor
    BY <2>2 DEF HistoryInv, IsPage
  <2>4. hist \in [session : Sessions, updates : Seq(U), cursor : Nat, more : BOOLEAN]
        /\ Rises(hist.updates) /\ NoGap(hist.updates, detail.cursor, log)
    BY <2>2 DEF IsFolded
  <2>5. NewAtEnd(hist.updates, d.updates)
    BY <1>1, <2>3, <2>4, NewIsPastTheEnd
  <2>6. Rises(d.updates) /\ \A e \in U : e.ev \in Nat
    BY <1>1, PageFolded DEF IsFolded, IsLog
  <2>7. m \in Seq(U) /\ IsMerge(m, hist.updates, d.updates)
    BY <1>1, <2>4, <2>5, <2>6, MergeIs
  <2>8. Folded(d) = IF Fingerprint(next.updates) = Fingerprint(hist.updates) THEN hist ELSE next
    BY <1>4 DEF Folded
  <2> HIDE DEF m
  <2>9. next.updates = m /\ next.session = hist.session /\ next.cursor = hist.cursor /\ next.more = hist.more
        /\ next \in [session : Sessions, updates : Seq(U), cursor : Nat, more : BOOLEAN]
    BY <2>4, <2>7
  <2> HIDE DEF next
  <2>10. Fingerprint(next.updates) = Fingerprint(hist.updates) => m = hist.updates
    <3> SUFFICES ASSUME Fingerprint(m) = Fingerprint(hist.updates) PROVE m = hist.updates
      BY <2>9
    <3>1. Len(m) = Len(hist.updates)
      BY <2>4, <2>7, SameFingerprint
    <3>2. QED
      BY <2>7, <3>1 DEF IsMerge
  <2> DEFINE r == Folded(d)
  <2>11. /\ r.session = hist.session /\ r.cursor = hist.cursor /\ r.more = hist.more /\ r.updates = m
         /\ r \in [session : Sessions, updates : Seq(U), cursor : Nat, more : BOOLEAN]
    BY <2>4, <2>8, <2>9, <2>10
  <2> HIDE DEF r
  <2>12. IsFolded(r, d.cursor, log)
    <3> HIDE DEF log
    <3>1. QED
      BY <1>1, <2>2, <2>3, <2>11, FoldKeeps DEF m, log
  <2>13. r # None
    BY <1>2, <1>4, <2>11 DEF None
  <2>14. QED
    BY <1>4, <2>11, <2>12, <2>13 DEF r
<1>5. QED
  BY <1>3, <1>4

LEMMA DetailAskedKeeps ==
    ASSUME HistoryInv, DetailAsked
    PROVE  HistoryInv'
<1> DEFINE log == Log(selected)
           d == [session |-> selected, updates |-> PageBefore(log, Len(log)),
                 cursor |-> PageCursor(Len(log)), more |-> PageCursor(Len(log)) > 0]
<1>1. poll' = d /\ UNCHANGED <<selected, detail, hist, older, script, sent>>
  BY DEF DetailAsked, host, Log
<1>2. IsLog(log, sent) /\ selected \in Sessions
  BY LogNow DEF HistoryInv
<1>3. IsPage(d, log)
  <2> HIDE DEF log
  <2>1. QED
    BY <1>2, PageMade
<1>4. ASSUME detail # None, detail.session = selected PROVE detail.cursor <= d.cursor
  <2>1. PICK total \in 0..Len(log) : detail.cursor = PageCursor(total)
    BY <1>4 DEF HistoryInv, IsPage
  <2>2. Len(log) \in Nat /\ total \in Nat /\ total <= Len(log)
    BY <1>2 DEF IsLog
  <2>3. QED
    BY <2>1, <2>2, LaterPages
<1>5. d.session = selected
  OBVIOUS
<1> HIDE DEF d
<1>6. \A s : Log(s)' = Log(s)
  BY <1>1, LogStays
<1>7. IsPage(poll, Log(poll.session))'
  BY <1>1, <1>3, <1>5, <1>6
<1>8. (detail # None /\ detail.session = poll.session => detail.cursor <= poll.cursor)'
  BY <1>1, <1>4, <1>5
<1>9. QED
  BY <1>1, <1>6, <1>7, <1>8 DEF HistoryInv

LEMMA DetailAnsweredKeeps ==
    ASSUME HistoryInv, DetailAnswered
    PROVE  HistoryInv'
<1>1. poll # None /\ poll' = None /\ UNCHANGED <<selected, older, script, sent>>
  BY DEF DetailAnswered, host
<1>2. \A s : Log(s)' = Log(s)
  BY <1>1, LogStays
<1>3. CASE poll.session # selected
  <2>1. UNCHANGED <<detail, hist>>
    BY <1>3 DEF DetailAnswered
  <2>2. QED
    BY <1>1, <1>2, <2>1 DEF HistoryInv
<1>4. CASE poll.session = selected
  <2>1. detail' = poll /\ hist' = Folded(poll)
    BY <1>4 DEF DetailAnswered
  <2>2. IsPage(poll, Log(poll.session)) /\ (detail # None /\ detail.session = poll.session => detail.cursor <= poll.cursor)
    BY <1>1 DEF HistoryInv
  <2>3. Folded(poll) # None /\ Folded(poll).session = poll.session
        /\ IsFolded(Folded(poll), poll.cursor, Log(poll.session))
    BY <2>2, FoldedIs
  <2>4. (IsPage(detail, Log(detail.session)) /\ detail # None)'
    BY <1>1, <1>2, <2>1, <2>2
  <2>5. (detail.session = hist.session /\ IsFolded(hist, detail.cursor, Log(hist.session)))'
    BY <1>2, <2>1, <2>3
  <2>6. QED
    BY <1>1, <1>2, <2>4, <2>5 DEF HistoryInv
<1>5. QED
  BY <1>3, <1>4

LEMMA SelectSessionKeeps ==
    ASSUME HistoryInv, NEW s \in Sessions, SelectSession(s)
    PROVE  HistoryInv'
<1>1. selected' = s /\ UNCHANGED <<poll, detail, older, script, sent>>
  BY DEF SelectSession, host
<1>2. \A x : Log(x)' = Log(x)
  BY <1>1, LogStays
<1>3. CASE detail.session # s
  <2>1. hist' = hist
    BY <1>3 DEF SelectSession
  <2>2. QED
    BY <1>1, <1>2, <2>1 DEF HistoryInv
<1>4. CASE detail.session = s
  <2>1. hist' = Folded(detail)
    BY <1>4 DEF SelectSession
  <2>2. detail # None
    BY <1>4, TranscriptPages DEF None
  <2>3. IsPage(detail, Log(detail.session)) /\ detail.cursor \in Nat
    BY <2>2 DEF HistoryInv, IsPage
  <2>4. Folded(detail) # None /\ Folded(detail).session = detail.session
        /\ IsFolded(Folded(detail), detail.cursor, Log(detail.session))
    BY <2>3, FoldedIs
  <2>5. (detail.session = hist.session /\ IsFolded(hist, detail.cursor, Log(hist.session)))'
    BY <1>1, <1>2, <2>1, <2>4
  <2>6. QED
    BY <1>1, <1>2, <2>2, <2>5 DEF HistoryInv
<1>5. QED
  BY <1>3, <1>4

LEMMA LoadOlderKeeps ==
    ASSUME HistoryInv, LoadOlder
    PROVE  HistoryInv'
<1> DEFINE log == Log(selected)
           c == hist.cursor
           o == [session |-> selected, cursor |-> c, updates |-> PageBefore(log, c)]
<1>1. older' = o /\ UNCHANGED <<selected, poll, detail, hist, script, sent>> /\ hist.session = selected /\ hist.more
  BY DEF LoadOlder, host, Log
<1>2. selected \in Sessions /\ hist # None
  BY <1>1, TranscriptPages DEF HistoryInv, None
<1>3. IsFolded(hist, detail.cursor, log)
  BY <1>1, <1>2 DEF HistoryInv
<1>4. IsLog(log, sent) /\ Len(log) \in Nat
  BY LogNow DEF HistoryInv, IsLog
<1>5. c \in Nat /\ c > 0 /\ c < Len(log)
  BY <1>1, <1>3 DEF IsFolded
<1>6. c \in 0..Len(log) /\ c \in 1..Len(log)
  BY <1>4, <1>5
<1>7. PageBefore(log, c) \in Seq(ToSet(log)) /\ Piece(PageBefore(log, c), log, PageCursor(c), c)
  <2> HIDE DEF log, c
  <2>1. QED
    BY <1>4, <1>6, PageRead
<1>8. IsOlder(o, log) /\ o.session = selected
  BY <1>2, <1>5, <1>6, <1>7 DEF IsOlder
<1> HIDE DEF o
<1>9. \A s : Log(s)' = Log(s)
  BY <1>1, LogStays
<1>10. IsOlder(older, Log(older.session))'
  BY <1>1, <1>8, <1>9
<1>11. QED
  BY <1>1, <1>9, <1>10 DEF HistoryInv

LEMMA OlderAnsweredKeeps ==
    ASSUME HistoryInv, NEW eager \in BOOLEAN, OlderAnswered(eager)
    PROVE  HistoryInv'
<1>1. older # None /\ older' = None /\ UNCHANGED <<selected, poll, detail, script, sent>>
  BY DEF OlderAnswered, host
<1>2. \A s : Log(s)' = Log(s)
  BY <1>1, LogStays
<1>3. CASE hist.session # older.session \/ hist.cursor # older.cursor
  <2>1. hist' = hist
    BY <1>3 DEF OlderAnswered
  <2>2. QED
    BY <1>1, <1>2, <2>1 DEF HistoryInv
<1>4. CASE hist.session = older.session /\ hist.cursor = older.cursor
  <2> DEFINE log == Log(hist.session)
             r == OlderMerged
  <2>1. hist' = r
    BY <1>4 DEF OlderAnswered
  <2>2. IsOlder(older, log)
    BY <1>1, <1>4 DEF HistoryInv
  <2>3. older.session \in Sessions /\ older.cursor \in Nat
    BY <2>2 DEF IsOlder
  <2>4. hist # None
    BY <1>4, <2>3, TranscriptPages DEF None
  <2>5. IsFolded(hist, detail.cursor, log) /\ detail # None /\ detail.session = hist.session
    BY <2>4 DEF HistoryInv
  <2>6. detail.cursor \in Nat
    BY <2>5 DEF HistoryInv, IsPage
  <2>7. IsLog(log, sent)
    BY LogNow DEF HistoryInv
  <2>8. /\ r.session = hist.session /\ r.updates = MergeUpdatePages(older.updates, hist.updates)
        /\ r.cursor = PageCursor(older.cursor) /\ r.more = (PageCursor(older.cursor) > 0)
    BY DEF OlderMerged
  <2>9. MergeUpdatePages(older.updates, hist.updates) \in Seq(ToSet(log)) =>
           r \in [session : Sessions, updates : Seq(ToSet(log)), cursor : Nat, more : BOOLEAN]
    <3>1. PageCursor(older.cursor) \in Nat /\ hist.session \in Sessions
      BY <1>4, <2>3, Cursor
    <3> HIDE DEF log
    <3>2. QED
      BY <3>1 DEF OlderMerged
  <2> HIDE DEF r
  <2>10. IsFolded(r, detail.cursor, log)
    <3> HIDE DEF log
    <3>1. QED
      BY <1>4, <2>2, <2>5, <2>6, <2>7, <2>8, <2>9, OlderKeeps
  <2>11. r # None
    BY <1>4, <2>3, <2>8, TranscriptPages DEF None
  <2>12. (detail # None /\ detail.session = hist.session /\ IsFolded(hist, detail.cursor, Log(hist.session)))'
    BY <1>1, <1>2, <2>1, <2>5, <2>8, <2>10
  <2>13. QED
    BY <1>1, <1>2, <2>12 DEF HistoryInv
<1>5. QED
  BY <1>3, <1>4

LEMMA HistoryStep == HistoryInv /\ [Next]_vars => HistoryInv'
<1> SUFFICES ASSUME HistoryInv, [Next]_vars PROVE HistoryInv'
  OBVIOUS
<1>1. CASE UNCHANGED <<script, sent, history>>
  BY <1>1, HistoryRests
<1>2. CASE HostEmits
  BY <1>2, HostEmitsKeeps
<1>3. CASE DetailAsked
  BY <1>3, DetailAskedKeeps
<1>4. CASE DetailAnswered
  BY <1>4, DetailAnsweredKeeps
<1>5. CASE \E s \in Sessions : SelectSession(s)
  BY <1>5, SelectSessionKeeps
<1>6. CASE LoadOlder
  BY <1>6, LoadOlderKeeps
<1>7. CASE \E eager \in BOOLEAN : OlderAnswered(eager)
  BY <1>7, OlderAnsweredKeeps
<1>8. CASE StatusArrives \/ UpdateArrives \/ NotificationArrives \/ ShellArrives
  BY <1>1, <1>8 DEF StatusArrives, UpdateArrives, NotificationArrives, ShellArrives, Arrived
<1>9. CASE PromptCompleteArrives \/ PermissionArrives \/ PermissionResolvedArrives
  BY <1>1, <1>9 DEF PromptCompleteArrives, PermissionArrives, PermissionResolvedArrives, Arrived
<1>10. CASE FlushLive \/ \E answer \in {"event", "plan"} : AppendLocalLive(answer)
  BY <1>1, <1>10 DEF FlushLive, AppendLocalLive, host
<1>11. CASE \E h \in Attached : RemoveManaged(h)
  BY <1>1, <1>11 DEF RemoveManaged, host
<1>12. CASE \E r \in lists : ListsApplied(r) \/ \E f, g \in BOOLEAN : ListsAnswered(r, f, g)
  BY <1>1, <1>12 DEF ListsApplied, ListsAnswered, host
<1>13. CASE \E o \in {"cancelled", "already_finished", "not_found"} : CancelAnswered(o)
  BY <1>1, <1>13 DEF CancelAnswered, host
<1>14. CASE \E o \in {"killed", "already_exited", "not_found"} : KillAnswered(o)
  BY <1>1, <1>14 DEF KillAnswered, host
<1>15. CASE UNCHANGED vars
  BY <1>1, <1>15 DEF vars, host
<1>16. QED
  BY <1>2, <1>3, <1>4, <1>5, <1>6, <1>7, <1>8, <1>9, <1>10, <1>11, <1>12, <1>13, <1>14, <1>15 DEF Next

\* The raw pages rise, and begin where their cursor says.
LEMMA HistoryHolds == HistoryInv => HistoryInOrder
<1> SUFFICES ASSUME HistoryInv, hist # None
             PROVE  /\ \A i, j \in DOMAIN hist.updates : i < j => hist.updates[i].ev < hist.updates[j].ev
                    /\ hist.cursor > 0 => hist.updates[1] = Log(hist.session)[hist.cursor + 1]
  BY DEF HistoryInOrder, Log
<1>1. IsFolded(hist, detail.cursor, Log(hist.session))
  BY DEF HistoryInv
<1>2. DOMAIN hist.updates = 1..Len(hist.updates)
  BY <1>1 DEF IsFolded
<1>3. QED
  BY <1>1, <1>2 DEF IsFolded, Rises

\* Whatever the host emits, and whenever its pages are asked for and answered, the pages folded
\* together (useTimelineHistory) are in the order of the log and begin where their cursor says.
THEOREM HistoryStaysInOrder == Spec => []HistoryInOrder
<1>1. QED
  BY HistoryInit, HistoryStep, HistoryHolds, PTL DEF Spec

-----------------------------------------------------------------------------
(* What the list of tasks shows: the permissions and the interactions kept *)
(* are those of the open requests, and no others.                          *)

Of(p) == [id |-> script[p].u.id, session |-> script[p].session, handle |-> script[p].handle]
Nameless(p) == script[p].session = ""
OpenPermissions == {p \in 1..got : script[p].ch = "permission" /\ OpenRequest(p)}
OpenNotes == {p \in 1..got : script[p].ch = "note" /\ ~Nameless(p) /\ OpenRequest(p)}

AskedInv ==
    /\ sent \in Nat /\ got \in Nat /\ got <= sent /\ sent <= Len(script) /\ Len(script) \in Nat
    /\ "gone" \in DOMAIN left
    /\ \A g \in left.gone : g.at \in Nat /\ g.at <= got
    /\ \E r \in Scripts : script = r.events
    /\ permissions = {Of(p) : p \in OpenPermissions}
    /\ pending = {Of(p) : p \in OpenNotes}

LEMMA AskedInit == Init => AskedInv
<1> SUFFICES ASSUME Init PROVE AskedInv
  OBVIOUS
<1>1. PICK r \in Scripts : script = r.events /\ left = r.left
  BY DEF Init
<1>2. "gone" \in DOMAIN left /\ left.gone = {} /\ Len(script) \in Nat
  BY <1>1, TranscriptScripts
<1>3. sent = 0 /\ got = 0 /\ pending = {} /\ permissions = {}
  BY DEF Init
<1>4. OpenPermissions = {} /\ OpenNotes = {}
  BY <1>3 DEF OpenPermissions, OpenNotes
<1>5. QED
  BY <1>1, <1>2, <1>3, <1>4 DEF AskedInv

\* What an event closes, of the requests before it.
Closes(p, q) ==
    /\ script[q].u.id = script[p].u.id
    /\ IF script[p].ch = "permission" THEN script[q].ch = "resolved"
       ELSE script[q].ch = "note" /\ IsPendingInteraction(script[q].u)
                                 /\ script[q].u.type = "interaction_resolved"
IsRequest(p) ==
    \/ script[p].ch = "permission"
    \/ script[p].ch = "note" /\ IsPendingInteraction(script[p].u) /\ script[p].u.type = "pending_interaction"

\* An event delivered opens itself, if it is a request, and closes what it closes.
LEMMA OpenAfter ==
    ASSUME AskedInv, Arrived, UNCHANGED left, got < sent
    PROVE  /\ \A p \in 1..got : OpenRequest(p)' <=> OpenRequest(p) /\ ~Closes(p, got + 1)
           /\ \A p : p = got + 1 => (OpenRequest(p)' <=> IsRequest(p))
<1>1. /\ got \in Nat /\ got' = got + 1 /\ script' = script /\ left' = left
      /\ \A g \in left.gone : g.at \in Nat /\ g.at <= got
  BY DEF AskedInv, Arrived
<1>2. ASSUME NEW p \in 1..got PROVE OpenRequest(p)' <=> OpenRequest(p) /\ ~Closes(p, got + 1)
  <2>1. p + 1..got + 1 = (p + 1..got) \cup {got + 1}
    BY <1>1
  <2>2. (\E q \in p + 1..got + 1 : Closes(p, q)) <=> (\E q \in p + 1..got : Closes(p, q)) \/ Closes(p, got + 1)
    <3> HIDE DEF Closes
    <3>1. QED
      BY <2>1
  <2>3. OpenRequest(p) <=> /\ IsRequest(p) /\ ~\E q \in p + 1..got : Closes(p, q)
                           /\ ~\E g \in left.gone : g.handle = script[p].handle /\ g.at >= p
    BY DEF OpenRequest, IsRequest, Closes
  <2>4. OpenRequest(p)' <=> /\ IsRequest(p) /\ ~\E q \in p + 1..got + 1 : Closes(p, q)
                            /\ ~\E g \in left.gone : g.handle = script[p].handle /\ g.at >= p
    BY <1>1 DEF OpenRequest, IsRequest, Closes
  <2>5. QED
    BY <2>2, <2>3, <2>4
<1>3. ASSUME NEW p, p = got + 1 PROVE OpenRequest(p)' <=> IsRequest(p)
  <2>1. ~\E g \in left.gone : g.at >= p
    BY <1>1, <1>3
  <2>2. p + 1..got + 1 = {}
    BY <1>1, <1>3
  <2>3. OpenRequest(p)' <=> /\ IsRequest(p) /\ ~\E q \in p + 1..got + 1 : Closes(p, q)
                            /\ ~\E g \in left.gone : g.handle = script[p].handle /\ g.at >= p
    BY <1>1 DEF OpenRequest, IsRequest, Closes
  <2>4. QED
    BY <2>1, <2>2, <2>3
<1>4. QED
  BY <1>2, <1>3

LEMMA Interactions ==
    \A u : IsPendingInteraction(u) => u.type = "pending_interaction" \/ u.type = "interaction_resolved"
BY Zenon DEF IsPendingInteraction

\* What the two permission handlers do to the permissions kept.
PermissionsMove(n) ==
    /\ script[n].ch = "permission" => permissions' = permissions \cup {Of(n)}
    /\ script[n].ch = "resolved" => permissions' = {x \in permissions : x.id # script[n].u.id}
    /\ script[n].ch \notin {"permission", "resolved"} => permissions' = permissions

LEMMA PermissionsAfter ==
    ASSUME AskedInv, Arrived, UNCHANGED left, got < sent, PermissionsMove(got + 1)
    PROVE  (permissions = {Of(p) : p \in OpenPermissions})'
<1> DEFINE n == got + 1
<1>1. /\ got \in Nat /\ got' = n /\ script' = script /\ permissions = {Of(p) : p \in OpenPermissions}
      /\ 1..n = (1..got) \cup {n}
  BY DEF AskedInv, Arrived
<1>2. /\ \A p \in 1..got : OpenRequest(p)' <=> OpenRequest(p) /\ ~Closes(p, n)
      /\ \A p : p = n => (OpenRequest(p)' <=> IsRequest(p))
  BY OpenAfter
<1>3. \A p : Of(p)' = Of(p)
  BY <1>1 DEF Of
<1>4. PermissionsMove(n)
  OBVIOUS
<1> HIDE DEF n
<1>5. OpenPermissions' = {p \in 1..n : script[p].ch = "permission" /\ OpenRequest(p)'}
  BY <1>1 DEF OpenPermissions
<1>6. \A p \in OpenPermissions : p \in 1..got /\ script[p].ch = "permission" /\ OpenRequest(p)
  BY DEF OpenPermissions
<1>7. CASE script[n].ch = "permission"
  <2>1. OpenPermissions' = OpenPermissions \cup {n}
    BY <1>1, <1>2, <1>5, <1>7 DEF OpenPermissions, Closes, IsRequest
  <2>2. permissions' = permissions \cup {Of(n)}
    BY <1>7, <1>4 DEF PermissionsMove
  <2>3. QED
    BY <1>1, <1>3, <2>1, <2>2
<1>8. CASE script[n].ch = "resolved"
  <2>1. OpenPermissions' = {p \in OpenPermissions : script[p].u.id # script[n].u.id}
    BY <1>1, <1>2, <1>5, <1>8 DEF OpenPermissions, Closes
  <2>2. permissions' = {x \in permissions : x.id # script[n].u.id}
    BY <1>8, <1>4 DEF PermissionsMove
  <2>3. \A p : Of(p).id = script[p].u.id
    BY DEF Of
  <2>4. QED
    BY <1>1, <1>3, <2>1, <2>2, <2>3
<1>9. CASE script[n].ch \notin {"permission", "resolved"}
  <2>1. OpenPermissions' = OpenPermissions
    BY <1>1, <1>2, <1>5, <1>9 DEF OpenPermissions, Closes
  <2>2. permissions' = permissions
    BY <1>9, <1>4 DEF PermissionsMove
  <2>3. QED
    BY <1>1, <1>3, <2>1, <2>2
<1>10. QED
  BY <1>7, <1>8, <1>9

\* What the notification handler does to the interactions kept.
PendingMoves(n) ==
    LET others == {x \in pending : x.id # script[n].u.id}
        note   == script[n].ch = "note" /\ IsPendingInteraction(script[n].u)
    IN /\ note /\ script[n].u.type = "interaction_resolved" => pending' = others
       /\ note /\ script[n].u.type # "interaction_resolved" /\ Nameless(n) => pending' = pending
       /\ note /\ script[n].u.type # "interaction_resolved" /\ ~Nameless(n) => pending' = others \cup {Of(n)}
       /\ ~note => pending' = pending

LEMMA PendingAfter ==
    ASSUME AskedInv, Arrived, UNCHANGED left, got < sent, PendingMoves(got + 1)
    PROVE  (pending = {Of(p) : p \in OpenNotes})'
<1> DEFINE n == got + 1
<1>1. /\ got \in Nat /\ got' = n /\ script' = script /\ pending = {Of(p) : p \in OpenNotes}
      /\ 1..n = (1..got) \cup {n} /\ n \in 1..Len(script) /\ \A p \in 1..got : p \in 1..Len(script)
  BY DEF AskedInv, Arrived
<1>2. /\ \A p \in 1..got : OpenRequest(p)' <=> OpenRequest(p) /\ ~Closes(p, n)
      /\ \A p : p = n => (OpenRequest(p)' <=> IsRequest(p))
  BY OpenAfter
<1>3. /\ \A p : Of(p)' = Of(p)
      /\ \A p : Nameless(p)' <=> Nameless(p)
  <2>1. \A p : Of(p)' = Of(p)
    BY <1>1 DEF Of
  <2>2. \A p : Nameless(p)' <=> Nameless(p)
    BY <1>1, Zenon DEF Nameless
  <2>3. QED
    BY <2>1, <2>2
<1>4. PendingMoves(n)
  OBVIOUS
<1> HIDE DEF n
<1>5. OpenNotes' = {p \in 1..n : script[p].ch = "note" /\ ~Nameless(p) /\ OpenRequest(p)'}
  BY <1>1, <1>3 DEF OpenNotes
<1>6. \A p \in OpenNotes : p \in 1..got /\ script[p].ch = "note" /\ IsRequest(p)
  BY DEF OpenNotes, OpenRequest, IsRequest
<1> DEFINE others == {x \in pending : x.id # script[n].u.id}
           note == script[n].ch = "note" /\ IsPendingInteraction(script[n].u)
           closing == note /\ script[n].u.type = "interaction_resolved"
<1>7. CASE closing
  <2>1. OpenNotes' = {p \in OpenNotes : script[p].u.id # script[n].u.id}
    <3>1. ~IsRequest(n)
      BY <1>7 DEF IsRequest
    <3>2. \A p \in 1..got : script[p].ch = "note" => (Closes(p, n) <=> script[p].u.id = script[n].u.id)
      BY <1>7 DEF Closes
    <3>3. QED
      BY <1>1, <1>2, <1>5, <3>1, <3>2 DEF OpenNotes
  <2>2. pending' = others
    BY <1>4, <1>7 DEF PendingMoves
  <2>3. \A p : Of(p).id = script[p].u.id
    BY DEF Of
  <2>4. QED
    BY <1>1, <1>3, <2>1, <2>2, <2>3
<1>8. CASE ~closing
  <2>1. \A p \in 1..got : script[p].ch = "note" => ~Closes(p, n)
    BY <1>8 DEF Closes
  <2>2. CASE note /\ ~Nameless(n)
    <3>1. script[n].u.type = "pending_interaction" /\ IsRequest(n) /\ script[n].ch = "note"
      BY <1>8, <2>2, Interactions DEF IsRequest
    <3>2. OpenNotes' = OpenNotes \cup {n}
      BY <1>1, <1>2, <1>5, <2>1, <2>2, <3>1 DEF OpenNotes
    <3>3. pending' = others \cup {Of(n)}
      BY <1>4, <1>8, <2>2 DEF PendingMoves
    <3>4. ASSUME NEW p \in OpenNotes, Of(p).id = script[n].u.id PROVE Of(p) = Of(n)
      <4>1. PICK r \in Scripts : script = r.events
        BY DEF AskedInv
      <4>2. p \in 1..Len(r.events) /\ n \in 1..Len(r.events) /\ Asks(r, p) /\ Asks(r, n)
        BY <1>1, <1>6, <3>1, <4>1 DEF Asks, IsRequest
      <4>3. script[p].u.id = script[n].u.id
        BY <3>4 DEF Of
      <4>4. script[p].session = script[n].session /\ script[p].handle = script[n].handle
        BY <4>1, <4>2, <4>3, TranscriptScripts
      <4>5. QED
        BY <4>3, <4>4 DEF Of
    <3>5. others \cup {Of(n)} = pending \cup {Of(n)}
      BY <1>1, <3>4
    <3>6. QED
      BY <1>1, <1>3, <3>2, <3>3, <3>5
  <2>3. CASE note /\ Nameless(n)
    <3>1. OpenNotes' = OpenNotes
      BY <1>1, <1>2, <1>5, <2>1, <2>3 DEF OpenNotes
    <3>2. pending' = pending
      BY <1>4, <1>8, <2>3 DEF PendingMoves
    <3>3. QED
      BY <1>1, <1>3, <3>1, <3>2
  <2>4. CASE ~note
    <3>1. script[n].ch = "note" => ~IsRequest(n)
      BY <2>4 DEF IsRequest
    <3>2. OpenNotes' = OpenNotes
      BY <1>1, <1>2, <1>5, <2>1, <3>1 DEF OpenNotes
    <3>3. pending' = pending
      BY <1>4, <2>4 DEF PendingMoves
    <3>4. QED
      BY <1>1, <1>3, <3>2, <3>3
  <2>5. QED
    BY <2>2, <2>3, <2>4
<1>9. QED
  BY <1>7, <1>8

LEMMA ArrivedKeeps ==
    ASSUME AskedInv, Arrived, UNCHANGED left, got < sent, PermissionsMove(got + 1), PendingMoves(got + 1)
    PROVE  AskedInv'
<1>1. (permissions = {Of(p) : p \in OpenPermissions})'
  BY PermissionsAfter
<1>2. (pending = {Of(p) : p \in OpenNotes})'
  BY PendingAfter
<1>3. got' = got + 1 /\ UNCHANGED <<script, sent, left>>
  BY DEF Arrived
<1>4. (/\ sent \in Nat /\ got \in Nat /\ got <= sent /\ sent <= Len(script) /\ Len(script) \in Nat
       /\ "gone" \in DOMAIN left
       /\ \A g \in left.gone : g.at \in Nat /\ g.at <= got
       /\ \E r \in Scripts : script = r.events)'
  BY <1>3 DEF AskedInv
<1>5. QED
  BY <1>1, <1>2, <1>4 DEF AskedInv

\* A step that delivers nothing, removes no handle and touches no request.
LEMMA AskedRests ==
    ASSUME AskedInv, UNCHANGED <<script, got, permissions, pending>>,
           sent' = sent \/ (sent' = sent + 1 /\ sent < Len(script)),
           "gone" \in DOMAIN left', left'.gone = left.gone
    PROVE  AskedInv'
<1>1. \A p : Of(p)' = Of(p)
  BY DEF Of
<1>2. \A p : Nameless(p)' <=> Nameless(p)
  BY Zenon DEF Nameless
<1>3. \A p : OpenRequest(p)' <=> OpenRequest(p)
  BY DEF OpenRequest
<1>4. OpenPermissions' = OpenPermissions /\ OpenNotes' = OpenNotes
  BY <1>2, <1>3 DEF OpenPermissions, OpenNotes
<1>5. (permissions = {Of(p) : p \in OpenPermissions})' /\ (pending = {Of(p) : p \in OpenNotes})'
  BY <1>1, <1>4 DEF AskedInv
<1>6. (/\ sent \in Nat /\ got \in Nat /\ got <= sent /\ sent <= Len(script) /\ Len(script) \in Nat
       /\ "gone" \in DOMAIN left
       /\ \A g \in left.gone : g.at \in Nat /\ g.at <= got
       /\ \E r \in Scripts : script = r.events)'
  BY DEF AskedInv
<1>7. QED
  BY <1>5, <1>6 DEF AskedInv

\* A handle removed takes its requests with it, of both kinds.
LEMMA RemoveManagedKeeps ==
    ASSUME AskedInv, NEW h, RemoveManaged(h)
    PROVE  AskedInv'
<1>1. /\ UNCHANGED <<script, sent, got>>
      /\ pending' = {x \in pending : x.handle # h} /\ permissions' = {x \in permissions : x.handle # h}
  BY DEF RemoveManaged, host
<1>2. left'.gone = left.gone \cup {[handle |-> h, at |-> got]} /\ "gone" \in DOMAIN left'
  BY DEF RemoveManaged, AskedInv
<1>3. \A p : Of(p)' = Of(p) /\ Of(p).handle = script[p].handle
  BY <1>1 DEF Of
<1>4. \A p : Nameless(p)' <=> Nameless(p)
  BY <1>1, Zenon DEF Nameless
<1>5. ASSUME NEW p \in 1..got PROVE OpenRequest(p)' <=> OpenRequest(p) /\ script[p].handle # h
  <2>1. (\E g \in left'.gone : g.handle = script[p].handle /\ g.at >= p) <=>
           (\E g \in left.gone : g.handle = script[p].handle /\ g.at >= p) \/ script[p].handle = h
    <3>1. got >= p
      BY DEF AskedInv
    <3>2. [handle |-> h, at |-> got].handle = h /\ [handle |-> h, at |-> got].at = got
      OBVIOUS
    <3> DEFINE fresh == [handle |-> h, at |-> got]
    <3> HIDE DEF fresh
    <3>3. QED
      BY <1>2, <3>1, <3>2 DEF fresh
  <2>2. OpenRequest(p) <=> /\ IsRequest(p) /\ ~\E q \in p + 1..got : Closes(p, q)
                           /\ ~\E g \in left.gone : g.handle = script[p].handle /\ g.at >= p
    BY DEF OpenRequest, IsRequest, Closes
  <2>3. OpenRequest(p)' <=> /\ IsRequest(p) /\ ~\E q \in p + 1..got : Closes(p, q)
                            /\ ~\E g \in left'.gone : g.handle = script[p].handle /\ g.at >= p
    BY <1>1 DEF OpenRequest, IsRequest, Closes
  <2>4. QED
    BY <2>1, <2>2, <2>3
<1>6. /\ OpenPermissions' = {p \in OpenPermissions : script[p].handle # h}
      /\ OpenNotes' = {p \in OpenNotes : script[p].handle # h}
  BY <1>1, <1>4, <1>5 DEF OpenPermissions, OpenNotes
<1>7. (permissions = {Of(p) : p \in OpenPermissions})'
  BY <1>1, <1>3, <1>6 DEF AskedInv
<1>8. (pending = {Of(p) : p \in OpenNotes})'
  BY <1>1, <1>3, <1>6 DEF AskedInv
<1>9. (/\ sent \in Nat /\ got \in Nat /\ got <= sent /\ sent <= Len(script) /\ Len(script) \in Nat
       /\ "gone" \in DOMAIN left
       /\ \A g \in left.gone : g.at \in Nat /\ g.at <= got
       /\ \E r \in Scripts : script = r.events)'
  BY <1>1, <1>2 DEF AskedInv
<1>10. QED
  BY <1>7, <1>8, <1>9 DEF AskedInv

\* A notification that opens or closes an interaction, or is a card.
LEMMA NotificationMoves ==
    ASSUME NotificationArrives
    PROVE  PendingMoves(got + 1)
<1> DEFINE n == got + 1
           others == {x \in pending : x.id # script[n].u.id}
<1>1. script[n].ch = "note"
  BY Zenon DEF NotificationArrives, NextEvent
<1>2. CASE IsPendingInteraction(script[n].u)
  <2>1. pending' = IF script[n].u.type = "interaction_resolved" THEN others
                   ELSE IF Nameless(n) THEN pending ELSE others \cup {Of(n)}
    BY <1>2, Zenon DEF NotificationArrives, Nameless, Of
  <2> DEFINE closing == script[n].u.type = "interaction_resolved"
  <2>2. /\ closing => pending' = others
        /\ ~closing /\ Nameless(n) => pending' = pending
        /\ ~closing /\ ~Nameless(n) => pending' = others \cup {Of(n)}
    BY <2>1, Zenon
  <2>3. QED
    BY <1>1, <1>2, <2>2, Zenon DEF PendingMoves
<1>3. CASE ~IsPendingInteraction(script[n].u)
  <2>1. pending' = pending
    BY <1>3, Zenon DEF NotificationArrives
  <2>2. QED
    BY <1>3, <2>1 DEF PendingMoves
<1>4. QED
  BY <1>2, <1>3

\* An event that neither opens nor closes a request.
LEMMA OtherArrives ==
    ASSUME AskedInv, Arrived, UNCHANGED <<left, permissions, pending>>,
           \E ch \in {"status", "update", "shell", "done"} : NextEvent(ch)
    PROVE  AskedInv'
<1>1. got < sent /\ script[got + 1].ch \in {"status", "update", "shell", "done"}
  BY DEF NextEvent
<1>2. PermissionsMove(got + 1) /\ PendingMoves(got + 1)
  BY <1>1 DEF PermissionsMove, PendingMoves
<1>3. QED
  BY <1>1, <1>2, ArrivedKeeps

LEMMA AskedStep == AskedInv /\ [Next]_vars => AskedInv'
<1> SUFFICES ASSUME AskedInv, [Next]_vars PROVE AskedInv'
  OBVIOUS
<1>1. CASE HostEmits
  <2>1. UNCHANGED <<script, got, permissions, pending, left>> /\ sent' = sent + 1 /\ sent < Len(script)
    BY <1>1 DEF HostEmits, chrome
  <2>2. QED
    BY <2>1, AskedRests DEF AskedInv
<1>2. CASE StatusArrives \/ UpdateArrives \/ ShellArrives \/ PromptCompleteArrives
  <2>1. /\ Arrived /\ UNCHANGED <<left, permissions, pending>>
        /\ \E ch \in {"status", "update", "shell", "done"} : NextEvent(ch)
    BY <1>2 DEF StatusArrives, UpdateArrives, ShellArrives, PromptCompleteArrives, chrome
  <2>2. QED
    BY <2>1, OtherArrives
<1>3. CASE NotificationArrives
  <2>1. Arrived /\ UNCHANGED <<left, permissions>> /\ got < sent /\ script[got + 1].ch = "note"
    BY <1>3 DEF NotificationArrives, NextEvent
  <2>2. PermissionsMove(got + 1)
    BY <2>1 DEF PermissionsMove
  <2>3. QED
    BY <1>3, <2>1, <2>2, NotificationMoves, ArrivedKeeps
<1>4. CASE PermissionArrives \/ PermissionResolvedArrives
  <2>1. Arrived /\ UNCHANGED <<left, pending>> /\ got < sent /\ script[got + 1].ch \in {"permission", "resolved"}
    BY <1>4 DEF PermissionArrives, PermissionResolvedArrives, NextEvent
  <2>2. PermissionsMove(got + 1)
    BY <1>4 DEF PermissionArrives, PermissionResolvedArrives, NextEvent, PermissionsMove, Of
  <2>3. PendingMoves(got + 1)
    BY <2>1 DEF PendingMoves
  <2>4. QED
    BY <2>1, <2>2, <2>3, ArrivedKeeps
<1>5. CASE \E h \in Attached : RemoveManaged(h)
  BY <1>5, RemoveManagedKeeps
<1>6. ASSUME UNCHANGED <<script, sent, got, permissions, pending>>, "gone" \in DOMAIN left', left'.gone = left.gone
      PROVE  AskedInv'
  BY <1>6, AskedRests
<1>7. "gone" \in DOMAIN left
  BY DEF AskedInv
<1>8. CASE FlushLive \/ \E r \in lists : ListsApplied(r) \/ \E f, g \in BOOLEAN : ListsAnswered(r, f, g)
  BY <1>6, <1>7, <1>8 DEF FlushLive, ListsApplied, ListsAnswered, host, chrome
<1>9. CASE \E answer \in {"event", "plan"} : AppendLocalLive(answer)
  BY <1>6, <1>7, <1>9 DEF AppendLocalLive, host, chrome
<1>10. CASE \E o \in {"cancelled", "already_finished", "not_found"} : CancelAnswered(o)
  BY <1>6, <1>7, <1>10 DEF CancelAnswered, host, chrome
<1>11. CASE \E o \in {"killed", "already_exited", "not_found"} : KillAnswered(o)
  BY <1>6, <1>7, <1>11 DEF KillAnswered, host, chrome
<1>12. CASE DetailAsked
  BY <1>6, <1>7, <1>12 DEF DetailAsked, host, chrome
<1>13. CASE DetailAnswered \/ \E eager \in BOOLEAN : OlderAnswered(eager)
  BY <1>6, <1>7, <1>13 DEF DetailAnswered, OlderAnswered, host, chrome
<1>14. CASE \E s \in Sessions : SelectSession(s)
  BY <1>6, <1>7, <1>14 DEF SelectSession, host
<1>15. CASE LoadOlder
  BY <1>6, <1>7, <1>15 DEF LoadOlder, host, chrome
<1>16. CASE UNCHANGED vars
  BY <1>6, <1>7, <1>16 DEF vars, host, chrome
<1>17. QED
  BY <1>1, <1>2, <1>3, <1>4, <1>5, <1>8, <1>9, <1>10, <1>11, <1>12, <1>13, <1>14, <1>15, <1>16 DEF Next

LEMMA ListedIsAsked == AskedInv => NeedsInputIffAsked
<1> SUFFICES ASSUME AskedInv, NEW s \in Sessions
             PROVE  LET st == ManagedForSession(s).status
                        asked == st = "awaitingPermission" \/ \E p \in 1..got : script[p].session = s /\ OpenRequest(p)
                    IN /\ asked <=> ResolveCardState(st, FALSE, s \in NeedsInput) = "awaiting"
                       /\ asked <=> RankManagedCard(st, FALSE, s \in NeedsInput) = 1
  BY DEF NeedsInputIffAsked
<1> DEFINE st == ManagedForSession(s).status
           open == \E p \in 1..got : script[p].session = s /\ OpenRequest(p)
<1>1. permissions = {Of(p) : p \in OpenPermissions} /\ pending = {Of(p) : p \in OpenNotes}
  BY DEF AskedInv
<1>2. \A p : Of(p).session = script[p].session
  BY DEF Of
<1>3. s \in NeedsInput <=> \/ \E p \in OpenPermissions : script[p].session = s
                           \/ \E p \in OpenNotes : script[p].session = s
  BY <1>1, <1>2 DEF NeedsInput
<1>4. \A p : script[p].session = s => ~Nameless(p)
  BY TranscriptNames, Zenon DEF Nameless
<1>5. \A p \in 1..got : OpenRequest(p) => script[p].ch \in {"permission", "note"}
  BY DEF OpenRequest
<1>6. open <=> s \in NeedsInput
  BY <1>3, <1>4, <1>5 DEF OpenPermissions, OpenNotes
<1> DEFINE need == s \in NeedsInput
<1>7. need \in BOOLEAN
  OBVIOUS
<1> HIDE DEF st, need
<1>8. /\ (st = "awaitingPermission" \/ need) <=> ResolveCardState(st, FALSE, need) = "awaiting"
      /\ (st = "awaitingPermission" \/ need) <=> RankManagedCard(st, FALSE, need) = 1
  <2>1. CASE need
    BY <2>1 DEF ResolveCardState, RankManagedCard
  <2>2. CASE ~need
    BY <2>2 DEF ResolveCardState, RankManagedCard
  <2>3. QED
    BY <2>1, <2>2
<1>9. QED
  BY <1>6, <1>8 DEF st, need

\* Whatever the host emits, and whatever the user removes meanwhile, a session is shown as asking
\* for the user (taskListLifecycle, permissionsByTarget) exactly while a permission or an
\* interaction of it is open, or its handle says so.
THEOREM ListedIffAsked == Spec => []NeedsInputIffAsked
<1>1. QED
  BY AskedInit, AskedStep, ListedIsAsked, PTL DEF Spec

-----------------------------------------------------------------------------
(* Cards and lists of them.                                                *)

IsCard(c) == {"kind", "id", "own", "ev", "ts", "streaming"} \subseteq DOMAIN c /\ c.ts \in Nat
IsCards(list) ==
    /\ list = [i \in 1..Len(list) |-> list[i]] /\ Len(list) \in Nat
    /\ \A i \in 1..Len(list) : IsCard(list[i])

\* Two cards of one tool call, command, subagent or task.
SameIdentity(a, b) == a.kind \in IdentityKinds /\ a.id # "" /\ a.kind = b.kind /\ a.id = b.id
OneEach(list) == \A i, j \in 1..Len(list) : i # j => ~SameIdentity(list[i], list[j])
Good(list) == IsCards(list) /\ OneEach(list)
\* No card of the handle streams.
Still(c) == c.streaming = FALSE
Quiet(list, h) == \A i \in 1..Len(list) : list[i].own = h => Still(list[i])

\* A card rewritten: of the same identity; of the same owner, and not set to stream.
Rewrites(c, b) == IsCard(c) /\ c.kind = b.kind /\ c.id = b.id
Calms(c, b) == c.own = b.own /\ (Still(b) => Still(c))
Mapped(new, old) == new = [i \in 1..Len(old) |-> new[i]] /\ \A i \in 1..Len(old) : Rewrites(new[i], old[i])
\* Some of the cards, each from a place of its own.
Drawn(new, old) ==
    /\ new = [i \in 1..Len(new) |-> new[i]] /\ Len(new) \in Nat
    /\ \A i \in 1..Len(new) : \E a \in 1..Len(old) : new[i] = old[a]
    /\ \A i, j \in 1..Len(new) : i # j => \E a, b \in 1..Len(old) : a # b /\ new[i] = old[a] /\ new[j] = old[b]

LEMMA MappedKeeps ==
    ASSUME NEW old, IsCards(old), NEW new, Mapped(new, old)
    PROVE  /\ IsCards(new) /\ Len(new) = Len(old)
           /\ OneEach(old) => OneEach(new)
           /\ \A h : (\A i \in 1..Len(old) : new[i].own # h \/ Calms(new[i], old[i])) /\ Quiet(old, h) => Quiet(new, h)
<1>1. Len(new) = Len(old)
  <2>1. DOMAIN new = 1..Len(old) /\ Len(old) \in Nat
    BY DEF Mapped, IsCards
  <2>2. new \in Seq({new[i] : i \in 1..Len(old)})
    BY <2>1 DEF Mapped
  <2>3. QED
    BY <2>1, <2>2
<1>2. IsCards(new)
  BY <1>1 DEF Mapped, IsCards, Rewrites
<1>3. ASSUME OneEach(old) PROVE OneEach(new)
  <2> SUFFICES ASSUME NEW i \in 1..Len(old), NEW j \in 1..Len(old), i # j PROVE ~SameIdentity(new[i], new[j])
    BY <1>1 DEF OneEach
  <2>1. Rewrites(new[i], old[i]) /\ Rewrites(new[j], old[j]) /\ ~SameIdentity(old[i], old[j])
    BY <1>3 DEF Mapped, OneEach
  <2>2. QED
    BY <2>1 DEF Rewrites, SameIdentity
<1>4. \A h : (\A i \in 1..Len(old) : new[i].own # h \/ Calms(new[i], old[i])) /\ Quiet(old, h) => Quiet(new, h)
  BY <1>1 DEF Quiet, Calms
<1>5. QED
  BY <1>1, <1>2, <1>3, <1>4

LEMMA DrawnKeeps ==
    ASSUME NEW old, NEW new, Drawn(new, old)
    PROVE  /\ IsCards(old) => IsCards(new)
           /\ OneEach(old) => OneEach(new)
           /\ \A h : Quiet(old, h) => Quiet(new, h)
<1>1. IsCards(old) => IsCards(new)
  BY DEF Drawn, IsCards
<1>2. OneEach(old) => OneEach(new)
  BY DEF Drawn, OneEach
<1>3. \A h : Quiet(old, h) => Quiet(new, h)
  BY DEF Drawn, Quiet
<1>4. QED
  BY <1>1, <1>2, <1>3

\* The sequences of cards are those the library's operators are for.
LEMMA CardSeq ==
    ASSUME NEW list, IsCards(list)
    PROVE  /\ list \in Seq(ToSet(list)) /\ DOMAIN list = 1..Len(list)
           /\ ToSet(list) = {list[i] : i \in 1..Len(list)} /\ \A c \in ToSet(list) : IsCard(c)
<1>1. DOMAIN list = 1..Len(list) /\ Len(list) \in Nat
  BY DEF IsCards
<1>2. ToSet(list) = {list[i] : i \in 1..Len(list)}
  BY <1>1 DEF ToSet
<1>3. list \in [1..Len(list) -> ToSet(list)]
  BY <1>2 DEF IsCards
<1>4. QED
  BY <1>1, <1>2, <1>3 DEF IsCards

LEMMA SeqCards ==
    ASSUME NEW D, \A c \in D : IsCard(c), NEW list \in Seq(D)
    PROVE  IsCards(list)
  BY DEF IsCards

LEMMA EmptyCards == Good(<<>>) /\ Len(<<>>) = 0 /\ \A h : Quiet(<<>>, h)
  BY DEF Good, IsCards, OneEach, Quiet

\* One card rewritten in its place.
Placed(new, list, at, c) == new = [list EXCEPT ![at] = c]

LEMMA RewrittenAt ==
    ASSUME NEW list, IsCards(list), NEW at \in 1..Len(list), NEW c, Rewrites(c, list[at]),
           NEW new, Placed(new, list, at, c)
    PROVE  /\ Mapped(new, list)
           /\ \A i \in 1..Len(list) : new[i] = IF i = at THEN c ELSE list[i]
           /\ \A h : (c.own # h \/ Calms(c, list[at])) /\ Quiet(list, h) => Quiet(new, h)
<1>1. new = [i \in 1..Len(list) |-> IF i = at THEN c ELSE list[i]]
  BY DEF IsCards, Placed
<1>2. Mapped(new, list)
  BY <1>1 DEF Mapped, IsCards, Rewrites
<1>3. \A h : (c.own # h \/ Calms(c, list[at])) /\ Quiet(list, h) => Quiet(new, h)
  BY <1>1, <1>2, MappedKeeps DEF Calms, Quiet
<1>4. QED
  BY <1>1, <1>2, <1>3

LEMMA AppendedCard ==
    ASSUME NEW list, IsCards(list), NEW c, IsCard(c)
    PROVE  /\ IsCards(Append(list, c)) /\ Len(Append(list, c)) = Len(list) + 1
           /\ \A i \in 1..Len(list) : Append(list, c)[i] = list[i]
           /\ Append(list, c)[Len(list) + 1] = c
           /\ OneEach(list) /\ (\A i \in 1..Len(list) : ~SameIdentity(c, list[i])) => OneEach(Append(list, c))
           /\ \A h : Quiet(list, h) /\ (c.own = h => Still(c)) => Quiet(Append(list, c), h)
<1> DEFINE n == Len(list)
           new == Append(list, c)
<1>1. n \in Nat /\ Len(new) = n + 1 /\ new = [i \in 1..n + 1 |-> new[i]]
      /\ (\A i \in 1..n : new[i] = list[i]) /\ new[n + 1] = c
  <2> DEFINE D == ToSet(list) \cup {c}
  <2>1. list \in Seq(D) /\ c \in D
    BY CardSeq
  <2> HIDE DEF D
  <2>2. n \in Nat /\ new \in Seq(D) /\ Len(new) = n + 1
    BY <2>1
  <2>3. (\A i \in 1..n : new[i] = list[i]) /\ new[n + 1] = c
    BY <2>1
  <2> HIDE DEF new
  <2>4. new = [i \in 1..n + 1 |-> new[i]]
    BY <2>2
  <2>5. QED
    BY <2>2, <2>3, <2>4
<1> HIDE DEF new
<1>2. IsCards(new)
  BY <1>1 DEF IsCards
<1>3. ASSUME OneEach(list), \A i \in 1..n : ~SameIdentity(c, list[i]) PROVE OneEach(new)
  <2> SUFFICES ASSUME NEW i \in 1..n + 1, NEW j \in 1..n + 1, i # j PROVE ~SameIdentity(new[i], new[j])
    BY <1>1 DEF OneEach
  <2>1. CASE i \in 1..n /\ j \in 1..n
    BY <1>1, <1>3, <2>1 DEF OneEach
  <2>2. CASE i = n + 1
    <3>1. j \in 1..n
      BY <1>1, <2>2
    <3>2. QED
      BY <1>1, <1>3, <2>2, <3>1
  <2>3. CASE j = n + 1
    <3>1. i \in 1..n
      BY <1>1, <2>3
    <3>2. QED
      BY <1>1, <1>3, <2>3, <3>1 DEF SameIdentity
  <2>4. QED
    BY <1>1, <2>1, <2>2, <2>3
<1>4. ASSUME NEW h, Quiet(list, h), c.own = h => Still(c) PROVE Quiet(new, h)
  <2> SUFFICES ASSUME NEW i \in 1..n + 1, new[i].own = h PROVE Still(new[i])
    BY <1>1 DEF Quiet
  <2>1. CASE i \in 1..n
    BY <1>1, <1>4, <2>1 DEF Quiet
  <2>2. CASE i = n + 1
    BY <1>1, <1>4, <2>2
  <2>3. QED
    BY <1>1, <2>1, <2>2
<1>5. QED
  BY <1>1, <1>2, <1>3, <1>4 DEF new

\* The pieces a list is cut into.
LEMMA CutCards ==
    ASSUME NEW list, IsCards(list), NEW a \in Nat, NEW b \in Nat, a <= b, b <= Len(list)
    PROVE  Drawn(SubSeq(list, a + 1, b), list)
<1> DEFINE new == SubSeq(list, a + 1, b)
           n == Len(list)
           D == ToSet(list)
<1>1. list \in Seq(D) /\ n \in Nat
  BY CardSeq DEF IsCards
<1> HIDE DEF D
<1>2. new \in Seq(D) /\ Len(new) = b - a /\ Len(new) \in Nat /\ \A i \in 1..b - a : new[i] = list[a + i]
  BY <1>1
<1> HIDE DEF new
<1>3. \A i \in 1..b - a : a + i \in 1..n
  BY <1>1
<1>4. \A i, j \in 1..b - a : i # j => a + i # a + j
  OBVIOUS
<1>5. new = [i \in 1..Len(new) |-> new[i]]
  BY <1>2
<1>6. QED
  BY <1>2, <1>3, <1>4, <1>5 DEF Drawn, new

LEMMA AllDrawn == ASSUME NEW list, IsCards(list) PROVE Drawn(list, list)
  BY DEF Drawn, IsCards

LEMMA TrimKeeps ==
    ASSUME NEW list, IsCards(list), NEW state, NEW max \in Nat
    PROVE  Drawn(Trim(list, state, max).list, list)
<1>1. Len(list) \in Nat
  BY DEF IsCards
<1>2. CASE Len(list) <= max
  BY <1>2, AllDrawn DEF Trim
<1>3. CASE ~(Len(list) <= max)
  <2>1. PICK a : a = Len(list) - max
    OBVIOUS
  <2>2. a \in Nat /\ a <= Len(list) /\ Len(list) - max + 1 = a + 1
    BY <1>1, <1>3, <2>1
  <2>3. Trim(list, state, max).list = SubSeq(list, a + 1, Len(list))
    BY <1>3, <2>2 DEF Trim
  <2>4. QED
    BY <1>1, <2>2, <2>3, CutCards
<1>4. QED
  BY <1>2, <1>3

LEMMA OnlyDrawn ==
    ASSUME NEW list, IsCards(list), NEW S
    PROVE  Drawn(Only(list, S), list)
<1> DEFINE new == Only(list, S)
           D == ToSet(list)
<1>1. list \in Seq(D) /\ D = {list[i] : i \in 1..Len(list)}
  BY CardSeq
<1>2. new \in Seq(D) /\ \A i, j \in 1..Len(new) : i < j => \E a, b \in 1..Len(list) : a < b /\ new[i] = list[a] /\ new[j] = list[b]
  <2> HIDE DEF D
  <2>1. QED
    BY <1>1, OnlyKeeps, OnlyInOrder
<1> HIDE DEF new
<1>3. new = [i \in 1..Len(new) |-> new[i]] /\ Len(new) \in Nat /\ \A i \in 1..Len(new) : new[i] \in D
  BY <1>2
<1>4. \A i \in 1..Len(new) : \E a \in 1..Len(list) : new[i] = list[a]
  BY <1>1, <1>3
<1>5. ASSUME NEW i \in 1..Len(new), NEW j \in 1..Len(new), i # j
      PROVE  \E a, b \in 1..Len(list) : a # b /\ new[i] = list[a] /\ new[j] = list[b]
  <2>1. Len(list) \in Nat
    BY DEF IsCards
  <2>2. ASSUME i < j PROVE \E a, b \in 1..Len(list) : a # b /\ new[i] = list[a] /\ new[j] = list[b]
    <3>1. PICK a \in 1..Len(list), b \in 1..Len(list) : a < b /\ new[i] = list[a] /\ new[j] = list[b]
      BY <1>2, <2>2
    <3>2. a # b
      BY <2>1, <3>1
    <3>3. QED
      BY <3>1, <3>2
  <2>3. ASSUME j < i PROVE \E a, b \in 1..Len(list) : a # b /\ new[i] = list[a] /\ new[j] = list[b]
    <3>1. PICK a \in 1..Len(list), b \in 1..Len(list) : a < b /\ new[j] = list[a] /\ new[i] = list[b]
      BY <1>2, <2>3
    <3>2. a # b
      BY <2>1, <3>1
    <3>3. QED
      BY <3>1, <3>2
  <2>4. i < j \/ j < i
    BY <1>3, <1>5
  <2>5. QED
    BY <2>2, <2>3, <2>4
<1>6. QED
  BY <1>3, <1>4, <1>5 DEF Drawn, new

LEMMA ConcatCards ==
    ASSUME NEW a, IsCards(a), NEW b, IsCards(b)
    PROVE  /\ IsCards(a \o b) /\ Len(a \o b) = Len(a) + Len(b)
           /\ \A i \in 1..Len(a) : (a \o b)[i] = a[i]
           /\ \A i \in 1..Len(b) : (a \o b)[Len(a) + i] = b[i]
           /\ \A i \in 1..Len(a) + Len(b) : i \in 1..Len(a) \/ i - Len(a) \in 1..Len(b)
           /\ \A h : Quiet(a, h) /\ Quiet(b, h) => Quiet(a \o b, h)
<1> DEFINE D == ToSet(a) \cup ToSet(b)
           n == Len(a)
           m == Len(b)
           c == a \o b
<1>1. a \in Seq(D) /\ b \in Seq(D) /\ n \in Nat /\ m \in Nat
  BY CardSeq DEF IsCards
<1>2. \A x \in D : IsCard(x)
  BY CardSeq
<1> HIDE DEF D
<1>3. c \in Seq(D) /\ Len(c) = n + m
  BY <1>1
<1>4. (\A i \in 1..n : c[i] = a[i]) /\ \A i \in 1..m : c[n + i] = b[i]
  BY <1>1
<1>5. IsCards(c)
  BY <1>2, <1>3, SeqCards
<1>6. ASSUME NEW i \in 1..n + m PROVE i \in 1..n \/ (i - n \in 1..m /\ n + (i - n) = i)
  BY <1>1
<1> HIDE DEF c
<1>7. ASSUME NEW h, Quiet(a, h), Quiet(b, h) PROVE Quiet(c, h)
  <2> SUFFICES ASSUME NEW i \in 1..n + m, c[i].own = h PROVE Still(c[i])
    BY <1>3 DEF Quiet
  <2>1. CASE i \in 1..n
    BY <1>4, <1>7, <2>1 DEF Quiet
  <2>2. ASSUME NEW k \in 1..m, i = n + k PROVE Still(c[i])
    BY <1>4, <1>7, <2>2 DEF Quiet
  <2>3. QED
    BY <1>6, <2>1, <2>2
<1>8. QED
  BY <1>3, <1>4, <1>5, <1>6, <1>7 DEF c

LEMMA RemovedDrawn ==
    ASSUME NEW list, IsCards(list), NEW at \in 1..Len(list)
    PROVE  Drawn(RemoveAt(list, at), list)
<1> DEFINE n == Len(list)
           a == SubSeq(list, 1, at - 1)
           b == SubSeq(list, at + 1, n)
           new == a \o b
           D == ToSet(list)
<1>1. list \in Seq(D) /\ n \in Nat /\ at \in 1..n
  BY CardSeq DEF IsCards
<1> HIDE DEF D
<1>2. a \in Seq(D) /\ Len(a) = at - 1 /\ \A i \in 1..at - 1 : a[i] = list[i]
  BY <1>1
<1>3. b \in Seq(D) /\ Len(b) = n - at /\ \A i \in 1..n - at : b[i] = list[at + i]
  BY <1>1
<1>9. RemoveAt(list, at) = new
  BY DEF RemoveAt
<1> HIDE DEF a, b
<1>4. new \in Seq(D) /\ Len(new) = n - 1
  <2>1. a \in Seq(D) /\ b \in Seq(D) /\ Len(a) = at - 1 /\ Len(b) = n - at
    BY <1>2, <1>3
  <2>2. a \o b \in Seq(D) /\ Len(a \o b) = Len(a) + Len(b)
    BY <2>1
  <2>3. QED
    BY <1>1, <2>1, <2>2
<1>11. (\A i \in 1..Len(a) : new[i] = a[i]) /\ \A k \in 1..Len(b) : new[Len(a) + k] = b[k]
  BY <1>1, <1>2, <1>3
<1> HIDE DEF new
<1> DEFINE from(i) == IF i < at THEN i ELSE i + 1
<1>5. \A i \in 1..n - 1 : from(i) \in 1..n
  BY <1>1
<1>6. ASSUME NEW i \in 1..n - 1 PROVE new[i] = list[from(i)]
  <2>1. CASE i < at
    <3>1. i \in 1..at - 1 /\ i \in 1..Len(a)
      BY <1>1, <1>2, <2>1
    <3>2. new[i] = a[i]
      BY <1>11, <3>1
    <3>3. QED
      BY <1>2, <2>1, <3>1, <3>2
  <2>2. CASE ~(i < at)
    <3>1. PICK k : k = i - (at - 1)
      OBVIOUS
    <3>2. k \in 1..n - at /\ i = Len(a) + k /\ at + k = i + 1 /\ k \in 1..Len(b)
      BY <1>1, <1>2, <1>3, <2>2, <3>1
    <3>3. new[i] = b[k]
      BY <1>11, <3>2
    <3>4. QED
      BY <1>3, <2>2, <3>2, <3>3
  <2>3. QED
    BY <2>1, <2>2
<1>7. \A i, j \in 1..n - 1 : i # j => from(i) # from(j)
  BY <1>1
<1>8. new = [i \in 1..Len(new) |-> new[i]] /\ Len(new) \in Nat
  BY <1>1, <1>4
<1> HIDE DEF from
<1>10. QED
  BY <1>4, <1>5, <1>6, <1>7, <1>8, <1>9 DEF Drawn

-----------------------------------------------------------------------------
(* The first and the last of a set of places.                              *)

LEMMA LeastPlace ==
    ASSUME NEW S \in SUBSET Nat, S # {}
    PROVE  Min(S) \in S /\ \A x \in S : Min(S) <= x
<1>1. \E n \in S : \A m \in S : n <= m
  BY LeastOf
<1>2. QED
  BY <1>1 DEF Min

LEMMA LastPlace ==
    ASSUME NEW n \in Nat, NEW S \in SUBSET (1..n), S # {}
    PROVE  Max(S) \in S /\ \A x \in S : x <= Max(S)
<1> DEFINE T == {n - x : x \in S}
<1>1. T \in SUBSET Nat /\ T # {}
  <2>1. \A x \in S : n - x \in Nat
    OBVIOUS
  <2>2. QED
    BY <2>1
<1> HIDE DEF T
<1>2. PICK k \in T : \A m \in T : k <= m
  BY <1>1, LeastOf
<1>3. PICK y \in S : k = n - y
  BY DEF T
<1>4. \A x \in S : n - x \in T /\ x \in Nat
  BY DEF T
<1>5. \A x \in S : x <= y
  BY <1>2, <1>3, <1>4
<1>6. QED
  BY <1>5 DEF Max

LEMMA FindCardIs ==
    ASSUME NEW list, IsCards(list), NEW kind, NEW id
    PROVE  /\ FindCard(list, kind, id) = 0 =>
                  \A i \in 1..Len(list) : ~(list[i].kind = kind /\ list[i].id = id)
           /\ FindCard(list, kind, id) # 0 =>
                  /\ FindCard(list, kind, id) \in 1..Len(list)
                  /\ list[FindCard(list, kind, id)].kind = kind
                  /\ list[FindCard(list, kind, id)].id = id
           /\ FindCard(list, kind, id) \in Nat
<1> DEFINE at == {i \in DOMAIN list : list[i].kind = kind /\ list[i].id = id}
<1>1. at \in SUBSET (1..Len(list)) /\ at \in SUBSET Nat /\ Len(list) \in Nat /\ DOMAIN list = 1..Len(list)
  BY CardSeq DEF IsCards
<1>2. at # {} => Min(at) \in at
  <2> HIDE DEF at
  <2>1. QED
    BY <1>1, LeastPlace
<1>3. FindCard(list, kind, id) = IF at = {} THEN 0 ELSE Min(at)
  BY DEF FindCard
<1>4. QED
  BY <1>1, <1>2, <1>3

LEMMA SettledCards ==
    ASSUME NEW list, IsCards(list), NEW h
    PROVE  /\ Mapped(SettleStreaming(list, h), list)
           /\ Len(SettleStreaming(list, h)) = Len(list)
           /\ Quiet(SettleStreaming(list, h), h)
           /\ \A i \in 1..Len(list) : Calms(SettleStreaming(list, h)[i], list[i])
           /\ \A g : Quiet(list, g) => Quiet(SettleStreaming(list, h), g)
<1> DEFINE new == SettleStreaming(list, h)
<1>1. DOMAIN list = 1..Len(list) /\ \A i \in 1..Len(list) : IsCard(list[i])
  BY CardSeq DEF IsCards
<1>2. /\ new = [i \in 1..Len(list) |-> new[i]]
      /\ \A i \in 1..Len(list) : new[i] = IF list[i].own = h THEN [list[i] EXCEPT !.streaming = FALSE] ELSE list[i]
  BY <1>1 DEF SettleStreaming
<1> HIDE DEF new
<1>3. ASSUME NEW i \in 1..Len(list)
      PROVE  Rewrites(new[i], list[i]) /\ Calms(new[i], list[i]) /\ (new[i].own = h => Still(new[i]))
  <2>1. CASE list[i].own = h
    BY <1>1, <1>2, <2>1 DEF Rewrites, Calms, IsCard, Still
  <2>2. CASE list[i].own # h
    BY <1>1, <1>2, <2>2 DEF Rewrites, Calms
  <2>3. QED
    BY <2>1, <2>2
<1>4. Mapped(new, list)
  BY <1>2, <1>3 DEF Mapped
<1>5. Len(new) = Len(list) /\ \A g : Quiet(list, g) => Quiet(new, g)
  BY <1>3, <1>4, MappedKeeps
<1>6. Quiet(new, h)
  BY <1>3, <1>5 DEF Quiet
<1>7. QED
  BY <1>3, <1>4, <1>5, <1>6 DEF new

-----------------------------------------------------------------------------
(* The reducers.                                                           *)

TextKinds == {"user", "agent", "thought"}
\* What a parser makes of an update; none makes a card of the shell channel.
IsDesc(d) ==
    /\ {"kind", "id", "coalesce", "hidden", "goal"} \subseteq DOMAIN d
    /\ d.kind # "shell"
    /\ d.coalesce \in BOOLEAN /\ d.hidden \in BOOLEAN
    /\ d.coalesce => d.kind \in TextKinds
IsInput(in) == "desc" \in DOMAIN in /\ IsDesc(in.desc) /\ in.ts \in Nat
\* The card an input makes streams only if it is text of the live stream.
Silent(in) == ~IsTextUpdate(in.desc) \/ in.disk = TRUE

LEMMA Caps == \A disk : RetentionMax(disk) \in Nat
  BY TimelineCaps DEF RetentionMax

\* A list grown by one card and cut to its cap.
LEMMA TrimmedAppend ==
    ASSUME NEW list, Good(list), NEW c, IsCard(c), NEW st, NEW max \in Nat,
           \A i \in 1..Len(list) : ~SameIdentity(c, list[i])
    PROVE  /\ Good(Trim(Append(list, c), st, max).list)
           /\ \A h : Quiet(list, h) /\ (c.own = h => Still(c)) => Quiet(Trim(Append(list, c), st, max).list, h)
<1>1. Good(Append(list, c)) /\ \A h : Quiet(list, h) /\ (c.own = h => Still(c)) => Quiet(Append(list, c), h)
  BY AppendedCard DEF Good
<1>2. Drawn(Trim(Append(list, c), st, max).list, Append(list, c))
  BY <1>1, TrimKeeps DEF Good
<1>3. QED
  BY <1>1, <1>2, DrawnKeeps DEF Good

LEMMA ReplacedCard ==
    ASSUME NEW list, Good(list), NEW at \in 1..Len(list), NEW c, Rewrites(c, list[at]),
           NEW new, Placed(new, list, at, c)
    PROVE  /\ Good(new) /\ Len(new) = Len(list)
           /\ \A i \in 1..Len(list) : new[i] = IF i = at THEN c ELSE list[i]
           /\ \A h : (c.own # h \/ Calms(c, list[at])) /\ Quiet(list, h) => Quiet(new, h)
<1>1. IsCards(list)
  BY DEF Good
<1>2. /\ Mapped(new, list)
      /\ \A i \in 1..Len(list) : new[i] = IF i = at THEN c ELSE list[i]
      /\ \A h : (c.own # h \/ Calms(c, list[at])) /\ Quiet(list, h) => Quiet(new, h)
  BY <1>1, RewrittenAt
<1>3. Good(new) /\ Len(new) = Len(list)
  BY <1>1, <1>2, MappedKeeps DEF Good
<1>4. QED
  BY <1>2, <1>3

\* The cards the reducer makes or rewrites.
LEMMA BlankIsCard == IsCard(BlankCard)
  BY DEF IsCard, BlankCard

LEMMA NewCardIs ==
    ASSUME NEW in, in.ts \in Nat
    PROVE  /\ IsCard(NewCard(in)) /\ NewCard(in).kind = in.desc.kind /\ NewCard(in).id = in.desc.id
           /\ NewCard(in).own = in.own /\ (Silent(in) => Still(NewCard(in)))
<1>1. /\ IsCard(NewCard(in)) /\ NewCard(in).kind = in.desc.kind /\ NewCard(in).id = in.desc.id
      /\ NewCard(in).own = in.own
  BY DEF NewCard, BlankCard, IsCard
<1>2. ASSUME Silent(in) PROVE Still(NewCard(in))
  <2>1. NewCard(in).streaming = (IsTextUpdate(in.desc) /\ ~in.disk)
    BY DEF NewCard, BlankCard
  <2>2. CASE ~IsTextUpdate(in.desc)
    BY <2>1, <2>2 DEF Still
  <2>3. CASE in.disk = TRUE
    BY <2>1, <2>3 DEF Still
  <2>4. QED
    BY <1>2, <2>2, <2>3 DEF Silent
<1>3. QED
  BY <1>1, <1>2

LEMMA GrownIs ==
    ASSUME NEW in, in.ts \in Nat, NEW b, IsCard(b)
    PROVE  /\ Rewrites(Grown(b, in), b) /\ Grown(b, in).own = b.own
           /\ in.disk = TRUE => Still(Grown(b, in))
<1>1. Rewrites(Grown(b, in), b) /\ Grown(b, in).own = b.own /\ Grown(b, in).streaming = ~in.disk
  BY DEF Grown, IsCard, Rewrites
<1>2. QED
  BY <1>1 DEF Still

LEMMA MergedToolIs ==
    ASSUME NEW in, in.ts \in Nat, NEW b, IsCard(b)
    PROVE  Rewrites(MergedTool(b, in), b) /\ Calms(MergedTool(b, in), b)
  BY DEF MergedTool, IsCard, Rewrites, Calms, Still

LEMMA LifecycleIs ==
    ASSUME NEW in, in.ts \in Nat, NEW b, IsCard(b)
    PROVE  /\ IsCard(LifecycleCard(b, in)) /\ Still(LifecycleCard(b, in))
           /\ LifecycleCard(b, in).kind = in.desc.kind /\ LifecycleCard(b, in).id = in.desc.id
           /\ LifecycleCard(b, in).own = in.own
  BY DEF LifecycleCard, IsCard, Still

LEMMA LastCard ==
    ASSUME NEW list, IsCards(list), list # <<>>
    PROVE  Len(list) \in 1..Len(list)
<1>1. PICK D : list \in Seq(D)
  BY CardSeq
<1>2. QED
  BY <1>1

LEMMA ReducedKeeps ==
    ASSUME NEW list0, Good(list0), NEW in, IsInput(in), NEW st
    PROVE  /\ Good(ReduceAgentUpdate(list0, in, st).list)
           /\ \A h : Quiet(list0, h) /\ (in.own # h \/ Silent(in)) => Quiet(ReduceAgentUpdate(list0, in, st).list, h)
<1> DEFINE d == Enriched(in.desc, list0, in.ts)
           i == [in EXCEPT !.desc = d]
           list == IF IsTextUpdate(d) THEN list0 ELSE SettleStreaming(list0, in.own)
           at == FindCard(list, d.kind, d.id)
           told == [st EXCEPT !.goals = IF d.goal = "" THEN @ ELSE @ \cup {d.goal}]
           max == RetentionMax(in.disk)
           isTool == d.kind = "tool" /\ d.id # ""
           hiddenAt == FindCard(list, "tool", d.id)
           g1 == d.goal # "" /\ d.goal \in st.goals
           g2 == isTool /\ d.hidden
           g3 == isTool /\ ~d.hidden /\ d.id \in st.suppressed
           g4 == Coalesces(list, d, in.own)
           g5 == isTool /\ ~d.hidden /\ d.id \notin st.suppressed /\ at > 0
           g6 == d.kind \in {"subagent", "task"} /\ d.id # ""
           r1 == [list |-> list0, rs |-> st]
           r2 == HiddenTool(list, d, st)
           r3 == SuppressedTool(list, d, st)
           r4 == [list |-> [list EXCEPT ![Len(list)] = Grown(@, i)], rs |-> st]
           r5 == [list |-> [list EXCEPT ![at] = MergedTool(@, i)], rs |-> st]
           r6 == Upsert(list, at, LifecycleCard(IF at > 0 THEN list[at] ELSE BlankCard, i), st, max)
           r7 == Trim(Append(list, NewCard(i)), told, max)
           out == ReduceAgentUpdate(list0, in, st)
           keeps(x) == Good(x) /\ \A h : Quiet(list0, h) /\ (in.own # h \/ Silent(in)) => Quiet(x, h)
<1>1. out = CASE g1 -> r1 [] g2 -> r2 [] g3 -> r3 [] g4 -> r4 [] g5 -> r5 [] g6 -> r6 [] OTHER -> r7
  BY DEF ReduceAgentUpdate
<1>2. IsDesc(d) /\ d.kind = in.desc.kind /\ d.id = in.desc.id /\ (IsTextUpdate(d) <=> IsTextUpdate(in.desc))
  BY DEF Enriched, IsInput, IsDesc, IsTextUpdate
<1> HIDE DEF d
<1>3. i.desc = d /\ i.own = in.own /\ i.ts = in.ts /\ i.disk = in.disk /\ i.ts \in Nat
  BY DEF IsInput
<1>4. (Silent(i) <=> Silent(in)) /\ max \in Nat
  BY <1>2, <1>3, Caps DEF Silent
<1> HIDE DEF i, max
<1>5. Good(list) /\ \A h : Quiet(list0, h) => Quiet(list, h)
  <2>1. CASE IsTextUpdate(d)
    BY <2>1
  <2>2. CASE ~IsTextUpdate(d)
    BY <2>2, SettledCards, MappedKeeps DEF Good
  <2>3. QED
    BY <2>1, <2>2
<1> HIDE DEF list
<1>6. IsCards(list) /\ Len(list) \in Nat /\ \A k \in 1..Len(list) : IsCard(list[k])
  BY <1>5 DEF Good, IsCards
<1>7. /\ at = 0 => \A k \in 1..Len(list) : ~(list[k].kind = d.kind /\ list[k].id = d.id)
      /\ at # 0 => at \in 1..Len(list) /\ list[at].kind = d.kind /\ list[at].id = d.id
      /\ at \in Nat
  BY <1>6, FindCardIs
<1>20. at > 0 => at \in 1..Len(list)
  BY <1>7
<1>21. at > 0 => list[at].kind = d.kind /\ list[at].id = d.id
  BY <1>7
<1>22. ASSUME ~(at > 0) PROVE at = 0
  BY <1>7, <1>22
<1>23. ~(at > 0) => \A k \in 1..Len(list) : ~(list[k].kind = d.kind /\ list[k].id = d.id)
  BY <1>7, <1>22
<1>8. hiddenAt # 0 => hiddenAt \in 1..Len(list)
  BY <1>6, FindCardIs
<1> HIDE DEF at, hiddenAt
<1>9. ASSUME isTool PROVE ~g4 /\ ~g6 /\ ~IsTextUpdate(d)
  <2>1. ~IsTextUpdate(d)
    BY <1>2, <1>9 DEF IsTextUpdate, IsDesc, TextKinds
  <2>2. QED
    BY <1>9, <2>1 DEF Coalesces
<1>10. g1 => keeps(r1.list)
  OBVIOUS
<1>11. ASSUME g2 PROVE keeps(r2.list)
  <2>1. r2.list = IF hiddenAt = 0 THEN list ELSE RemoveAt(list, hiddenAt)
    BY DEF HiddenTool, hiddenAt
  <2> HIDE DEF r2
  <2>2. CASE hiddenAt = 0
    BY <1>5, <2>1, <2>2
  <2>3. ASSUME hiddenAt # 0 PROVE keeps(r2.list)
    <3>1. Drawn(r2.list, list)
      BY <1>6, <1>8, <2>1, <2>3, RemovedDrawn
    <3>2. QED
      BY <1>5, <3>1, DrawnKeeps DEF Good
  <2>4. QED
    BY <2>2, <2>3
<1>12. g3 => keeps(r3.list)
  BY <1>5 DEF SuppressedTool
<1>13. ASSUME g4 PROVE keeps(r4.list)
  <2>1. list # <<>> /\ Last(list).own = in.own
    BY <1>13 DEF Coalesces
  <2>2. Len(list) \in 1..Len(list)
    BY <1>6, <2>1, LastCard
  <2>3. Last(list) = list[Len(list)]
    BY DEF Last
  <2> DEFINE c == Grown(list[Len(list)], i)
  <2>4. /\ Rewrites(c, list[Len(list)]) /\ c.own = in.own
        /\ in.disk = TRUE => Still(c)
    <3>1. i.ts \in Nat /\ i.disk = in.disk /\ IsCard(list[Len(list)]) /\ list[Len(list)].own = in.own
      BY <1>3, <1>6, <2>1, <2>2, <2>3
    <3>2. /\ Rewrites(c, list[Len(list)]) /\ c.own = list[Len(list)].own
          /\ i.disk = TRUE => Still(c)
      BY <3>1, GrownIs
    <3>3. QED
      BY <3>1, <3>2
  <2>5. Placed(r4.list, list, Len(list), c)
    BY DEF Placed
  <2> HIDE DEF c, r4
  <2>6. Good(r4.list) /\ \A h : (c.own # h \/ Calms(c, list[Len(list)])) /\ Quiet(list, h) => Quiet(r4.list, h)
    BY <1>5, <2>2, <2>4, <2>5, ReplacedCard
  <2>7. ASSUME NEW h, Quiet(list0, h), in.own # h \/ Silent(in) PROVE Quiet(r4.list, h)
    <3>1. CASE in.own # h
      BY <1>5, <2>4, <2>6, <2>7, <3>1
    <3>2. CASE Silent(in)
      <4>1. in.disk = TRUE
        BY <1>2, <1>13, <3>2 DEF Coalesces, Silent
      <4>2. Calms(c, list[Len(list)])
        BY <2>1, <2>3, <2>4, <4>1 DEF Calms
      <4>3. QED
        BY <1>5, <2>6, <2>7, <4>2
    <3>3. QED
      BY <2>7, <3>1, <3>2
  <2>8. QED
    BY <2>6, <2>7
<1>14. ASSUME g5 PROVE keeps(r5.list)
  <2>1. at \in 1..Len(list)
    BY <1>14, <1>20
  <2> DEFINE c == MergedTool(list[at], i)
  <2>2. Rewrites(c, list[at]) /\ Calms(c, list[at])
    BY <1>3, <1>6, <2>1, MergedToolIs
  <2>3. Placed(r5.list, list, at, c)
    BY DEF Placed
  <2> HIDE DEF c, r5
  <2>4. QED
    BY <1>5, <2>1, <2>2, <2>3, ReplacedCard
<1>15. ASSUME g6 PROVE keeps(r6.list)
  <2> DEFINE prev == IF at > 0 THEN list[at] ELSE BlankCard
             c == LifecycleCard(prev, i)
  <2>1. IsCard(prev)
    BY <1>6, <1>7, BlankIsCard
  <2> HIDE DEF prev
  <2>2. IsCard(c) /\ Still(c) /\ c.kind = d.kind /\ c.id = d.id /\ c.own = in.own
    BY <1>3, <2>1, LifecycleIs
  <2>3. r6 = Upsert(list, at, c, st, max)
    BY DEF prev
  <2> HIDE DEF c, r6
  <2>4. ASSUME at > 0 PROVE keeps(r6.list)
    <3>1. at \in 1..Len(list) /\ Rewrites(c, list[at])
      BY <1>20, <1>21, <2>2, <2>4 DEF Rewrites
    <3>2. Placed(r6.list, list, at, c)
      BY <2>3, <2>4 DEF Upsert, Placed
    <3>3. Good(r6.list) /\ \A h : (c.own # h \/ Calms(c, list[at])) /\ Quiet(list, h) => Quiet(r6.list, h)
      BY <1>5, <3>1, <3>2, ReplacedCard
    <3>4. ASSUME NEW h, Quiet(list, h) PROVE Quiet(r6.list, h)
      <4>0. Good(list)
        BY <1>5
      <4>1. /\ Good(r6.list) /\ Len(r6.list) = Len(list)
            /\ \A k \in 1..Len(list) : r6.list[k] = IF k = at THEN c ELSE list[k]
            /\ \A g : (c.own # g \/ Calms(c, list[at])) /\ Quiet(list, g) => Quiet(r6.list, g)
        BY <3>1, <3>2, <4>0, ReplacedCard, Zenon
      <4>2. QED
        BY <2>2, <3>4, <4>1 DEF Quiet
    <3>5. QED
      BY <1>5, <3>3, <3>4
  <2>5. ASSUME ~(at > 0) PROVE keeps(r6.list)
    <3>1. r6 = Trim(Append(list, c), st, max)
      BY <2>3, <2>5 DEF Upsert
    <3>2. \A k \in 1..Len(list) : ~SameIdentity(c, list[k])
      BY <1>23, <2>2, <2>5 DEF SameIdentity
    <3>3. QED
      BY <1>4, <1>5, <2>2, <3>1, <3>2, TrimmedAppend
  <2>6. QED
    BY <2>4, <2>5
<1>16. ASSUME ~g2, ~g3, ~g5, ~g6 PROVE keeps(r7.list)
  <2> DEFINE c == NewCard(i)
  <2>1. IsCard(c) /\ c.kind = d.kind /\ c.id = d.id /\ c.own = in.own /\ (Silent(in) => Still(c))
    BY <1>3, <1>4, NewCardIs
  <2> HIDE DEF c
  <2>2. isTool => ~(at > 0)
    BY <1>2, <1>16 DEF IsDesc
  <2>3. \A k \in 1..Len(list) : ~SameIdentity(c, list[k])
    BY <1>2, <1>16, <1>23, <2>1, <2>2 DEF SameIdentity, IdentityKinds, IsDesc
  <2>4. r7 = Trim(Append(list, c), told, max)
    BY DEF c
  <2> HIDE DEF r7, told
  <2>5. QED
    BY <1>4, <1>5, <2>1, <2>3, <2>4, TrimmedAppend
<1> HIDE DEF g1, g2, g3, g4, g5, g6, r1, r2, r3, r4, r5, r6, r7
<1>17. \/ g1 /\ out = r1
       \/ g2 /\ out = r2
       \/ g3 /\ out = r3
       \/ g4 /\ out = r4
       \/ g5 /\ out = r5
       \/ g6 /\ out = r6
       \/ ~g1 /\ ~g2 /\ ~g3 /\ ~g4 /\ ~g5 /\ ~g6 /\ out = r7
  <2> HIDE DEF out
  <2>1. QED
    BY <1>1
<1> HIDE DEF out, keeps
<1>18. keeps(out.list)
  BY <1>10, <1>11, <1>12, <1>13, <1>14, <1>15, <1>16, <1>17
<1>19. QED
  BY <1>18 DEF keeps, out

\* The shell channel: the card of the call grows, or there was none and one is added.
LEMMA ShellKeeps ==
    ASSUME NEW list, Good(list), NEW e, e.ts \in Nat, NEW st, NEW max \in Nat
    PROVE  /\ Good(ReduceShellUpdate(list, e, st, max).list)
           /\ \A h : Quiet(list, h) => Quiet(ReduceShellUpdate(list, e, st, max).list, h)
<1> DEFINE at == ShellAt(list, st, e.id)
           text == ShellOutput(list[at].text, e)
           c == [list[at] EXCEPT !.text = text, !.status = e.status, !.ts = e.ts]
           new == IF at > 0 THEN [list EXCEPT ![at].text = text, ![at].status = e.status, ![at].ts = e.ts]
                  ELSE Append(list, ShellCard(e))
           ix == (e.id :> (IF at > 0 THEN at ELSE Len(new))) @@ st.shellIx
           st2 == [st EXCEPT !.shellIx = ix]
           cut == Trim(new, st2, max)
           same == at > 0 /\ text = list[at].text /\ e.status = list[at].status
           out == ReduceShellUpdate(list, e, st, max)
<1>1. out = IF same THEN [list |-> list, rs |-> st]
            ELSE [cut EXCEPT !.rs.shellIx = IF @ = << >> THEN ShellPositions(cut.list) ELSE @]
  BY DEF ReduceShellUpdate
<1>2. IsCards(list) /\ Len(list) \in Nat /\ DOMAIN list = 1..Len(list) /\ \A i \in 1..Len(list) : IsCard(list[i])
  BY CardSeq DEF Good, IsCards
<1>3. /\ FindCard(list, "shell", e.id) = 0 => \A i \in 1..Len(list) : ~(list[i].kind = "shell" /\ list[i].id = e.id)
      /\ FindCard(list, "shell", e.id) # 0 => FindCard(list, "shell", e.id) \in 1..Len(list)
      /\ FindCard(list, "shell", e.id) \in Nat
  BY <1>2, FindCardIs
<1>4. at \in DOMAIN list \/ at = FindCard(list, "shell", e.id)
  BY DEF ShellAt
<1> HIDE DEF at
<1>5. \/ at \in 1..Len(list) /\ at > 0
      \/ at = 0 /\ \A i \in 1..Len(list) : ~(list[i].kind = "shell" /\ list[i].id = e.id)
  BY <1>2, <1>3, <1>4
<1> HIDE DEF text
<1>6. out.list = IF same THEN list ELSE cut.list
  <2>1. DOMAIN cut = {"list", "rs"}
    BY DEF Trim
  <2> HIDE DEF same, cut, out
  <2>2. QED
    BY <1>1, <2>1
<1> HIDE DEF out, same
<1>7. ASSUME at \in 1..Len(list), at > 0
      PROVE  Good(cut.list) /\ \A h : Quiet(list, h) => Quiet(cut.list, h)
  <2>1. IsCard(list[at])
    BY <1>2, <1>7
  <2>2. Rewrites(c, list[at]) /\ Calms(c, list[at])
    BY <2>1 DEF Rewrites, Calms, IsCard, Still
  <2>3. new = [list EXCEPT ![at] = c]
    BY <1>2, <1>7
  <2>4. Placed(new, list, at, c)
    BY <2>3 DEF Placed
  <2> HIDE DEF new, c, st2
  <2>5. Good(new) /\ \A h : (c.own # h \/ Calms(c, list[at])) /\ Quiet(list, h) => Quiet(new, h)
    BY <1>7, <2>2, <2>4, ReplacedCard
  <2>6. IsCards(new)
    BY <2>5 DEF Good
  <2>7. Drawn(cut.list, new)
    BY <2>6, TrimKeeps
  <2> HIDE DEF cut
  <2>8. QED
    BY <2>2, <2>5, <2>7, DrawnKeeps DEF Good
<1>8. ASSUME at = 0, \A i \in 1..Len(list) : ~(list[i].kind = "shell" /\ list[i].id = e.id)
      PROVE  Good(cut.list) /\ \A h : Quiet(list, h) => Quiet(cut.list, h)
  <2> DEFINE s == ShellCard(e)
  <2>1. IsCard(s) /\ Still(s) /\ s.kind = "shell" /\ s.id = e.id
    BY DEF ShellCard, BlankCard, IsCard, Still
  <2>2. new = Append(list, s)
    BY <1>8
  <2> HIDE DEF s, st2, new
  <2>3. \A i \in 1..Len(list) : ~SameIdentity(s, list[i])
    BY <1>8, <2>1 DEF SameIdentity
  <2>4. cut = Trim(Append(list, s), st2, max)
    BY <2>2
  <2> HIDE DEF cut
  <2>5. QED
    BY <2>1, <2>3, <2>4, TrimmedAppend
<1>9. Good(cut.list) /\ \A h : Quiet(list, h) => Quiet(cut.list, h)
  BY <1>5, <1>7, <1>8
<1> HIDE DEF cut
<1>10. CASE same
  BY <1>6, <1>10 DEF out
<1>11. CASE ~same
  BY <1>6, <1>9, <1>11 DEF out
<1>12. QED
  BY <1>10, <1>11

\* What the parsers make of an update, a row of a list, or a row gone from it.
LEMMA PatchDescriptions ==
    \A id, patch : /\ IsDesc(DescribeSubagentPatch(id, patch)) /\ ~IsTextUpdate(DescribeSubagentPatch(id, patch))
                   /\ IsDesc(DescribeTaskPatch(id, patch)) /\ ~IsTextUpdate(DescribeTaskPatch(id, patch))
  BY DEF DescribeSubagentPatch, DescribeTaskPatch, BlankDescription, IsDesc, IsTextUpdate, TextKinds

LEMMA EventDescriptions ==
    \A title, blank : IsDesc(Event(title)) /\ IsDesc(HiddenEvent(title)) /\ IsDesc(ShownUnless(blank, title))
  BY DEF Event, HiddenEvent, ShownUnless, BlankDescription, IsDesc, TextKinds

LEMMA SessionDescriptions == ASSUME NEW u, IsSessionEvent(u) PROVE IsDesc(DescribeSessionEvent(u))
<1>1. CASE u.type \in HiddenSessionUpdates
  <2>1. DescribeSessionEvent(u) = HiddenEvent(u.type)
    BY <1>1, Zenon DEF DescribeSessionEvent, HiddenSessionUpdates, PlainMilestones
  <2>2. QED
    BY <2>1, EventDescriptions
<1> SUFFICES ASSUME u.type \notin HiddenSessionUpdates PROVE IsDesc(DescribeSessionEvent(u))
  BY <1>1
<1>2. CASE u.type \in PlainMilestones
  BY <1>2, EventDescriptions DEF DescribeSessionEvent, PlainMilestones
<1>3. CASE u.type = "turn_completed"
  <2>1. DescribeSessionEvent(u) = [Event(FormatTurnCompletedTitle(NormalizeStopReason(u.status), 0))
                                      EXCEPT !.stop = NormalizeStopReason(u.status)]
    BY <1>3 DEF DescribeSessionEvent, PlainMilestones
  <2> HIDE DEF NormalizeStopReason, FormatTurnCompletedTitle
  <2>2. QED
    BY <2>1 DEF Event, BlankDescription, IsDesc, TextKinds
<1>4. CASE u.type = "retry_state"
  <2>1. DescribeSessionEvent(u) = RetryEvent(u)
    BY <1>4 DEF DescribeSessionEvent, PlainMilestones
  <2>2. QED
    BY <2>1, EventDescriptions DEF RetryEvent
<1>5. CASE u.type = "image_dropped"
  BY <1>5, EventDescriptions DEF DescribeSessionEvent, PlainMilestones
<1>6. CASE u.type = "image_compressed"
  BY <1>6, EventDescriptions DEF DescribeSessionEvent, PlainMilestones
<1>7. CASE u.type = "goal_updated"
  <2>1. DescribeSessionEvent(u) = IF u.status = "complete" THEN [Event("Goal complete") EXCEPT !.goal = u.id]
                                  ELSE HiddenEvent("Goal updated")
    BY <1>7 DEF DescribeSessionEvent, PlainMilestones
  <2>2. IsDesc([Event("Goal complete") EXCEPT !.goal = u.id])
    BY DEF Event, BlankDescription, IsDesc, TextKinds
  <2>3. QED
    BY <2>1, <2>2, EventDescriptions
<1>8. CASE u.type = "hook_annotation"
  BY <1>8, EventDescriptions DEF DescribeSessionEvent, PlainMilestones
<1>9. QED
  BY <1>2, <1>3, <1>4, <1>5, <1>6, <1>7, <1>8 DEF IsSessionEvent

LEMMA Descriptions == ASSUME NEW u PROVE IsDesc(Describe(u))
<1>1. CASE IsSessionEvent(u)
  BY <1>1, SessionDescriptions DEF Describe
<1> SUFFICES ASSUME ~IsSessionEvent(u) PROVE IsDesc(Describe(u))
  BY <1>1
<1> DEFINE text == [BlankDescription EXCEPT !.kind = TextKind(u.type), !.title = TextKind(u.type),
                                            !.text = u.text, !.coalesce = TRUE]
           tool == DescribeTool(u)
           todo == [HiddenEvent("Plan update") EXCEPT !.kind = "plan"]
           menu == [Event(u.type) EXCEPT !.kind = "commands", !.text = u.text]
           life == IF u.id # "" THEN DescribeLifecycle(u) ELSE Event(u.type)
           rest == IF IsNoScrollbackExtNotification(u.method) THEN HiddenEvent(u.type) ELSE Event(u.type)
<1>0. Describe(u) = CASE u.type \in TextUpdates -> text
                      [] u.type \in {"tool_call", "tool_call_update"} -> tool
                      [] u.type = "plan" -> todo
                      [] u.type = "available_commands_update" -> menu
                      [] u.type \in LifecycleUpdates -> life
                      [] OTHER -> rest
  BY DEF Describe
<1> HIDE DEF text, tool, todo, menu, life, rest
<1>2. CASE u.type \in TextUpdates
  <2>1. Describe(u) = text
    BY <1>0, <1>2 DEF TextUpdates, LifecycleUpdates
  <2>2. TextKind(u.type) \in TextKinds
    BY <1>2 DEF TextKind, TextUpdates, TextKinds
  <2>3. QED
    BY <2>1, <2>2 DEF text, BlankDescription, IsDesc, TextKinds
<1>3. CASE u.type \in {"tool_call", "tool_call_update"}
  <2>1. Describe(u) = tool
    BY <1>0, <1>3 DEF TextUpdates, LifecycleUpdates
  <2>2. IsGrokScrollbackSuppressedTool(u) \in BOOLEAN
    BY DEF IsGrokScrollbackSuppressedTool
  <2>3. /\ {"kind", "id", "coalesce", "hidden", "goal"} \subseteq DOMAIN tool
        /\ tool.kind = "tool" /\ tool.coalesce = FALSE /\ tool.hidden = IsGrokScrollbackSuppressedTool(u)
    BY DEF tool, DescribeTool, BlankDescription
  <2>4. QED
    BY <2>1, <2>2, <2>3 DEF IsDesc
<1>4. CASE u.type = "plan"
  <2>1. Describe(u) = todo
    BY <1>0, <1>4 DEF TextUpdates, LifecycleUpdates
  <2>2. QED
    BY <2>1 DEF todo, HiddenEvent, Event, BlankDescription, IsDesc, TextKinds
<1>5. CASE u.type = "available_commands_update"
  <2>1. Describe(u) = menu
    BY <1>0, <1>5 DEF TextUpdates, LifecycleUpdates
  <2>2. QED
    BY <2>1 DEF menu, Event, BlankDescription, IsDesc, TextKinds
<1>6. CASE u.type \in LifecycleUpdates
  <2>1. Describe(u) = life
    BY <1>0, <1>6 DEF TextUpdates, LifecycleUpdates
  <2>2. IsDesc(DescribeLifecycle(u))
    BY <1>6, PatchDescriptions DEF DescribeLifecycle, LifecycleUpdates
  <2>3. QED
    BY <2>1, <2>2, EventDescriptions DEF life
<1>7. CASE u.type \notin TextUpdates \cup {"tool_call", "tool_call_update", "plan", "available_commands_update"}
                            \cup LifecycleUpdates
  <2>1. Describe(u) = rest
    BY <1>0, <1>7
  <2>2. QED
    BY <2>1, EventDescriptions DEF rest
<1>8. QED
  BY <1>2, <1>3, <1>4, <1>5, <1>6, <1>7

-----------------------------------------------------------------------------
(* The recursive functions: a list merged, a log hydrated, rows folded in. *)

\* One step of each, so that they are built together.
Taken(w, i, x) ==
    IF w.what = "merge" THEN MergeStep(x, w.of[i])
    ELSE IF w.what = "hydrate" THEN HydrateStep(x, w.of[i])
    ELSE ReduceAgentUpdate(x.list, ListedInput(w.of[i], w.own), x.rs)

Builds(g, w, base, len) == g = [i \in 0..len |-> IF i = 0 THEN base ELSE Taken(w, i, g[i - 1])]

LEMMA Built ==
    ASSUME NEW w, NEW base, NEW len \in Nat
    PROVE  \E g : Builds(g, w, base, len)
<1> DEFINE Rec(g, n) == [i \in 0..n |-> IF i = 0 THEN base ELSE Taken(w, i, g[i - 1])]
           Upto(n) == \E g : g = Rec(g, n)
           T == {n \in Nat : Upto(n)}
<1>1. Upto(0)
  <2> DEFINE e == [i \in 0..0 |-> base]
  <2>1. e = Rec(e, 0)
    OBVIOUS
  <2> HIDE DEF e, Rec
  <2>2. QED
    BY <2>1
<1>2. ASSUME NEW n \in Nat, Upto(n) PROVE Upto(n + 1)
  <2>1. PICK g : g = Rec(g, n)
    BY <1>2
  <2> DEFINE last == Taken(w, n + 1, g[n])
             h == [i \in 0..n + 1 |-> IF i = n + 1 THEN last ELSE g[i]]
             r == Rec(h, n + 1)
  <2> HIDE DEF last
  <2>2. ASSUME NEW i \in 0..n + 1 PROVE h[i] = r[i]
    <3>1. r[i] = IF i = 0 THEN base ELSE Taken(w, i, h[i - 1])
      OBVIOUS
    <3>2. CASE i = n + 1
      <4>1. h[i] = last /\ h[i - 1] = g[n] /\ i # 0
        BY <3>2
      <4>2. QED
        BY <3>1, <3>2, <4>1 DEF last
    <3>3. CASE i # n + 1
      <4>1. i \in 0..n /\ h[i] = g[i]
        BY <3>3
      <4>2. g[i] = IF i = 0 THEN base ELSE Taken(w, i, g[i - 1])
        BY <2>1, <4>1
      <4>3. i # 0 => h[i - 1] = g[i - 1]
        BY <3>3
      <4>4. QED
        BY <3>1, <4>1, <4>2, <4>3
    <3>4. QED
      BY <3>2, <3>3
  <2>3. h = [i \in 0..n + 1 |-> h[i]] /\ r = [i \in 0..n + 1 |-> r[i]]
    OBVIOUS
  <2> HIDE DEF h, r
  <2>4. h = r
    BY <2>2, <2>3
  <2>5. h = Rec(h, n + 1)
    BY <2>4 DEF r
  <2> HIDE DEF Rec
  <2>6. QED
    BY <2>5
<1> HIDE DEF Upto
<1>3. 0 \in T /\ T \in SUBSET Nat
  BY <1>1
<1>4. ASSUME NEW n \in T PROVE n + 1 \in T
  BY <1>2
<1> HIDE DEF T
<1>5. T = Nat
  BY <1>3, <1>4, Induction
<1>6. len \in T
  BY <1>5
<1>7. QED
  BY <1>6 DEF T, Upto, Builds

LEMMA MergedUnfolds ==
    ASSUME NEW q, Len(q) \in Nat
    PROVE  \E g : /\ g[0] = <<>> /\ Merged(q) = g[Len(q)]
                  /\ \A i \in 1..Len(q) : g[i] = MergeStep(g[i - 1], q[i])
<1> DEFINE Rec(g) == [i \in 0..Len(q) |-> IF i = 0 THEN <<>> ELSE MergeStep(g[i - 1], q[i])]
           upto == CHOOSE g : g = Rec(g)
<1>1. PICK w : w = [what |-> "merge", of |-> q]
  OBVIOUS
<1>2. PICK f : Builds(f, w, <<>>, Len(q))
  BY Built
<1>3. \A i, x : Taken(w, i, x) = MergeStep(x, q[i])
  BY <1>1 DEF Taken
<1>4. f = Rec(f)
  BY <1>2, <1>3 DEF Builds
<1>5. upto = Rec(upto)
  <2> HIDE DEF Rec
  <2>1. QED
    BY <1>4
<1>6. Merged(q) = upto[Len(q)]
  BY DEF Merged
<1> HIDE DEF upto
<1>7. upto[0] = <<>> /\ \A i \in 1..Len(q) : upto[i] = MergeStep(upto[i - 1], q[i])
  <2>1. \A i \in 0..Len(q) : upto[i] = IF i = 0 THEN <<>> ELSE MergeStep(upto[i - 1], q[i])
    BY <1>5
  <2>2. 0 \in 0..Len(q) /\ \A i \in 1..Len(q) : i \in 0..Len(q) /\ i # 0
    OBVIOUS
  <2>3. QED
    BY <2>1, <2>2
<1>8. QED
  BY <1>6, <1>7

LEMMA HydrateUnfolds ==
    ASSUME NEW q, Len(q) \in Nat
    PROVE  \E g : /\ g[0] = [list |-> <<>>, rs |-> NewReducerState] /\ Hydrate(q) = g[Len(q)].list
                  /\ \A i \in 1..Len(q) : g[i] = HydrateStep(g[i - 1], q[i])
<1> DEFINE base == [list |-> <<>>, rs |-> NewReducerState]
           Rec(g) == [i \in 0..Len(q) |-> IF i = 0 THEN base ELSE HydrateStep(g[i - 1], q[i])]
           upto == CHOOSE g : g = Rec(g)
<1>1. PICK w : w = [what |-> "hydrate", of |-> q]
  OBVIOUS
<1>2. PICK f : Builds(f, w, base, Len(q))
  BY Built
<1>3. \A i, x : Taken(w, i, x) = HydrateStep(x, q[i])
  BY <1>1 DEF Taken
<1>4. f = Rec(f)
  BY <1>2, <1>3 DEF Builds
<1>5. upto = Rec(upto)
  <2> HIDE DEF Rec
  <2>1. QED
    BY <1>4
<1>6. Hydrate(q) = upto[Len(q)].list
  BY DEF Hydrate
<1> HIDE DEF upto, base
<1>7. upto[0] = base /\ \A i \in 1..Len(q) : upto[i] = HydrateStep(upto[i - 1], q[i])
  <2>1. \A i \in 0..Len(q) : upto[i] = IF i = 0 THEN base ELSE HydrateStep(upto[i - 1], q[i])
    BY <1>5
  <2>2. 0 \in 0..Len(q) /\ \A i \in 1..Len(q) : i \in 0..Len(q) /\ i # 0
    OBVIOUS
  <2>3. QED
    BY <2>1, <2>2
<1>8. QED
  BY <1>6, <1>7 DEF base

Folding(g, list, q, handle) ==
    /\ g[0] = [list |-> list, rs |-> NewReducerState]
    /\ \A i \in 1..Len(q) : g[i] = ReduceAgentUpdate(g[i - 1].list, ListedInput(q[i], handle), g[i - 1].rs)
    /\ Fold(list, q, handle) = g[Len(q)].list

LEMMA FoldUnfolds ==
    ASSUME NEW list, NEW q, NEW handle, Len(q) \in Nat
    PROVE  \E g : Folding(g, list, q, handle)
<1> DEFINE base == [list |-> list, rs |-> NewReducerState]
           Rec(g) == [i \in 0..Len(q) |-> IF i = 0 THEN base
                                          ELSE ReduceAgentUpdate(g[i - 1].list, ListedInput(q[i], handle), g[i - 1].rs)]
           upto == CHOOSE g : g = Rec(g)
<1>1. PICK w : w = [what |-> "fold", of |-> q, own |-> handle]
  OBVIOUS
<1>2. PICK f : Builds(f, w, base, Len(q))
  BY Built
<1>3. \A i, x : Taken(w, i, x) = ReduceAgentUpdate(x.list, ListedInput(q[i], handle), x.rs)
  BY <1>1 DEF Taken
<1>4. f = Rec(f)
  BY <1>2, <1>3 DEF Builds
<1>5. upto = Rec(upto)
  <2> HIDE DEF Rec
  <2>1. QED
    BY <1>4
<1>6. Fold(list, q, handle) = upto[Len(q)].list
  BY DEF Fold
<1> HIDE DEF upto, base
<1>7. upto[0] = base /\ \A i \in 1..Len(q) :
             upto[i] = ReduceAgentUpdate(upto[i - 1].list, ListedInput(q[i], handle), upto[i - 1].rs)
  <2>1. \A i \in 0..Len(q) : upto[i] = IF i = 0 THEN base
             ELSE ReduceAgentUpdate(upto[i - 1].list, ListedInput(q[i], handle), upto[i - 1].rs)
    BY <1>5
  <2>2. 0 \in 0..Len(q) /\ \A i \in 1..Len(q) : i \in 0..Len(q) /\ i # 0
    OBVIOUS
  <2>3. QED
    BY <2>1, <2>2
<1>8. QED
  BY <1>6, <1>7 DEF base, Folding

LEMMA RowsFolded ==
    ASSUME NEW list, Good(list), NEW q, Len(q) \in Nat, sent \in Nat, NEW handle,
           \A i \in 1..Len(q) : IsDesc(q[i]) /\ ~IsTextUpdate(q[i])
    PROVE  /\ Good(Fold(list, q, handle))
           /\ \A h : Quiet(list, h) => Quiet(Fold(list, q, handle), h)
<1> DEFINE Kept(x) == Good(x.list) /\ \A h : Quiet(list, h) => Quiet(x.list, h)
<1>0. PICK g : Folding(g, list, q, handle)
  BY FoldUnfolds
<1>1. /\ g[0] = [list |-> list, rs |-> NewReducerState] /\ Fold(list, q, handle) = g[Len(q)].list
      /\ \A i \in 1..Len(q) :
            g[i] = ReduceAgentUpdate(g[i - 1].list, ListedInput(q[i], handle), g[i - 1].rs)
  BY <1>0 DEF Folding
<1> DEFINE T == {n \in Nat : n <= Len(q) => Kept(g[n])}
<1>2. Kept(g[0])
  BY <1>1
<1>3. ASSUME NEW n \in Nat, n + 1 <= Len(q), Kept(g[n]) PROVE Kept(g[n + 1])
  <2>1. n + 1 \in 1..Len(q) /\ (n + 1) - 1 = n
    BY <1>3
  <2>2. PICK in : in = ListedInput(q[n + 1], handle)
    OBVIOUS
  <2>3. g[n + 1] = ReduceAgentUpdate(g[n].list, in, g[n].rs)
    BY <1>1, <2>1, <2>2
  <2>4. IsInput(in) /\ Silent(in)
    BY <2>1, <2>2 DEF ListedInput, IsInput, Silent
  <2>5. Good(g[n].list)
    BY <1>3
  <2>6. /\ Good(g[n + 1].list)
        /\ \A h : Quiet(g[n].list, h) => Quiet(g[n + 1].list, h)
    BY <2>3, <2>4, <2>5, ReducedKeeps
  <2>7. QED
    BY <1>3, <2>6
<1> HIDE DEF Kept
<1>4. 0 \in T /\ T \in SUBSET Nat
  BY <1>2
<1>5. ASSUME NEW n \in T PROVE n + 1 \in T
  BY <1>3
<1> HIDE DEF T
<1>6. T = Nat
  BY <1>4, <1>5, Induction
<1>7. Len(q) \in T
  BY <1>6
<1>8. Kept(g[Len(q)])
  BY <1>7 DEF T
<1>9. QED
  BY <1>1, <1>8 DEF Kept

\* The cards of the log: one for each identity, and none of them streams.
LEMMA HydrateKeeps ==
    ASSUME NEW q, Len(q) \in Nat, \A i \in 1..Len(q) : q[i].ts \in Nat
    PROVE  Good(Hydrate(q)) /\ \A h : Quiet(Hydrate(q), h)
<1> DEFINE Kept(x) == Good(x.list) /\ \A h : Quiet(x.list, h)
<1>1. PICK g : /\ g[0] = [list |-> <<>>, rs |-> NewReducerState] /\ Hydrate(q) = g[Len(q)].list
               /\ \A i \in 1..Len(q) : g[i] = HydrateStep(g[i - 1], q[i])
  BY HydrateUnfolds
<1> DEFINE T == {n \in Nat : n <= Len(q) => Kept(g[n])}
<1>2. Kept(g[0])
  BY <1>1, EmptyCards
<1>3. ASSUME NEW n \in Nat, n + 1 <= Len(q), Kept(g[n]) PROVE Kept(g[n + 1])
  <2>1. n + 1 \in 1..Len(q) /\ (n + 1) - 1 = n
    BY <1>3
  <2>2. PICK e, acc : e = q[n + 1] /\ acc = g[n]
    OBVIOUS
  <2>3. g[n + 1] = HydrateStep(acc, e) /\ e.ts \in Nat
    BY <1>1, <2>1, <2>2
  <2> DEFINE d == Describe(e.u)
             in == [desc |-> d, own |-> Disk, ev |-> e.ev, ts |-> e.ts, disk |-> TRUE, uid |-> <<"disk", e.ts>>]
             of == DiskShell(e)
             shell == ReduceShellUpdate(acc.list, of, acc.rs, MaxHistory)
             card == ReduceAgentUpdate(acc.list, in, acc.rs)
  <2>4. g[n + 1] \in {acc, shell, card}
    <3>1. g[n + 1] = IF ShouldDrop(d) THEN acc ELSE IF d.shell /\ d.id # "" THEN shell ELSE card
      BY <2>3 DEF HydrateStep
    <3> HIDE DEF d, shell, card
    <3>2. QED
      BY <3>1
  <2>5. Good(acc.list) /\ \A h : Quiet(acc.list, h)
    BY <1>3, <2>2
  <2>6. Kept(acc)
    BY <2>5
  <2>7. Kept(shell)
    <3>1. of.ts \in Nat
      BY <2>3 DEF DiskShell
    <3> HIDE DEF of
    <3>2. QED
      BY <2>5, <3>1, TimelineCaps, ShellKeeps
  <2>8. Kept(card)
    <3>1. IsDesc(d)
      BY Descriptions
    <3> HIDE DEF d
    <3>2. IsInput(in) /\ Silent(in)
      BY <2>3, <3>1 DEF IsInput, Silent
    <3> HIDE DEF in
    <3>3. QED
      BY <2>5, <3>2, ReducedKeeps
  <2> HIDE DEF shell, card, Kept
  <2>9. QED
    BY <2>4, <2>6, <2>7, <2>8
<1> HIDE DEF Kept
<1>4. 0 \in T /\ T \in SUBSET Nat
  BY <1>2
<1>5. ASSUME NEW n \in T PROVE n + 1 \in T
  BY <1>3
<1> HIDE DEF T
<1>6. T = Nat
  BY <1>4, <1>5, Induction
<1>7. Len(q) \in T
  BY <1>6
<1>8. Kept(g[Len(q)])
  BY <1>7 DEF T
<1>9. QED
  BY <1>1, <1>8 DEF Kept

-----------------------------------------------------------------------------
(* The two sources of a list merged.                                       *)

\* No two cards mirror each other.
Mirrors(a, b) == MirrorKey(a) # <<>> /\ MirrorKey(a) = MirrorKey(b)
Apart(list) == \A i, j \in 1..Len(list) : i # j => ~Mirrors(list[i], list[j])

LEMMA SameMirrors == ASSUME NEW a, NEW b, SameIdentity(a, b) PROVE Mirrors(a, b)
<1>1. a.kind \in IdentityKinds /\ a.id # "" /\ b.kind \in IdentityKinds /\ b.id # "" /\ a.kind = b.kind /\ a.id = b.id
  BY DEF SameIdentity
<1>2. MirrorKey(a) = <<a.kind, a.id>> /\ MirrorKey(b) = <<b.kind, b.id>>
  BY <1>1 DEF MirrorKey, IdentityKinds
<1>3. <<a.kind, a.id>> # <<>>
  OBVIOUS
<1>4. QED
  BY <1>1, <1>2, <1>3 DEF Mirrors

LEMMA MergeStepKeeps ==
    ASSUME NEW m, IsCards(m), Apart(m), NEW c, IsCard(c)
    PROVE  /\ IsCards(MergeStep(m, c)) /\ Apart(MergeStep(m, c))
           /\ \A h : Quiet(m, h) /\ (c.own = h => Still(c)) => Quiet(MergeStep(m, c), h)
<1> DEFINE key(x) == MirrorKey(x)
           at == {i \in DOMAIN m : key(m[i]) = key(c)}
           new == MergeStep(m, c)
           first == Min(at)
<1>1. DOMAIN m = 1..Len(m) /\ Len(m) \in Nat
  BY CardSeq DEF IsCards
<1>2. at \in SUBSET (1..Len(m)) /\ at \in SUBSET Nat
  BY <1>1
<1>3. \/ (key(c) = <<>> \/ at = {}) /\ new = Append(m, c)
      \/ key(c) # <<>> /\ at # {} /\ new = [m EXCEPT ![first] = c]
      \/ new = m
  BY Zenon DEF MergeStep
<1>4. at # {} => first \in at
  <2> HIDE DEF at
  <2>1. QED
    BY <1>2, LeastPlace
<1>5. at # {} => first \in 1..Len(m) /\ key(m[first]) = key(c)
  BY <1>1, <1>4
<1>6. at = {} => \A i \in 1..Len(m) : key(m[i]) # key(c)
  BY <1>1
<1> HIDE DEF at, first, new, key
<1>7. \A a, b : Mirrors(a, b) <=> key(a) # <<>> /\ key(a) = key(b)
  BY DEF Mirrors, key
<1>8. ASSUME key(c) = <<>> \/ at = {}, new = Append(m, c)
      PROVE  IsCards(new) /\ Apart(new) /\ \A h : Quiet(m, h) /\ (c.own = h => Still(c)) => Quiet(new, h)
  <2>1. /\ IsCards(new) /\ Len(new) = Len(m) + 1 /\ (\A i \in 1..Len(m) : new[i] = m[i]) /\ new[Len(m) + 1] = c
        /\ \A h : Quiet(m, h) /\ (c.own = h => Still(c)) => Quiet(new, h)
    BY <1>8, AppendedCard
  <2>2. \A i \in 1..Len(m) : ~Mirrors(m[i], c) /\ ~Mirrors(c, m[i])
    BY <1>6, <1>7, <1>8
  <2>3. ASSUME NEW i \in 1..Len(new), NEW j \in 1..Len(new), i # j PROVE ~Mirrors(new[i], new[j])
    <3>1. i \in 1..Len(m) \/ i = Len(m) + 1
      BY <1>1, <2>1
    <3>2. j \in 1..Len(m) \/ j = Len(m) + 1
      BY <1>1, <2>1
    <3>3. CASE i \in 1..Len(m) /\ j \in 1..Len(m)
      BY <2>1, <2>3, <3>3 DEF Apart
    <3>4. CASE i = Len(m) + 1 /\ j \in 1..Len(m)
      BY <2>1, <2>2, <3>4
    <3>5. CASE i \in 1..Len(m) /\ j = Len(m) + 1
      BY <2>1, <2>2, <3>5
    <3>6. QED
      BY <2>3, <3>1, <3>2, <3>3, <3>4, <3>5
  <2>4. QED
    BY <2>1, <2>3 DEF Apart
<1>9. ASSUME key(c) # <<>>, at # {}, new = [m EXCEPT ![first] = c]
      PROVE  IsCards(new) /\ Apart(new) /\ \A h : Quiet(m, h) /\ (c.own = h => Still(c)) => Quiet(new, h)
  <2>1. new = [i \in 1..Len(m) |-> IF i = first THEN c ELSE m[i]]
    BY <1>5, <1>9 DEF IsCards
  <2>2. \A i \in 1..Len(m) : IsCard(new[i])
    BY <2>1 DEF IsCards
  <2>3. Len(new) = Len(m)
    <3> HIDE DEF IsCards
    <3>1. DOMAIN new = 1..Len(m)
      BY <2>1
    <3>2. new \in Seq({new[i] : i \in 1..Len(m)})
      BY <1>1, <2>1
    <3>3. QED
      BY <1>1, <3>1, <3>2
  <2>4. \A i \in 1..Len(m) : new[i] = IF i = first THEN c ELSE m[i]
    BY <2>1
  <2>5. new = [i \in 1..Len(new) |-> new[i]]
    BY <2>1, <2>3
  <2>6. \A i \in 1..Len(m) : key(new[i]) = key(m[i])
    BY <1>5, <1>9, <2>4
  <2>7. Apart(new)
    BY <1>7, <2>3, <2>6 DEF Apart
  <2>8. IsCards(new)
    BY <1>1, <2>2, <2>3, <2>5 DEF IsCards
  <2>9. \A h : Quiet(m, h) /\ (c.own = h => Still(c)) => Quiet(new, h)
    BY <2>3, <2>4 DEF Quiet
  <2>10. QED
    BY <2>7, <2>8, <2>9
<1>10. IsCards(new) /\ Apart(new) /\ \A h : Quiet(m, h) /\ (c.own = h => Still(c)) => Quiet(new, h)
  BY <1>3, <1>8, <1>9
<1>11. QED
  BY <1>10 DEF new

LEMMA MergedKeeps ==
    ASSUME NEW q, IsCards(q)
    PROVE  Good(Merged(q)) /\ \A h : Quiet(q, h) => Quiet(Merged(q), h)
<1> DEFINE Kept(x) == IsCards(x) /\ Apart(x) /\ \A h : Quiet(q, h) => Quiet(x, h)
<1>0. Len(q) \in Nat /\ \A i \in 1..Len(q) : IsCard(q[i])
  BY DEF IsCards
<1>1. PICK g : /\ g[0] = <<>> /\ Merged(q) = g[Len(q)]
               /\ \A i \in 1..Len(q) : g[i] = MergeStep(g[i - 1], q[i])
  BY <1>0, MergedUnfolds
<1> DEFINE T == {n \in Nat : n <= Len(q) => Kept(g[n])}
<1>2. Kept(g[0])
  <2>1. Apart(<<>>)
    BY DEF Apart
  <2>2. QED
    BY <1>1, <2>1, EmptyCards DEF Good
<1>3. ASSUME NEW n \in Nat, n + 1 <= Len(q), Kept(g[n]) PROVE Kept(g[n + 1])
  <2>1. n + 1 \in 1..Len(q) /\ (n + 1) - 1 = n
    BY <1>3
  <2>2. PICK c : c = q[n + 1]
    OBVIOUS
  <2>3. g[n + 1] = MergeStep(g[n], c) /\ IsCard(c)
    BY <1>0, <1>1, <2>1, <2>2
  <2>4. \A h : Quiet(q, h) => (c.own = h => Still(c))
    BY <2>1, <2>2 DEF Quiet
  <2>5. IsCards(g[n]) /\ Apart(g[n])
    BY <1>3
  <2>6. /\ IsCards(g[n + 1]) /\ Apart(g[n + 1])
        /\ \A h : Quiet(g[n], h) /\ (c.own = h => Still(c)) => Quiet(g[n + 1], h)
    BY <2>3, <2>5, MergeStepKeeps
  <2>7. QED
    BY <1>3, <2>4, <2>6
<1> HIDE DEF Kept
<1>4. 0 \in T /\ T \in SUBSET Nat
  BY <1>2
<1>5. ASSUME NEW n \in T PROVE n + 1 \in T
  BY <1>3
<1> HIDE DEF T
<1>6. T = Nat
  BY <1>4, <1>5, Induction
<1>7. Len(q) \in T
  BY <1>6
<1>8. Kept(Merged(q))
  BY <1>0, <1>1, <1>7 DEF T
<1>9. OneEach(Merged(q))
  BY <1>8, SameMirrors DEF Kept, Apart, OneEach
<1>10. QED
  BY <1>8, <1>9 DEF Kept, Good

\* The rank of a card: how many come before it.
LEMMA RankOf ==
    ASSUME NEW list, IsCards(list), NEW i \in 1..Len(list)
    PROVE  /\ IsFiniteSet(Before(list, i)) /\ Cardinality(Before(list, i)) \in 0..Len(list) - 1
           /\ Before(list, i) \subseteq 1..Len(list)
<1>1. DOMAIN list = 1..Len(list) /\ Len(list) \in Nat /\ \A k \in 1..Len(list) : list[k].ts \in Nat
  BY CardSeq DEF IsCards, IsCard
<1> DEFINE all == 1..Len(list)
           before == Before(list, i)
<1>2. before \in SUBSET all /\ i \notin before
  BY <1>1 DEF Before
<1>3. IsFiniteSet(all) /\ Cardinality(all) = Len(list)
  BY <1>1, FS_Interval
<1> HIDE DEF before
<1>4. i \in all
  OBVIOUS
<1> HIDE DEF all
<1>5. IsFiniteSet(before) /\ Cardinality(before) <= Cardinality(all) /\ (Cardinality(all) = Cardinality(before) => all = before)
  BY <1>2, <1>3, FS_Subset
<1>6. Cardinality(before) \in Nat
  BY <1>5, FS_CardinalityType
<1>7. Cardinality(before) # Len(list)
  BY <1>2, <1>3, <1>4, <1>5
<1>8. QED
  BY <1>1, <1>2, <1>3, <1>5, <1>6, <1>7 DEF before, all

LEMMA RanksDiffer ==
    ASSUME NEW list, IsCards(list), NEW i \in 1..Len(list), NEW j \in 1..Len(list), i \in Before(list, j)
    PROVE  Cardinality(Before(list, i)) # Cardinality(Before(list, j))
<1>1. DOMAIN list = 1..Len(list) /\ Len(list) \in Nat /\ \A k \in 1..Len(list) : list[k].ts \in Nat
  BY CardSeq DEF IsCards, IsCard
<1>2. i \notin Before(list, i)
  BY <1>1 DEF Before
<1>3. Before(list, i) \in SUBSET Before(list, j)
  BY <1>1 DEF Before
<1>4. IsFiniteSet(Before(list, j))
  BY RankOf
<1>5. Cardinality(Before(list, j)) = Cardinality(Before(list, i)) => Before(list, j) = Before(list, i)
  BY <1>3, <1>4, FS_Subset
<1>6. QED
  BY <1>2, <1>5

\* Every place of the sorted list has a card, and two places have not the same.
LEMMA SortedDrawn ==
    ASSUME NEW list, IsCards(list)
    PROVE  Drawn(SortedByTs(list), list)
<1> DEFINE n == Len(list)
           rank(i) == Cardinality(Before(list, i))
           from(m) == CHOOSE i \in DOMAIN list : rank(i) = m - 1
           new == SortedByTs(list)
<1>1. DOMAIN list = 1..n /\ n \in Nat /\ \A k \in 1..n : list[k].ts \in Nat
  BY CardSeq DEF IsCards, IsCard
<1>2. \A i \in 1..n : rank(i) \in 0..n - 1
  BY RankOf
<1>3. ASSUME NEW i \in 1..n, NEW j \in 1..n, i # j PROVE rank(i) # rank(j)
  <2>1. i \in Before(list, j) \/ j \in Before(list, i)
    BY <1>1, <1>3 DEF Before
  <2>2. QED
    BY <2>1, RanksDiffer
<1> HIDE DEF rank
<1>4. ASSUME NEW m \in 1..n PROVE \E i \in 1..n : rank(i) = m - 1
  <2> SUFFICES ASSUME \A i \in 1..n : rank(i) # m - 1 PROVE FALSE
    OBVIOUS
  <2> DEFINE S == 1..n
             T == 0..n - 1
             R == T \ {m - 1}
             f == [i \in S |-> rank(i)]
  <2>1. IsFiniteSet(S) /\ Cardinality(S) = n
    <3>1. 1 \in Int /\ n \in Int /\ ~(1 > n)
      BY <1>1
    <3>2. n - 1 + 1 = n
      BY <1>1
    <3>3. QED
      BY <3>1, <3>2, FS_Interval
  <2>2. IsFiniteSet(T) /\ Cardinality(T) = n
    <3>1. 0 \in Int /\ n - 1 \in Int /\ ~(0 > n - 1)
      BY <1>1
    <3>2. QED
      BY <1>1, <3>1, FS_Interval
  <2>3. m - 1 \in T
    BY <1>1
  <2>4. f \in [S -> R]
    BY <1>2
  <2> HIDE DEF T
  <2>5. IsFiniteSet(R) /\ Cardinality(R) = n - 1
    BY <2>2, <2>3, FS_RemoveElement
  <2> HIDE DEF S, R, f
  <2>6. Cardinality(R) < Cardinality(S)
    BY <1>1, <2>1, <2>5
  <2>7. PICK x \in S, y \in S : x # y /\ f[x] = f[y]
    BY <2>1, <2>4, <2>5, <2>6, FS_PigeonHole
  <2>8. QED
    BY <1>3, <2>7 DEF S, f
<1>5. \A m \in 1..n : from(m) \in 1..n /\ rank(from(m)) = m - 1
  BY <1>1, <1>4
<1>6. new = [m \in 1..n |-> list[from(m)]]
  BY <1>1 DEF SortedByTs, rank
<1> HIDE DEF from, new
<1>7. \A k, m \in 1..n : k # m => from(k) # from(m)
  BY <1>1, <1>5
<1>8. Len(new) = n
  <2>1. new \in Seq({list[from(m)] : m \in 1..n}) /\ DOMAIN new = 1..n
    BY <1>1, <1>6
  <2>2. QED
    BY <1>1, <2>1
<1>9. new = [m \in 1..Len(new) |-> new[m]]
  BY <1>6, <1>8
<1>10. \A m \in 1..n : new[m] = list[from(m)]
  BY <1>6
<1>11. QED
  BY <1>1, <1>5, <1>7, <1>8, <1>9, <1>10 DEF Drawn, new

\* A card drawn again is the card shown before, when nothing of it changed.
LEMMA StabilizedKeeps ==
    ASSUME NEW old, IsCards(old), NEW list, Good(list)
    PROVE  Good(Stabilized(old, list)) /\ \A h : Quiet(list, h) => Quiet(Stabilized(old, list), h)
<1> DEFINE at(c) == {i \in DOMAIN old : StableKey(old[i]) = StableKey(c)}
           new == Stabilized(old, list)
<1>1. IsCards(list) /\ DOMAIN list = 1..Len(list) /\ Len(list) \in Nat /\ \A i \in 1..Len(list) : IsCard(list[i])
  BY CardSeq DEF Good, IsCards
<1>2. DOMAIN old = 1..Len(old) /\ Len(old) \in Nat /\ \A i \in 1..Len(old) : IsCard(old[i])
  BY CardSeq DEF IsCards
<1>3. new = [n \in 1..Len(list) |->
                IF at(list[n]) # {} /\ ContentEqual(old[Max(at(list[n]))], list[n])
                THEN old[Max(at(list[n]))] ELSE list[n]]
  BY <1>1 DEF Stabilized
<1>4. \A c : at(c) \in SUBSET (1..Len(old))
  BY <1>2
<1> HIDE DEF at, new
<1>5. ASSUME NEW i \in 1..Len(list) PROVE Rewrites(new[i], list[i]) /\ Calms(new[i], list[i])
  <2>1. PICK s, k : s = at(list[i]) /\ k = Max(s)
    OBVIOUS
  <2>2. CASE s # {} /\ ContentEqual(old[k], list[i])
    <3>1. k \in 1..Len(old)
      BY <1>2, <1>4, <2>1, <2>2, LastPlace
    <3>2. /\ old[k].kind = list[i].kind /\ old[k].id = list[i].id /\ old[k].own = list[i].own
          /\ old[k].streaming = list[i].streaming
      BY <2>2 DEF ContentEqual, ItemFields
    <3>3. new[i] = old[k]
      BY <1>3, <2>1, <2>2
    <3>4. QED
      BY <1>2, <3>1, <3>2, <3>3 DEF Rewrites, Calms, Still
  <2>3. CASE ~(s # {} /\ ContentEqual(old[k], list[i]))
    <3>1. new[i] = list[i]
      BY <1>3, <2>1, <2>3
    <3>2. QED
      BY <1>1, <3>1 DEF Rewrites, Calms
  <2>4. QED
    BY <2>2, <2>3
<1>6. new = [i \in 1..Len(list) |-> new[i]]
  BY <1>3
<1>7. Mapped(new, list)
  BY <1>5, <1>6 DEF Mapped
<1>8. QED
  BY <1>1, <1>5, <1>7, MappedKeeps DEF Good, new

LEMMA MergedPage ==
    ASSUME NEW list, Good(list), NEW page, Good(page), \A h : Quiet(page, h)
    PROVE  /\ Good(MergeDiskLive(list, page))
           /\ \A h : Quiet(list, h) => Quiet(MergeDiskLive(list, page), h)
<1> DEFINE own == Only(list, {c \in ToSet(list) : c.own # Disk})
           both == page \o own
           merged == Merged(both)
           sorted == SortedByTs(merged)
<1>1. IsCards(own) /\ \A h : Quiet(list, h) => Quiet(own, h)
  <2> DEFINE S == {c \in ToSet(list) : c.own # Disk}
  <2> HIDE DEF S
  <2>1. Drawn(Only(list, S), list)
    BY OnlyDrawn DEF Good
  <2>2. IsCards(Only(list, S)) /\ \A h : Quiet(list, h) => Quiet(Only(list, S), h)
    BY <2>1, DrawnKeeps DEF Good
  <2>3. QED
    BY <2>2 DEF S
<1> HIDE DEF own
<1>2. IsCards(both) /\ \A h : Quiet(list, h) => Quiet(both, h)
  BY <1>1, ConcatCards DEF Good
<1> HIDE DEF both
<1>3. Good(merged) /\ \A h : Quiet(list, h) => Quiet(merged, h)
  BY <1>2, MergedKeeps
<1> HIDE DEF merged
<1>4. Drawn(sorted, merged)
  BY <1>3, SortedDrawn DEF Good
<1> HIDE DEF sorted
<1>5. Good(sorted) /\ \A h : Quiet(list, h) => Quiet(sorted, h)
  BY <1>3, <1>4, DrawnKeeps DEF Good
<1>6. MergeDiskLive(list, page) = Stabilized(list, sorted)
  BY DEF MergeDiskLive, MergeTimelineItems, own, both, merged, sorted
<1>7. QED
  BY <1>5, <1>6, StabilizedKeeps DEF Good

-----------------------------------------------------------------------------
(* Cards settled by a close, a cancel or a kill; the rows the agent lists. *)

LEMMA PatchedKeep ==
    ASSUME NEW list, Good(list), NEW hs, NEW kind, NEW ids, NEW decision
    PROVE  /\ Good(MapLifecycleCards(list, hs, kind, ids, decision))
           /\ \A h : Quiet(list, h) => Quiet(MapLifecycleCards(list, hs, kind, ids, decision), h)
<1> DEFINE to(c) == PatchedCard(c, decision.status, decision.error)
           meant(c) == /\ c.own \in hs
                       /\ c.kind = kind
                       /\ c.id \in ids
                       /\ decision.force \/ c.pay.status = "running"
           new == MapLifecycleCards(list, hs, kind, ids, decision)
<1>1. IsCards(list) /\ DOMAIN list = 1..Len(list) /\ \A i \in 1..Len(list) : IsCard(list[i])
  BY CardSeq DEF Good, IsCards
<1>2. new = [i \in 1..Len(list) |-> IF meant(list[i]) THEN to(list[i]) ELSE list[i]]
  BY <1>1 DEF MapLifecycleCards
<1>3. ASSUME NEW c, IsCard(c) PROVE Rewrites(to(c), c) /\ Calms(to(c), c)
  <2>1. PICK pay : to(c) = [c EXCEPT !.pay = pay, !.status = decision.status]
    BY DEF PatchedCard
  <2> HIDE DEF to
  <2>2. QED
    BY <1>3, <2>1 DEF Rewrites, Calms, IsCard, Still
<1>4. ASSUME NEW c, IsCard(c) PROVE Rewrites(c, c) /\ Calms(c, c)
  BY <1>4 DEF Rewrites, Calms
<1> HIDE DEF to, meant, new
<1>5. \A i \in 1..Len(list) : Rewrites(new[i], list[i]) /\ Calms(new[i], list[i])
  BY <1>1, <1>2, <1>3, <1>4
<1>6. new = [i \in 1..Len(list) |-> new[i]]
  BY <1>2
<1>7. Mapped(new, list)
  BY <1>5, <1>6 DEF Mapped
<1>8. QED
  BY <1>1, <1>5, <1>7, MappedKeeps DEF Good, new

LEMMA SettledKeep ==
    ASSUME NEW list, Good(list), NEW hs
    PROVE  Good(SettleLifecycle(list, hs)) /\ \A h : Quiet(list, h) => Quiet(SettleLifecycle(list, hs), h)
<1> DEFINE closed(status) == [status |-> status, error |-> Keep, force |-> FALSE]
           subs == MapLifecycleCards(list, hs, "subagent", CardIds(list), closed("finished"))
           out == MapLifecycleCards(subs, hs, "task", CardIds(list), closed("stopped"))
<1>1. SettleLifecycle(list, hs) = out
  BY DEF SettleLifecycle
<1>2. Good(subs) /\ \A h : Quiet(list, h) => Quiet(subs, h)
  <2> HIDE DEF closed
  <2>1. QED
    BY PatchedKeep
<1> HIDE DEF subs
<1>3. Good(out) /\ \A h : Quiet(subs, h) => Quiet(out, h)
  <2> HIDE DEF closed
  <2>1. QED
    BY <1>2, PatchedKeep
<1>4. QED
  BY <1>1, <1>2, <1>3

\* A command and its answer, at the end of the list.
LEMMA LocalKeep ==
    ASSUME NEW list, Good(list), NEW a, NEW b, IsCard(a), IsCard(b), Still(a), Still(b),
           a.kind \notin IdentityKinds, b.kind \notin IdentityKinds
    PROVE  Good(list \o <<a, b>>) /\ \A h : Quiet(list, h) => Quiet(list \o <<a, b>>, h)
<1>1. list \o <<a, b>> = Append(Append(list, a), b)
  <2>1. PICK D : list \in Seq(D)
    BY CardSeq DEF Good
  <2> DEFINE E == D \cup {a, b}
  <2>2. list \in Seq(E) /\ a \in E /\ b \in E
    BY <2>1
  <2> HIDE DEF E
  <2>3. QED
    BY <2>2
<1> DEFINE one == Append(list, a)
<1>2. Good(one) /\ \A h : Quiet(list, h) => Quiet(one, h)
  BY AppendedCard DEF Good, SameIdentity
<1> HIDE DEF one
<1>3. Good(Append(one, b)) /\ \A h : Quiet(one, h) => Quiet(Append(one, b), h)
  BY <1>2, AppendedCard DEF Good, SameIdentity
<1>4. QED
  BY <1>1, <1>2, <1>3 DEF one

\* Descriptions to fold in: of lifecycle cards only.
Rows(q) == q \in Seq(ToSet(q)) /\ \A d \in ToSet(q) : IsDesc(d) /\ ~IsTextUpdate(d)

LEMMA RowsOf ==
    ASSUME NEW D, NEW q \in Seq(D), NEW r, \A i \in 1..Len(q) : IsDesc(r[i]) /\ ~IsTextUpdate(r[i]),
           DOMAIN r = DOMAIN q, r = [i \in DOMAIN r |-> r[i]]
    PROVE  Rows(r)
<1>1. DOMAIN r = 1..Len(q) /\ Len(q) \in Nat
  OBVIOUS
<1>2. ToSet(r) = {r[i] : i \in 1..Len(q)}
  BY <1>1 DEF ToSet
<1>3. r \in [1..Len(q) -> ToSet(r)]
  BY <1>1, <1>2
<1>4. QED
  BY <1>1, <1>2, <1>3 DEF Rows

LEMMA RowsTogether ==
    ASSUME NEW a, Rows(a), NEW b, Rows(b)
    PROVE  Rows(a \o b)
<1> DEFINE D == ToSet(a) \cup ToSet(b)
<1>1. \A d \in D : IsDesc(d) /\ ~IsTextUpdate(d)
  BY DEF Rows
<1>2. a \in Seq(D) /\ b \in Seq(D)
  BY DEF Rows
<1> HIDE DEF D
<1>3. PICK c : c = a \o b
  OBVIOUS
<1>4. c \in Seq(D)
  BY <1>2, <1>3
<1>5. c \in Seq(ToSet(c)) /\ ToSet(c) = {c[i] : i \in 1..Len(c)} /\ \A i \in 1..Len(c) : c[i] \in D
  BY <1>4, SeqOfItsMembers
<1>6. QED
  BY <1>1, <1>3, <1>5 DEF Rows

LEMMA NoRows == Rows(<<>>)
<1>1. ToSet(<<>>) = {}
  BY DEF ToSet
<1>2. <<>> \in Seq({})
  OBVIOUS
<1>3. QED
  BY <1>1, <1>2 DEF Rows

LEMMA SetSeq ==
    ASSUME NEW S, IsFiniteSet(S)
    PROVE  SetToSeq(S) \in Seq(S)
<1>1. PICK n \in Nat : ExistsBijection(1..n, S)
  BY FS_NatBijection
<1>2. Cardinality(S) = n
  BY <1>1, FS_CountingElements
<1>3. PICK f \in [1..n -> S] : IsInjective(f)
  BY <1>1 DEF ExistsBijection, Bijection, Injection
<1>4. SetToSeq(S) \in [1..n -> S]
  BY <1>2, <1>3 DEF SetToSeq
<1>5. QED
  BY <1>1, <1>4

LEMMA RunningFinite ==
    ASSUME NEW list, Len(list) \in Nat, DOMAIN list = 1..Len(list), NEW kind
    PROVE  IsFiniteSet(RunningIds(list, kind))
<1> DEFINE S == {j \in DOMAIN list : list[j].kind = kind /\ list[j].pay.status = "running"}
           f == [i \in S |-> list[i].id]
           all == 1..Len(list)
<1>1. S \in SUBSET all /\ IsFiniteSet(all)
  BY FS_Interval
<1> HIDE DEF S, all
<1>2. IsFiniteSet(S)
  BY <1>1, FS_Subset
<1>3. RunningIds(list, kind) = {f[x] : x \in S}
  BY DEF RunningIds, S
<1>4. DOMAIN f = S
  OBVIOUS
<1> HIDE DEF f
<1>5. QED
  BY <1>2, <1>3, <1>4, ImageFinite

LEMMA UnlistedRows ==
    ASSUME NEW list, Len(list) \in Nat, DOMAIN list = 1..Len(list), NEW kind, NEW rows, NEW patch
    PROVE  Rows(Unlisted(list, kind, rows, patch))
<1> DEFINE gone == RunningIds(list, kind) \ {rows[i].id : i \in DOMAIN rows}
           ids == SetToSeq(gone)
           r == [i \in DOMAIN ids |-> IF kind = "subagent" THEN DescribeSubagentPatch(ids[i], patch)
                                      ELSE DescribeTaskPatch(ids[i], patch)]
<1>1. IsFiniteSet(gone)
  BY RunningFinite, FS_Subset
<1> HIDE DEF gone
<1>2. ids \in Seq(gone)
  BY <1>1, SetSeq
<1> HIDE DEF ids
<1>3. DOMAIN ids = 1..Len(ids)
  BY <1>2
<1>4. ASSUME NEW i \in 1..Len(ids) PROVE IsDesc(r[i]) /\ ~IsTextUpdate(r[i])
  BY <1>3, PatchDescriptions
<1>5. DOMAIN r = DOMAIN ids /\ r = [i \in DOMAIN r |-> r[i]]
  OBVIOUS
<1>6. Unlisted(list, kind, rows, patch) = r
  BY DEF Unlisted, ids, gone
<1> HIDE DEF r
<1>7. QED
  BY <1>2, <1>4, <1>5, <1>6, RowsOf

\* The two lists of an answer.
IsAnswer(a) == a.subs \in Seq(ToSet(a.subs)) /\ a.tasks \in Seq(ToSet(a.tasks))

LEMMA ReconciledRows ==
    ASSUME NEW list, Len(list) \in Nat, DOMAIN list = 1..Len(list), NEW a, IsAnswer(a)
    PROVE  Rows(Reconcile(list, a))
<1> DEFINE subs == a.subs
           tasks == a.tasks
           one == [i \in DOMAIN subs |-> DescribeListedSubagent(subs[i])]
           two == Unlisted(list, "subagent", subs, [status |-> "finished", label |-> Null])
           three == FromListTasks(tasks, RunningIds(list, "task"))
           four == Unlisted(list, "task", tasks, [status |-> "stopped"])
           x == IF a.subsFailed THEN <<>> ELSE one \o two
           y == IF a.tasksFailed THEN <<>> ELSE three \o four
<1>1. Rows(one)
  <2>1. subs \in Seq(ToSet(subs)) /\ DOMAIN subs = 1..Len(subs)
    BY DEF IsAnswer
  <2>2. \A i \in 1..Len(subs) : IsDesc(one[i]) /\ ~IsTextUpdate(one[i])
    BY <2>1, PatchDescriptions DEF DescribeListedSubagent
  <2>3. DOMAIN one = DOMAIN subs /\ one = [i \in DOMAIN one |-> one[i]]
    OBVIOUS
  <2> HIDE DEF one, subs
  <2>4. QED
    BY <2>1, <2>2, <2>3, RowsOf
<1>2. Rows(two) /\ Rows(four)
  BY UnlistedRows
<1>3. Rows(three)
  <2> DEFINE S == {r \in ToSet(tasks) : ~r.completed \/ r.id \in RunningIds(list, "task")}
             kept == Only(tasks, S)
             new == [i \in DOMAIN kept |-> DescribeListedTask(kept[i])]
  <2>1. tasks \in Seq(ToSet(tasks))
    BY DEF IsAnswer
  <2>2. kept \in Seq(ToSet(tasks))
    <3> HIDE DEF S, tasks
    <3>1. QED
      BY <2>1, OnlyKeeps
  <2>3. three = new
    BY DEF FromListTasks
  <2> HIDE DEF kept, tasks, three
  <2>4. DOMAIN kept = 1..Len(kept)
    BY <2>2
  <2>5. \A i \in 1..Len(kept) : IsDesc(new[i]) /\ ~IsTextUpdate(new[i])
    BY <2>4, PatchDescriptions DEF DescribeListedTask
  <2>6. DOMAIN new = DOMAIN kept /\ new = [i \in DOMAIN new |-> new[i]]
    OBVIOUS
  <2> HIDE DEF new
  <2>7. QED
    BY <2>2, <2>3, <2>5, <2>6, RowsOf
<1> HIDE DEF one, two, three, four, subs, tasks
<1>4. Rows(x) /\ Rows(y)
  BY <1>1, <1>2, <1>3, RowsTogether, NoRows
<1>5. Reconcile(list, a) = x \o y
  BY DEF Reconcile, one, two, three, four, subs, tasks
<1> HIDE DEF x, y
<1>6. QED
  BY <1>4, <1>5, RowsTogether

\* The lists applied to a list of cards.
LEMMA AppliedKeep ==
    ASSUME NEW list, Good(list), NEW a, IsAnswer(a), sent \in Nat, NEW handle
    PROVE  /\ Good(Fold(list, Reconcile(list, a), handle))
           /\ \A h : Quiet(list, h) => Quiet(Fold(list, Reconcile(list, a), handle), h)
<1>1. Len(list) \in Nat /\ DOMAIN list = 1..Len(list)
  BY CardSeq DEF Good, IsCards
<1>2. PICK q : q = Reconcile(list, a)
  OBVIOUS
<1>3. Rows(q)
  BY <1>1, <1>2, ReconciledRows
<1>4. q \in Seq(ToSet(q)) /\ ToSet(q) = {q[i] : i \in 1..Len(q)} /\ Len(q) \in Nat
  BY <1>3, SeqOfItsMembers DEF Rows
<1>5. \A i \in 1..Len(q) : IsDesc(q[i]) /\ ~IsTextUpdate(q[i])
  BY <1>3, <1>4 DEF Rows
<1>6. QED
  BY <1>2, <1>4, <1>5, RowsFolded

-----------------------------------------------------------------------------
(* The lists of the session kept, committed and buffered.                  *)

Lists(map) == map = [k \in Keys |-> map[k]] /\ \A k \in Keys : Good(map[k])
Calmer(new, old, h) == \A k \in Keys : Quiet(old[k], h) => Quiet(new[k], h)
\* The last event of the handle ended its turn.
TurnOver(h) == LastOf(h) # 0 /\ script[LastOf(h)].ch = "done"

CardsInv ==
    /\ Lists(live)
    /\ buf # NoBuf => Lists(buf)
    /\ \A r \in lists : "answer" \in DOMAIN r /\ (r.answer # << >> => IsAnswer(r.answer))
    /\ \A h \in Handles : TurnOver(h) => \A k \in Keys : Quiet(Source[k], h)

LEMMA ShownLists == ASSUME CardsInv PROVE Lists(Source)
  BY DEF CardsInv, Source

\* One more event is the last of its handle, and leaves those of the others.
LEMMA LastArrived ==
    ASSUME got \in Nat, Arrived, NEW h
    PROVE  /\ script[got + 1].handle = h => LastOf(h)' = got + 1
           /\ script[got + 1].handle # h => LastOf(h)' = LastOf(h)
<1> DEFINE at == {p \in 1..got : script[p].handle = h}
           more == {p \in 1..got + 1 : script[p].handle = h}
<1>1. got' = got + 1 /\ script' = script
  BY DEF Arrived
<1>2. LastOf(h)' = IF more = {} THEN 0 ELSE Max(more)
  BY <1>1 DEF LastOf
<1>3. LastOf(h) = IF at = {} THEN 0 ELSE Max(at)
  BY DEF LastOf
<1>4. ASSUME script[got + 1].handle = h PROVE LastOf(h)' = got + 1
  <2>1. got + 1 \in more /\ more # {}
    BY <1>4
  <2>2. Max(more) \in more /\ \A p \in more : p <= Max(more)
    <3>1. more \in SUBSET (1..got + 1) /\ got + 1 \in Nat
      OBVIOUS
    <3> HIDE DEF more
    <3>2. QED
      BY <2>1, <3>1, LastPlace
  <2>3. Max(more) \in 1..got + 1
    BY <2>2
  <2>4. got + 1 <= Max(more)
    BY <2>1, <2>2
  <2> HIDE DEF more
  <2>5. Max(more) = got + 1
    BY <2>3, <2>4
  <2>6. QED
    BY <1>2, <2>1, <2>5
<1>5. ASSUME script[got + 1].handle # h PROVE LastOf(h)' = LastOf(h)
  <2>1. more = at
    BY <1>5
  <2>2. QED
    BY <1>2, <1>3, <2>1
<1>6. QED
  BY <1>4, <1>5

LEMMA TurnStays == ASSUME UNCHANGED <<script, got>>, NEW h PROVE TurnOver(h)' <=> TurnOver(h)
<1>1. LastOf(h)' = LastOf(h)
  BY DEF LastOf
<1>2. QED
  BY <1>1 DEF TurnOver

LEMMA TurnGoesOn ==
    ASSUME got \in Nat, Arrived, script[got + 1].ch # "done", NEW h, TurnOver(h)'
    PROVE  TurnOver(h) /\ script[got + 1].handle # h
<1>1. script' = script
  BY DEF Arrived
<1>2. script[got + 1].handle # h
  <2> SUFFICES ASSUME script[got + 1].handle = h PROVE FALSE
    OBVIOUS
  <2>1. LastOf(h)' = got + 1
    BY LastArrived
  <2>2. QED
    BY <1>1, <2>1 DEF TurnOver
<1>3. LastOf(h)' = LastOf(h)
  BY <1>2, LastArrived
<1>4. QED
  BY <1>1, <1>2, <1>3 DEF TurnOver

\* What a step has to keep.
LEMMA CardsKept ==
    ASSUME CardsInv, Lists(live'), buf' # NoBuf => Lists(buf'),
           \A r \in lists' : "answer" \in DOMAIN r /\ (r.answer # << >> => IsAnswer(r.answer)),
           \A h \in Handles : TurnOver(h)' =>
               (TurnOver(h) /\ Calmer(Source', Source, h)) \/ \A k \in Keys : Quiet(Source'[k], h)
    PROVE  CardsInv'
<1>1. (\A h \in Handles : TurnOver(h) => \A k \in Keys : Quiet(Source[k], h))'
  <2> SUFFICES ASSUME NEW h \in Handles, TurnOver(h)', NEW k \in Keys PROVE Quiet(Source'[k], h)
    OBVIOUS
  <2>1. QED
    BY DEF CardsInv, Calmer
<1>2. QED
  BY <1>1 DEF CardsInv

\* A step that writes the committed lists only.
LEMMA LiveWritten ==
    ASSUME CardsInv, buf' = buf, Lists(live'), \A h : Calmer(live', live, h)
    PROVE  (buf' # NoBuf => Lists(buf')) /\ \A h : Calmer(Source', Source, h)
<1>1. CASE buf = NoBuf
  BY <1>1 DEF Source
<1>2. CASE buf # NoBuf
  BY <1>2 DEF Source, CardsInv, Calmer
<1>3. QED
  BY <1>1, <1>2

\* A step that reduces an event into the list of one key.
LEMMA Scheduled ==
    ASSUME CardsInv, Keys # {}, NEW key, NEW out, Schedule(key, out), key \in Keys => Good(out.list)
    PROVE  /\ Lists(live') /\ (buf' # NoBuf => Lists(buf'))
           /\ \A h : (key \in Keys /\ Quiet(Source[key], h) => Quiet(out.list, h)) => Calmer(Source', Source, h)
<1>1. live' = live /\ buf' = IF out.list = Source[key] THEN buf ELSE [Source EXCEPT ![key] = out.list]
  BY DEF Schedule
<1>2. Lists(Source) /\ Lists(live)
  BY ShownLists DEF CardsInv
<1>3. CASE out.list = Source[key]
  <2>1. buf' = buf /\ Source' = Source
    BY <1>1, <1>3 DEF Source
  <2>2. QED
    BY <1>1, <1>2, <2>1 DEF CardsInv, Calmer
<1>4. CASE out.list # Source[key]
  <2>1. buf' = [Source EXCEPT ![key] = out.list]
    BY <1>1, <1>4
  <2> DEFINE old == Source
             new == buf'
  <2>2. new = [k \in Keys |-> IF k = key THEN out.list ELSE old[k]]
    BY <1>2, <2>1 DEF Lists
  <2>3. new # NoBuf
    <3>1. DOMAIN new = Keys
      BY <2>2
    <3>2. DOMAIN NoBuf = {}
      BY DEF NoBuf
    <3>3. QED
      BY <3>1, <3>2
  <2>4. Source' = new
    BY <2>3 DEF Source
  <2> HIDE DEF old, new
  <2>5. Lists(new)
    BY <1>2, <2>2 DEF Lists, old
  <2>6. \A h : (key \in Keys /\ Quiet(old[key], h) => Quiet(out.list, h)) => Calmer(new, old, h)
    BY <2>2 DEF Calmer
  <2>7. QED
    BY <1>1, <1>2, <2>4, <2>5, <2>6 DEF old, new
<1>5. QED
  BY <1>3, <1>4

LEMMA CardsInit == Init => CardsInv
<1> SUFFICES ASSUME Init PROVE CardsInv
  OBVIOUS
<1>1. live = NoCards /\ buf = NoBuf /\ lists = {} /\ got = 0
  BY DEF Init
<1>2. Lists(live)
  BY <1>1, EmptyCards DEF Lists, NoCards
<1>3. \A h : LastOf(h) = 0
  <2>1. \A h : {p \in 1..got : script[p].handle = h} = {}
    BY <1>1
  <2>2. QED
    BY <2>1 DEF LastOf
<1>4. QED
  BY <1>1, <1>2, <1>3 DEF CardsInv, TurnOver

-----------------------------------------------------------------------------
(* One lemma for each kind of step.                                        *)

CardsReady == CardsInv /\ sent \in Nat /\ got \in Nat /\ Keys # {}

\* One list of a map is written.
Put(new, old, key, list) == new = [old EXCEPT ![key] = list]

LEMMA PutKeeps ==
    ASSUME NEW old, Lists(old), NEW key, NEW list, NEW new, Put(new, old, key, list),
           key \in Keys => Good(list)
    PROVE  /\ Lists(new)
           /\ \A h : (key \in Keys /\ Quiet(old[key], h) => Quiet(list, h)) => Calmer(new, old, h)
<1>1. new = [k \in Keys |-> IF k = key THEN list ELSE old[k]]
  BY DEF Put, Lists
<1>2. QED
  BY <1>1 DEF Lists, Calmer

\* Every list of a map is written.
Wrote(new, old) ==
    /\ new = [k \in Keys |-> new[k]]
    /\ \A k \in Keys : Good(new[k]) /\ \A h : Quiet(old[k], h) => Quiet(new[k], h)

LEMMA WroteKeeps ==
    ASSUME NEW old, NEW new, Wrote(new, old)
    PROVE  Lists(new) /\ \A h : Calmer(new, old, h)
BY DEF Wrote, Lists, Calmer

LEMMA PrunedKeeps ==
    ASSUME NEW map, Lists(map), NEW list, NEW sel
    PROVE  Wrote(Pruned(map, list, sel), map)
<1> DEFINE new == Pruned(map, list, sel)
<1>1. new = [k \in Keys |-> IF k \in KeptKeys(list, sel) THEN map[k] ELSE <<>>]
  BY DEF Pruned
<1> HIDE DEF new
<1>2. \A k \in Keys : new[k] = map[k] \/ new[k] = <<>>
  BY <1>1
<1>3. \A k \in Keys : Good(map[k])
  BY DEF Lists
<1>4. \A k \in Keys : Good(new[k]) /\ \A h : Quiet(map[k], h) => Quiet(new[k], h)
  BY <1>2, <1>3, EmptyCards
<1>5. new = [k \in Keys |-> new[k]]
  BY <1>1
<1>6. Wrote(new, map)
  BY <1>4, <1>5 DEF Wrote
<1>7. QED
  BY <1>6 DEF new

LEMMA SettledAllKeep ==
    ASSUME NEW map, Lists(map), NEW hs
    PROVE  Wrote(SettleAll(map, hs), map)
<1> DEFINE new == SettleAll(map, hs)
<1>1. new = [k \in Keys |-> SettleLifecycle(map[k], hs)]
  BY DEF SettleAll
<1> HIDE DEF new
<1>2. \A k \in Keys : new[k] = SettleLifecycle(map[k], hs)
  BY <1>1
<1>3. \A k \in Keys : Good(map[k])
  BY DEF Lists
<1>4. \A k \in Keys : Good(new[k]) /\ \A h : Quiet(map[k], h) => Quiet(new[k], h)
  BY <1>2, <1>3, SettledKeep
<1>5. new = [k \in Keys |-> new[k]]
  BY <1>1
<1>6. Wrote(new, map)
  BY <1>4, <1>5 DEF Wrote
<1>7. QED
  BY <1>6 DEF new

\* A step that leaves the events alone and writes the committed lists.
LEMMA WrittenInPlace ==
    ASSUME CardsInv, UNCHANGED <<script, got, buf, lists>>, Lists(live'), \A h : Calmer(live', live, h)
    PROVE  CardsInv'
<1>1. (buf' # NoBuf => Lists(buf')) /\ \A h : Calmer(Source', Source, h)
  BY LiveWritten
<1>2. \A h \in Handles : TurnOver(h)' => TurnOver(h)
  BY TurnStays
<1>3. \A r \in lists' : "answer" \in DOMAIN r /\ (r.answer # << >> => IsAnswer(r.answer))
  BY DEF CardsInv
<1>4. QED
  BY <1>1, <1>2, <1>3, CardsKept

LEMMA SameMap == ASSUME NEW h PROVE \A map : Calmer(map, map, h)
  BY DEF Calmer

\* A step that leaves the cards alone and the lists asked for.
LEMMA CardsRest ==
    ASSUME CardsInv, UNCHANGED <<live, buf, lists>>, \A h \in Handles : TurnOver(h)' => TurnOver(h)
    PROVE  CardsInv'
<1>1. Source' = Source
  BY DEF Source
<1>2. \A h : Calmer(Source', Source, h)
  BY <1>1, SameMap
<1>3. Lists(live') /\ (buf' # NoBuf => Lists(buf'))
  BY DEF CardsInv
<1>4. \A r \in lists' : "answer" \in DOMAIN r /\ (r.answer # << >> => IsAnswer(r.answer))
  BY DEF CardsInv
<1>5. QED
  BY <1>2, <1>3, <1>4, CardsKept

LEMMA CardsOfStatus == ASSUME CardsReady, StatusArrives PROVE CardsInv'
<1>1. Arrived /\ script[got + 1].ch # "done" /\ buf' = buf /\ got \in Nat
  BY DEF StatusArrives, NextEvent, CardsReady
<1>2. \A h \in Handles : TurnOver(h)' => TurnOver(h)
  BY <1>1, TurnGoesOn
<1>3. CASE UNCHANGED <<live, lists>>
  BY <1>1, <1>2, <1>3, CardsRest DEF CardsReady
<1>4. CASE \E list : ManagedEffects(list)
  <2>1. PICK list : ManagedEffects(list)
    BY <1>4
  <2> DEFINE asks == lists' \ lists
             mid == Pruned(live, list, selected)
  <2>2. PICK hs : live' = SettleAll(mid, hs)
    BY <2>1 DEF ManagedEffects
  <2>3. \A r \in lists' : r \in lists \/ ("answer" \in DOMAIN r /\ r.answer = << >>)
    BY <2>1 DEF ManagedEffects, RefillEffect
  <2>4. \A r \in lists' : "answer" \in DOMAIN r /\ (r.answer # << >> => IsAnswer(r.answer))
    BY <2>3 DEF CardsReady, CardsInv
  <2>5. Lists(live)
    BY DEF CardsReady, CardsInv
  <2>6. Wrote(mid, live)
    BY <2>5, PrunedKeeps
  <2> HIDE DEF mid
  <2>7. Lists(mid)
    BY <2>6, WroteKeeps
  <2>8. Wrote(live', mid)
    BY <2>2, <2>7, SettledAllKeep
  <2>9. Lists(live') /\ \A h : Calmer(live', live, h)
    <3>1. Lists(live')
      BY <2>8, WroteKeeps
    <3>2. \A k \in Keys : \A h : Quiet(live[k], h) => Quiet(live'[k], h)
      BY <2>6, <2>8 DEF Wrote
    <3>3. QED
      BY <3>1, <3>2 DEF Calmer
  <2>10. (buf' # NoBuf => Lists(buf')) /\ \A h : Calmer(Source', Source, h)
    BY <1>1, <2>9, LiveWritten DEF CardsReady
  <2>11. QED
    BY <1>2, <2>4, <2>9, <2>10, CardsKept DEF CardsReady
<1>5. QED
  BY <1>3, <1>4 DEF StatusArrives

LEMMA CardsOfRemoval == ASSUME CardsReady, NEW gone, RemoveManaged(gone) PROVE CardsInv'
<1> DEFINE mid == SettleAll(live, {gone})
<1>1. live' = Pruned(mid, roster', selected) /\ UNCHANGED <<script, got, buf, lists>>
  BY DEF RemoveManaged, host
<1>2. Wrote(mid, live)
  BY SettledAllKeep DEF CardsReady, CardsInv
<1> HIDE DEF mid
<1>3. Wrote(live', mid)
  <2>1. Lists(mid)
    BY <1>2, WroteKeeps
  <2>2. \A list, sel : Wrote(Pruned(mid, list, sel), mid)
    BY <2>1, PrunedKeeps
  <2>3. QED
    BY <1>1, <2>2
<1>4. Lists(live') /\ \A h : Calmer(live', live, h)
  <2>1. Lists(live')
    BY <1>3, WroteKeeps
  <2>2. \A k \in Keys : \A h : Quiet(live[k], h) => Quiet(live'[k], h)
    BY <1>2, <1>3 DEF Wrote
  <2>3. QED
    BY <2>1, <2>2 DEF Calmer
<1>5. QED
  BY <1>1, <1>4, WrittenInPlace DEF CardsReady

\* An event of the stream, in the list of its key.
LEMMA CardsOfReduced ==
    ASSUME CardsReady, Arrived, script[got + 1].ch # "done", lists' = lists,
           NEW out, Schedule(KeyOf(script[got + 1]), out),
           KeyOf(script[got + 1]) \in Keys =>
              /\ Good(out.list)
              /\ \A h : Quiet(Source[KeyOf(script[got + 1])], h) /\ script[got + 1].handle # h => Quiet(out.list, h)
    PROVE  CardsInv'
<1> DEFINE key == KeyOf(script[got + 1])
<1>1. /\ Lists(live') /\ (buf' # NoBuf => Lists(buf'))
      /\ \A h : (key \in Keys /\ Quiet(Source[key], h) => Quiet(out.list, h)) => Calmer(Source', Source, h)
  BY Scheduled DEF CardsReady
<1>2. \A h \in Handles : TurnOver(h)' => TurnOver(h) /\ script[got + 1].handle # h
  BY TurnGoesOn DEF CardsReady
<1>3. \A h \in Handles : TurnOver(h)' => TurnOver(h) /\ Calmer(Source', Source, h)
  BY <1>1, <1>2
<1>4. \A r \in lists' : "answer" \in DOMAIN r /\ (r.answer # << >> => IsAnswer(r.answer))
  BY DEF CardsReady, CardsInv
<1>5. QED
  BY <1>1, <1>3, <1>4, CardsKept DEF CardsReady

LEMMA CardsOfInput ==
    ASSUME CardsReady, Arrived, script[got + 1].ch # "done", lists' = lists,
           NEW ts \in Nat, Reduced(script[got + 1], ts)
    PROVE  CardsInv'
<1> DEFINE e == script[got + 1]
<1>1. PICK key : key = KeyOf(e)
  OBVIOUS
<1>2. PICK in : in = Input(e, ts)
  OBVIOUS
<1>3. PICK out : out = ReduceAgentUpdate(Source[key], in, rs[key])
  OBVIOUS
<1>4. Schedule(key, out)
  BY <1>1, <1>2, <1>3 DEF Reduced
<1>5. IsInput(in) /\ in.own = e.handle
  BY <1>2, Descriptions DEF Input, IsInput
<1>6. key \in Keys => Good(Source[key])
  BY ShownLists DEF CardsReady, Lists
<1>7. key \in Keys => Good(out.list) /\ \A h : Quiet(Source[key], h) /\ in.own # h => Quiet(out.list, h)
  BY <1>3, <1>5, <1>6, ReducedKeeps
<1> HIDE DEF e
<1>8. /\ Schedule(KeyOf(e), out)
      /\ KeyOf(e) \in Keys => Good(out.list) /\ \A h : Quiet(Source[KeyOf(e)], h) /\ e.handle # h => Quiet(out.list, h)
  BY <1>1, <1>4, <1>5, <1>7
<1>9. QED
  BY <1>8, CardsOfReduced DEF e

LEMMA CardsOfUpdate == ASSUME CardsReady, UpdateArrives PROVE CardsInv'
<1>1. Arrived /\ script[got + 1].ch # "done" /\ lists' = lists
  BY DEF UpdateArrives, NextEvent, agents
<1>2. CASE UNCHANGED cards
  BY <1>1, <1>2, TurnGoesOn, CardsRest DEF CardsReady, cards
<1>3. CASE Reduced(script[got + 1], got + 1)
  BY <1>1, <1>3, CardsOfInput DEF CardsReady
<1>4. UNCHANGED cards \/ Reduced(script[got + 1], got + 1)
  BY DEF UpdateArrives, cards
<1>5. QED
  BY <1>2, <1>3, <1>4

LEMMA CardsOfNotification == ASSUME CardsReady, NotificationArrives PROVE CardsInv'
<1>1. Arrived /\ script[got + 1].ch # "done" /\ lists' = lists
  BY DEF NotificationArrives, NextEvent, agents
<1>2. CASE UNCHANGED cards
  BY <1>1, <1>2, TurnGoesOn, CardsRest DEF CardsReady, cards
<1>3. CASE Reduced(script[got + 1], sent)
  BY <1>1, <1>3, CardsOfInput DEF CardsReady
<1>4. UNCHANGED cards \/ Reduced(script[got + 1], sent)
  BY DEF NotificationArrives
<1>5. QED
  BY <1>2, <1>3, <1>4

LEMMA CardsOfShell == ASSUME CardsReady, ShellArrives PROVE CardsInv'
<1> DEFINE e == script[got + 1]
<1>1. Arrived /\ e.ch # "done" /\ lists' = lists
  BY DEF ShellArrives, NextEvent, agents
<1>2. PICK key : key = KeyOf(e)
  OBVIOUS
<1>3. PICK entry : entry = [id |-> e.u.id, own |-> e.handle, text |-> e.text, delta |-> e.delta,
                            status |-> e.u.status, ts |-> got + 1]
  OBVIOUS
<1>4. PICK out : out = ReduceShellUpdate(Source[key], entry, rs[key], MaxLive)
  OBVIOUS
<1>5. Schedule(key, out)
  BY <1>2, <1>3, <1>4 DEF ShellArrives
<1>6. entry.ts \in Nat
  BY <1>3 DEF CardsReady
<1>7. key \in Keys => Good(Source[key])
  BY ShownLists DEF CardsReady, Lists
<1>8. key \in Keys => Good(out.list) /\ \A h : Quiet(Source[key], h) => Quiet(out.list, h)
  BY <1>4, <1>6, <1>7, TimelineCaps, ShellKeeps
<1> HIDE DEF e
<1>9. /\ Schedule(KeyOf(e), out)
      /\ KeyOf(e) \in Keys => Good(out.list) /\ \A h : Quiet(Source[KeyOf(e)], h) /\ e.handle # h => Quiet(out.list, h)
  BY <1>2, <1>5, <1>8
<1>10. QED
  BY <1>1, <1>9, CardsOfReduced DEF e

LEMMA CardsOfPermission ==
    ASSUME CardsReady, PermissionArrives \/ PermissionResolvedArrives
    PROVE  CardsInv'
<1>1. Arrived /\ script[got + 1].ch # "done" /\ UNCHANGED <<live, buf, lists>>
  BY DEF PermissionArrives, PermissionResolvedArrives, NextEvent, agents, cards
<1>2. QED
  BY <1>1, TurnGoesOn, CardsRest DEF CardsReady

\* The end of a turn: its cards stop streaming in every list.
LEMMA CardsOfTurnEnd == ASSUME CardsReady, PromptCompleteArrives PROVE CardsInv'
<1>1. PICK g : g = script[got + 1].handle
  OBVIOUS
<1>2. PICK out : out = [k \in Keys |-> SettleStreaming(Source[k], g)]
  OBVIOUS
<1>3. Arrived /\ live' = live /\ lists' = lists /\ buf' = IF out = Source THEN buf ELSE out
  BY <1>1, <1>2 DEF PromptCompleteArrives, agents
<1>4. Lists(Source) /\ Lists(live)
  BY ShownLists DEF CardsReady, CardsInv
<1>5. \A k \in Keys : /\ Good(out[k]) /\ Quiet(out[k], g)
                      /\ \A h : Quiet(Source[k], h) => Quiet(out[k], h)
  <2> SUFFICES ASSUME NEW k \in Keys
               PROVE  Good(out[k]) /\ Quiet(out[k], g) /\ \A h : Quiet(Source[k], h) => Quiet(out[k], h)
    OBVIOUS
  <2>1. PICK old : old = Source[k]
    OBVIOUS
  <2>2. Good(old) /\ IsCards(old) /\ OneEach(old)
    BY <1>4, <2>1 DEF Lists, Good
  <2>3. PICK new : new = SettleStreaming(old, g)
    OBVIOUS
  <2>4. Mapped(new, old) /\ Quiet(new, g) /\ \A h : Quiet(old, h) => Quiet(new, h)
    BY <2>2, <2>3, SettledCards
  <2>5. Good(new)
    BY <2>2, <2>4, MappedKeeps DEF Good
  <2>6. out[k] = new
    BY <1>2, <2>1, <2>3
  <2>7. QED
    BY <2>1, <2>4, <2>5, <2>6
<1>6. out = [k \in Keys |-> out[k]] /\ Lists(out) /\ out # NoBuf
  <2>1. out = [k \in Keys |-> out[k]] /\ DOMAIN out = Keys
    BY <1>2
  <2>2. DOMAIN NoBuf = {}
    BY DEF NoBuf
  <2>3. out # NoBuf
    BY <2>1, <2>2 DEF CardsReady
  <2>4. QED
    BY <1>5, <2>1, <2>3 DEF Lists
<1>7. Source' = out
  BY <1>3, <1>6 DEF Source
<1>8. Lists(live') /\ (buf' # NoBuf => Lists(buf'))
  BY <1>3, <1>4, <1>6 DEF CardsReady, CardsInv
<1>9. \A h \in Handles : TurnOver(h)' => (TurnOver(h) /\ Calmer(Source', Source, h)) \/ \A k \in Keys : Quiet(Source'[k], h)
  <2> SUFFICES ASSUME NEW h \in Handles, TurnOver(h)'
               PROVE  (TurnOver(h) /\ Calmer(Source', Source, h)) \/ \A k \in Keys : Quiet(Source'[k], h)
    OBVIOUS
  <2>1. CASE g = h
    BY <1>5, <1>7, <2>1
  <2>2. CASE g # h
    <3>1. LastOf(h)' = LastOf(h) /\ script' = script
      BY <1>1, <1>3, <2>2, LastArrived DEF CardsReady, Arrived
    <3>2. TurnOver(h)
      BY <3>1 DEF TurnOver
    <3>3. QED
      BY <1>5, <1>7, <3>2 DEF Calmer
  <2>3. QED
    BY <2>1, <2>2
<1>10. \A r \in lists' : "answer" \in DOMAIN r /\ (r.answer # << >> => IsAnswer(r.answer))
  BY <1>3 DEF CardsReady, CardsInv
<1>11. QED
  BY <1>8, <1>9, <1>10, CardsKept DEF CardsReady

LEMMA CardsOfFrame == ASSUME CardsReady, FlushLive PROVE CardsInv'
<1>1. buf # NoBuf /\ live' = buf /\ buf' = NoBuf /\ UNCHANGED <<script, got, lists>>
  BY DEF FlushLive, host, agents
<1>2. Source' = Source
  BY <1>1 DEF Source
<1>3. Lists(live')
  BY <1>1 DEF CardsReady, CardsInv
<1>4. \A h \in Handles : TurnOver(h)' => TurnOver(h)
  BY <1>1, TurnStays
<1>5. \A r \in lists' : "answer" \in DOMAIN r /\ (r.answer # << >> => IsAnswer(r.answer))
  BY <1>1 DEF CardsReady, CardsInv
<1>6. \A h : Calmer(Source', Source, h)
  BY <1>2, SameMap
<1>7. QED
  BY <1>1, <1>3, <1>4, <1>5, <1>6, CardsKept DEF CardsReady

\* The entries of the log carry the time of their event.
LEMMA LogTimes ==
    ASSUME NEW n \in Nat, NEW s
    PROVE  \A e \in ToSet(Logged(n, s)) : e.ts \in Nat
<1> DEFINE q == [p \in 1..n |-> p]
           at == Positions(n, s)
<1>1. q \in Seq(1..n)
  OBVIOUS
<1> HIDE DEF q
<1>2. at \in Seq(1..n)
  BY <1>1, OnlyKeeps DEF Positions, q
<1> HIDE DEF at
<1> DEFINE log == [i \in DOMAIN at |-> Entry(at[i])]
<1>3. Logged(n, s) = log
  BY DEF Logged, at
<1>4. /\ DOMAIN at = 1..Len(at) /\ Len(at) \in Nat
      /\ \A i \in 1..Len(at) : at[i] \in Nat /\ log[i] = Entry(at[i]) /\ log[i].ts = at[i]
  BY <1>2 DEF Entry
<1>5. log \in Seq({Entry(p) : p \in Nat}) /\ Len(log) = Len(at)
  BY <1>4
<1> HIDE DEF log
<1>6. ToSet(log) = {log[i] : i \in 1..Len(log)}
  BY <1>5, SeqOfItsMembers
<1>7. QED
  BY <1>3, <1>4, <1>5, <1>6

\* What the raw pages hydrate to.
LEMMA PagesHydrate ==
    HistoryInv => (hist # None => Good(Hydrate(hist.updates)) /\ \A h : Quiet(Hydrate(hist.updates), h))
<1> SUFFICES ASSUME HistoryInv, hist # None
             PROVE  Good(Hydrate(hist.updates)) /\ \A h : Quiet(Hydrate(hist.updates), h)
  OBVIOUS
<1>1. PICK log : log = Log(hist.session)
  OBVIOUS
<1>2. hist.updates \in Seq(ToSet(log))
  BY <1>1 DEF HistoryInv, IsFolded
<1>3. \A e \in ToSet(log) : e.ts \in Nat
  BY <1>1, LogTimes DEF HistoryInv, Log
<1>4. Len(hist.updates) \in Nat /\ \A i \in 1..Len(hist.updates) : hist.updates[i].ts \in Nat
  BY <1>2, <1>3
<1>5. QED
  BY <1>4, HydrateKeeps

LEMMA PagesHydrateNext ==
    ASSUME HistoryInv', hist' # None
    PROVE  Good(Hydrate(hist'.updates)) /\ \A h : Quiet(Hydrate(hist'.updates), h)
<1>1. (HistoryInv => (hist # None => Good(Hydrate(hist.updates)) /\ \A h : Quiet(Hydrate(hist.updates), h)))'
  BY PagesHydrate, PTL
<1>2. QED
  BY <1>1

\* The raw pages merged into the list of a key.
LEMMA PageWritten ==
    ASSUME NEW map, Lists(map), HistoryInv', hist' # None, NEW key, NEW new,
           Put(new, map, key, MergeDiskLive(map[key], Hydrate(hist'.updates)))
    PROVE  Lists(new) /\ \A h : Calmer(new, map, h)
<1>1. PICK page : page = Hydrate(hist'.updates)
  OBVIOUS
<1>2. Good(page) /\ \A h : Quiet(page, h)
  BY <1>1, PagesHydrateNext
<1>3. PICK list : list = MergeDiskLive(map[key], page)
  OBVIOUS
<1>4. Put(new, map, key, list)
  BY <1>1, <1>3
<1>5. key \in Keys => Good(list) /\ \A h : Quiet(map[key], h) => Quiet(list, h)
  BY <1>2, <1>3, MergedPage DEF Lists
<1>6. QED
  BY <1>4, <1>5, PutKeeps

\* What a step does to the committed lists when it reads the pages.
Paged(key) == Put(live', live, key, MergeDiskLive(live[key], Hydrate(hist'.updates))) /\ hist' # None

LEMMA PagedKeeps ==
    ASSUME CardsReady, HistoryInv', UNCHANGED <<script, got, buf, lists>>,
           live' = live \/ \E key : Paged(key)
    PROVE  CardsInv'
<1>1. Lists(live)
  BY DEF CardsReady, CardsInv
<1>2. CASE live' = live
  BY <1>1, <1>2, SameMap, WrittenInPlace DEF CardsReady
<1>3. ASSUME NEW key, Paged(key) PROVE CardsInv'
  <2>1. Lists(live') /\ \A h : Calmer(live', live, h)
    BY <1>1, <1>3, PageWritten DEF Paged
  <2>2. QED
    BY <2>1, WrittenInPlace DEF CardsReady
<1>4. QED
  BY <1>2, <1>3

LEMMA CardsOfDetail == ASSUME CardsReady, HistoryInv, HistoryInv', DetailAnswered PROVE CardsInv'
<1>1. UNCHANGED <<script, got, buf, lists>>
  BY DEF DetailAnswered, host, agents
<1>2. live' = live \/ Paged(selected)
  <2>1. live' = live \/ (hist'.session = selected /\ live' = [live EXCEPT ![selected] = MergeDiskLive(@, Hydrate(hist'.updates))])
    BY DEF DetailAnswered, HydrateEffect
  <2>2. hist'.session = selected => hist' # None
    BY TranscriptPages DEF HistoryInv, None
  <2>3. QED
    BY <2>1, <2>2 DEF Paged, Put
<1>3. QED
  BY <1>1, <1>2, PagedKeeps

LEMMA CardsOfOlder ==
    ASSUME CardsReady, HistoryInv, HistoryInv', NEW eager \in BOOLEAN, OlderAnswered(eager)
    PROVE  CardsInv'
<1>1. UNCHANGED <<script, got, buf, lists>>
  BY DEF OlderAnswered, host, agents
<1>2. CASE live' = live
  BY <1>1, <1>2, PagedKeeps
<1>3. CASE live' # live
  <2>1. hist' = OlderMerged /\ hist.session = older.session /\ older # None
    BY <1>3 DEF OlderAnswered
  <2>2. hist'.session = hist.session
    BY <2>1 DEF OlderMerged
  <2>3. hist.session \in Sessions
    BY <2>1 DEF HistoryInv, IsOlder
  <2>4. hist' # None
    BY <2>2, <2>3, TranscriptPages DEF None
  <2>5. \E key : live' = [live EXCEPT ![key] = MergeDiskLive(@, Hydrate(hist'.updates))]
    BY <1>3 DEF OlderAnswered, HydrateEffect
  <2>6. \E key : Paged(key)
    BY <2>4, <2>5 DEF Paged, Put
  <2>7. QED
    BY <1>1, <2>6, PagedKeeps
<1>4. QED
  BY <1>2, <1>3

LEMMA CardsOfSelect ==
    ASSUME CardsReady, HistoryInv, HistoryInv', NEW s \in Sessions, SelectSession(s)
    PROVE  CardsInv'
<1>1. UNCHANGED <<script, got, buf, lists>>
  BY DEF SelectSession, host, agents
<1>2. PICK mid : mid = Pruned(live, roster, s)
  OBVIOUS
<1>3. Wrote(mid, live)
  BY <1>2, PrunedKeeps DEF CardsReady, CardsInv
<1>4. Lists(mid) /\ \A h : Calmer(mid, live, h)
  BY <1>3, WroteKeeps
<1>5. live' = mid \/ (hist'.session = s /\ Put(live', mid, s, MergeDiskLive(mid[s], Hydrate(hist'.updates))))
  BY <1>2 DEF SelectSession, Put
<1>6. CASE live' = mid
  BY <1>1, <1>4, <1>6, WrittenInPlace DEF CardsReady
<1>7. ASSUME hist'.session = s, Put(live', mid, s, MergeDiskLive(mid[s], Hydrate(hist'.updates)))
      PROVE  CardsInv'
  <2>1. hist' # None
    BY <1>7, TranscriptPages DEF None
  <2>2. Lists(live') /\ \A h : Calmer(live', mid, h)
    BY <1>4, <1>7, <2>1, PageWritten
  <2>3. \A h : Calmer(live', live, h)
    BY <1>4, <2>2 DEF Calmer
  <2>4. QED
    BY <1>1, <2>2, <2>3, WrittenInPlace DEF CardsReady
<1>8. QED
  BY <1>5, <1>6, <1>7

\* What the agent lists.
LEMMA ListedIsAnswer ==
    ASSUME sent \in Nat, NEW h, NEW a, a.subs = ListedSubs(sent, h), a.tasks = ListedTasks(sent, h)
    PROVE  IsAnswer(a)
<1> DEFINE all == 1..sent
<1>1. IsFiniteSet(all)
  BY FS_Interval
<1>2. ListedSubs(sent, h) \in Seq(ToSet(ListedSubs(sent, h)))
  <2> DEFINE on == {p \in Named(sent, h, {"subagent_spawned"}) :
                       ~EndsOf(sent, h, script[p].u.id, {"subagent_finished"})}
             f == [p \in on |-> [id |-> script[p].u.id, desc |-> "subagent"]]
             S == {[id |-> script[p].u.id, desc |-> "subagent"] : p \in on}
  <2>1. ListedSubs(sent, h) = SetToSeq(S)
    BY DEF ListedSubs
  <2>2. on \in SUBSET all
    BY DEF Named
  <2> HIDE DEF on, all
  <2>3. IsFiniteSet(on)
    BY <1>1, <2>2, FS_Subset
  <2>4. S = {f[p] : p \in on} /\ DOMAIN f = on
    OBVIOUS
  <2> HIDE DEF f, S
  <2>5. IsFiniteSet(S)
    BY <2>3, <2>4, ImageFinite
  <2>6. QED
    BY <2>1, <2>5, SetSeq, SeqOfItsMembers
<1>3. ListedTasks(sent, h) \in Seq(ToSet(ListedTasks(sent, h)))
  <2> DEFINE on == Named(sent, h, {"task_backgrounded"})
             row(p) == [id |-> script[p].u.id, desc |-> Null, signal |-> FALSE, exit |-> Null,
                        completed |-> EndsOf(sent, h, script[p].u.id, {"task_completed"})]
             f == [p \in on |-> row(p)]
             S == {row(p) : p \in on}
  <2>1. ListedTasks(sent, h) = SetToSeq(S)
    BY DEF ListedTasks
  <2>2. on \in SUBSET all
    BY DEF Named
  <2> HIDE DEF on, all
  <2>3. IsFiniteSet(on)
    BY <1>1, <2>2, FS_Subset
  <2>4. S = {f[p] : p \in on} /\ DOMAIN f = on
    OBVIOUS
  <2> HIDE DEF f, S
  <2>5. IsFiniteSet(S)
    BY <2>3, <2>4, ImageFinite
  <2>6. QED
    BY <2>1, <2>5, SetSeq, SeqOfItsMembers
<1>4. QED
  BY <1>2, <1>3 DEF IsAnswer

LEMMA CardsOfAnswer ==
    ASSUME CardsReady, NEW r \in lists, NEW f, NEW g, ListsAnswered(r, f, g)
    PROVE  CardsInv'
<1>1. PICK a : /\ a = [subs |-> ListedSubs(sent, r.handle), subsFailed |-> f,
                       tasks |-> ListedTasks(sent, r.handle), tasksFailed |-> g]
  OBVIOUS
<1>2. IsAnswer(a)
  <2>1. a.subs = ListedSubs(sent, r.handle) /\ a.tasks = ListedTasks(sent, r.handle)
    BY <1>1
  <2>2. QED
    BY <2>1, ListedIsAnswer DEF CardsReady
<1>3. lists' = (lists \ {r}) \cup {[r EXCEPT !.answer = a]} /\ UNCHANGED <<script, got, live, buf>>
  BY <1>1 DEF ListsAnswered, host, cards
<1>4. "answer" \in DOMAIN r
  BY DEF CardsReady, CardsInv
<1>5. PICK new : new = [r EXCEPT !.answer = a]
  OBVIOUS
<1>6. "answer" \in DOMAIN new /\ new.answer = a
  BY <1>4, <1>5
<1>7. \A x \in lists' : x \in lists \/ x = new
  BY <1>3, <1>5
<1>8. \A x \in lists' : "answer" \in DOMAIN x /\ (x.answer # << >> => IsAnswer(x.answer))
  BY <1>2, <1>6, <1>7 DEF CardsReady, CardsInv
<1>9. Source' = Source
  BY <1>3 DEF Source
<1>10. \A h : Calmer(Source', Source, h)
  BY <1>9, SameMap
<1>11. \A h \in Handles : TurnOver(h)' => TurnOver(h)
  BY <1>3, TurnStays
<1>12. Lists(live') /\ (buf' # NoBuf => Lists(buf'))
  BY <1>3 DEF CardsReady, CardsInv
<1>13. QED
  BY <1>8, <1>10, <1>11, <1>12, CardsKept DEF CardsReady

LEMMA CardsOfLists ==
    ASSUME CardsReady, NEW r \in lists, ListsApplied(r)
    PROVE  CardsInv'
<1>1. PICK key : key = r.session
  OBVIOUS
<1>2. PICK list : list = Fold(live[key], Reconcile(live[key], r.answer), r.handle)
  OBVIOUS
<1>3. Put(live', live, key, list) /\ UNCHANGED <<script, got, buf>> /\ lists' = lists \ {r} /\ r.answer # << >>
  BY <1>1, <1>2 DEF ListsApplied, Put, host
<1>4. Lists(live) /\ IsAnswer(r.answer)
  BY <1>3 DEF CardsReady, CardsInv
<1>5. key \in Keys => Good(list) /\ \A h : Quiet(live[key], h) => Quiet(list, h)
  BY <1>2, <1>4, AppliedKeep DEF CardsReady, Lists
<1>6. Lists(live') /\ \A h : Calmer(live', live, h)
  BY <1>3, <1>4, <1>5, PutKeeps
<1>7. (buf' # NoBuf => Lists(buf')) /\ \A h : Calmer(Source', Source, h)
  BY <1>3, <1>6, LiveWritten DEF CardsReady
<1>8. \A h \in Handles : TurnOver(h)' => TurnOver(h)
  BY <1>3, TurnStays
<1>9. \A x \in lists' : "answer" \in DOMAIN x /\ (x.answer # << >> => IsAnswer(x.answer))
  BY <1>3 DEF CardsReady, CardsInv
<1>10. QED
  BY <1>6, <1>7, <1>8, <1>9, CardsKept DEF CardsReady

LEMMA CardsOfLocal ==
    ASSUME CardsReady, NEW answer \in {"event", "plan"}, AppendLocalLive(answer)
    PROVE  CardsInv'
<1>1. PICK a : a = LocalCard(1, "user")
  OBVIOUS
<1>2. PICK b : b = LocalCard(2, answer)
  OBVIOUS
<1>3. PICK key : key = selected
  OBVIOUS
<1>4. PICK list : list = live[key] \o <<a, b>>
  OBVIOUS
<1>5. Put(live', live, key, list) /\ UNCHANGED <<script, got, buf, lists>>
  BY <1>1, <1>2, <1>3, <1>4 DEF AppendLocalLive, Put, host, agents
<1>6. /\ IsCard(a) /\ Still(a) /\ a.kind \notin IdentityKinds
      /\ IsCard(b) /\ Still(b) /\ b.kind \notin IdentityKinds
  BY <1>1, <1>2 DEF CardsReady, LocalCard, BlankCard, IsCard, Still, IdentityKinds
<1>7. Lists(live)
  BY DEF CardsReady, CardsInv
<1>8. key \in Keys => Good(list) /\ \A h : Quiet(live[key], h) => Quiet(list, h)
  BY <1>4, <1>6, <1>7, LocalKeep DEF Lists
<1>9. Lists(live') /\ \A h : Calmer(live', live, h)
  BY <1>5, <1>7, <1>8, PutKeeps
<1>10. QED
  BY <1>5, <1>9, WrittenInPlace DEF CardsReady

\* The answer to a cancel or a kill.
LEMMA CardsOfPatch ==
    ASSUME CardsReady, UNCHANGED <<script, got, buf, lists>>, NEW hs, NEW kind, NEW ids, NEW decision,
           live' = [k \in Keys |-> MapLifecycleCards(live[k], hs, kind, ids, decision)]
    PROVE  CardsInv'
<1>1. Lists(live)
  BY DEF CardsReady, CardsInv
<1>2. \A k \in Keys : live'[k] = MapLifecycleCards(live[k], hs, kind, ids, decision)
  OBVIOUS
<1>3. \A k \in Keys : Good(live[k])
  BY <1>1 DEF Lists
<1>4. \A k \in Keys : Good(live'[k]) /\ \A h : Quiet(live[k], h) => Quiet(live'[k], h)
  BY <1>2, <1>3, PatchedKeep
<1>5. Wrote(live', live)
  BY <1>4 DEF Wrote
<1>6. QED
  BY <1>5, WroteKeeps, WrittenInPlace DEF CardsReady

LEMMA CardsOfKill ==
    ASSUME CardsReady, NEW o, CancelAnswered(o) \/ KillAnswered(o)
    PROVE  CardsInv'
<1>1. UNCHANGED <<script, got, buf, lists>>
  BY DEF CancelAnswered, KillAnswered, host, agents
<1>2. CASE CancelAnswered(o)
  <2>1. PICK c : live' = [k \in Keys |-> ApplyCancel(live[k], c[2], c[3], o)]
    BY <1>2 DEF CancelAnswered
  <2>2. PICK decision : decision = ParseCancel(o)
    OBVIOUS
  <2>3. live' = [k \in Keys |-> MapLifecycleCards(live[k], {c[2]}, "subagent", {c[3]}, decision)]
    BY <2>1, <2>2 DEF ApplyCancel
  <2>4. QED
    BY <1>1, <2>3, CardsOfPatch
<1>3. CASE KillAnswered(o)
  <2>1. PICK c : live' = [k \in Keys |-> ApplyKill(live[k], c[2], c[3], o)]
    BY <1>3 DEF KillAnswered
  <2>2. PICK decision : decision = ParseKill(o)
    OBVIOUS
  <2>3. live' = [k \in Keys |-> MapLifecycleCards(live[k], {c[2]}, "task", {c[3]}, decision)]
    BY <2>1, <2>2 DEF ApplyKill
  <2>4. QED
    BY <1>1, <2>3, CardsOfPatch
<1>4. QED
  BY <1>2, <1>3

-----------------------------------------------------------------------------
(* The invariant, and what it gives.                                       *)

LEMMA CardsStep == CardsInv /\ HistoryInv /\ AskedInv /\ HistoryInv' /\ [Next]_vars => CardsInv'
<1> SUFFICES ASSUME CardsInv, HistoryInv, AskedInv, HistoryInv', [Next]_vars PROVE CardsInv'
  OBVIOUS
<1>1. CardsReady
  BY DEF CardsReady, HistoryInv, AskedInv, Keys
<1>2. CASE UNCHANGED <<script, got, cards, agents>>
  BY <1>2, TurnStays, CardsRest DEF cards, agents
<1>3. CASE HostEmits \/ DetailAsked \/ LoadOlder
  BY <1>2, <1>3 DEF HostEmits, DetailAsked, LoadOlder, host
<1>4. CASE StatusArrives
  BY <1>1, <1>4, CardsOfStatus
<1>5. CASE UpdateArrives
  BY <1>1, <1>5, CardsOfUpdate
<1>6. CASE NotificationArrives
  BY <1>1, <1>6, CardsOfNotification
<1>7. CASE ShellArrives
  BY <1>1, <1>7, CardsOfShell
<1>8. CASE PromptCompleteArrives
  BY <1>1, <1>8, CardsOfTurnEnd
<1>9. CASE PermissionArrives \/ PermissionResolvedArrives
  BY <1>1, <1>9, CardsOfPermission
<1>10. CASE FlushLive
  BY <1>1, <1>10, CardsOfFrame
<1>11. CASE \E answer \in {"event", "plan"} : AppendLocalLive(answer)
  BY <1>1, <1>11, CardsOfLocal
<1>12. CASE \E h \in Attached : RemoveManaged(h)
  BY <1>1, <1>12, CardsOfRemoval
<1>13. CASE \E r \in lists : ListsApplied(r) \/ \E f, g \in BOOLEAN : ListsAnswered(r, f, g)
  BY <1>1, <1>13, CardsOfLists, CardsOfAnswer
<1>14. CASE \/ \E o \in {"cancelled", "already_finished", "not_found"} : CancelAnswered(o)
            \/ \E o \in {"killed", "already_exited", "not_found"} : KillAnswered(o)
  BY <1>1, <1>14, CardsOfKill
<1>15. CASE DetailAnswered
  BY <1>1, <1>15, CardsOfDetail
<1>16. CASE \E s \in Sessions : SelectSession(s)
  BY <1>1, <1>16, CardsOfSelect
<1>17. CASE \E eager \in BOOLEAN : OlderAnswered(eager)
  BY <1>1, <1>17, CardsOfOlder
<1>18. CASE UNCHANGED vars
  BY <1>2, <1>18 DEF vars, host
<1>19. QED
  BY <1>3, <1>4, <1>5, <1>6, <1>7, <1>8, <1>9, <1>10, <1>11, <1>12, <1>13, <1>14, <1>15, <1>16, <1>17, <1>18 DEF Next

LEMMA CardsAreOne == CardsInv => OneCardPerIdentity
<1> SUFFICES ASSUME CardsInv PROVE OneCardPerIdentity
  OBVIOUS
<1>1. \A map \in {live, Source} : \A k \in Keys : Good(map[k])
  BY ShownLists DEF CardsInv, Lists
<1>2. ASSUME NEW list, Good(list), NEW i \in DOMAIN list, NEW j \in DOMAIN list, i < j,
             list[i].kind \in IdentityKinds, list[i].id # ""
      PROVE  <<list[i].kind, list[i].id>> # <<list[j].kind, list[j].id>>
  <2>1. DOMAIN list = 1..Len(list) /\ Len(list) \in Nat
    BY <1>2, CardSeq DEF Good, IsCards
  <2>2. i \in 1..Len(list) /\ j \in 1..Len(list) /\ i # j
    <3>1. i < j
      BY <1>2
    <3>2. i \in 1..Len(list) /\ j \in 1..Len(list)
      BY <2>1
    <3>3. QED
      BY <2>1, <3>1, <3>2
  <2>3. ~SameIdentity(list[i], list[j])
    BY <1>2, <2>2 DEF Good, OneEach
  <2>4. list[i].kind # list[j].kind \/ list[i].id # list[j].id
    BY <1>2, <2>3 DEF SameIdentity
  <2>5. QED
    BY <2>4
<1>3. SUFFICES ASSUME NEW map \in {live, Source}, NEW k \in Keys
               PROVE  \A i, j \in DOMAIN map[k] :
                          /\ i < j
                          /\ map[k][i].kind \in IdentityKinds
                          /\ map[k][i].id # ""
                          => <<map[k][i].kind, map[k][i].id>> # <<map[k][j].kind, map[k][j].id>>
  BY DEF OneCardPerIdentity
<1>4. PICK list : list = map[k]
  OBVIOUS
<1>5. Good(list)
  BY <1>1, <1>4
<1>6. \A i, j \in DOMAIN list :
          i < j /\ list[i].kind \in IdentityKinds /\ list[i].id # ""
          => <<list[i].kind, list[i].id>> # <<list[j].kind, list[j].id>>
  BY <1>2, <1>5
<1>7. QED
  BY <1>4, <1>6

LEMMA CardsAreQuiet == CardsInv /\ got \in Nat => QuietNotStreaming
<1> SUFFICES ASSUME CardsInv, got \in Nat, NEW h \in Handles, buf = NoBuf, LastOf(h) # 0,
                    script[Max({1, LastOf(h)})].ch = "done", NEW k \in Keys, NEW i \in DOMAIN live[k], live[k][i].own = h
             PROVE  ~live[k][i].streaming
  BY DEF QuietNotStreaming
<1>1. LastOf(h) \in 1..got
  <2> DEFINE at == {p \in 1..got : script[p].handle = h}
  <2>1. LastOf(h) = IF at = {} THEN 0 ELSE Max(at)
    BY DEF LastOf
  <2>2. at \in SUBSET (1..got)
    OBVIOUS
  <2> HIDE DEF at
  <2>3. at # {}
    BY <2>1
  <2>4. Max(at) \in at
    BY <2>2, <2>3, LastPlace
  <2>5. QED
    BY <2>1, <2>2, <2>3, <2>4
<1>2. Max({1, LastOf(h)}) = LastOf(h)
  <2>1. PICK n : n = LastOf(h)
    OBVIOUS
  <2> DEFINE S == {1, n}
  <2>2. n \in 1..got /\ S \in SUBSET (1..got) /\ S # {} /\ 1 \in S /\ n \in S
    BY <1>1, <2>1
  <2>3. Max(S) \in S /\ \A x \in S : x <= Max(S)
    <3> HIDE DEF S
    <3>1. QED
      BY <2>2, LastPlace
  <2>4. Max(S) = n
    BY <2>2, <2>3
  <2>5. QED
    BY <2>1, <2>4
<1>3. TurnOver(h)
  BY <1>2 DEF TurnOver
<1>4. Quiet(live[k], h)
  BY <1>3 DEF CardsInv, Source
<1>5. DOMAIN live[k] = 1..Len(live[k])
  BY CardSeq DEF CardsInv, Lists, Good
<1>6. Still(live[k][i])
  BY <1>4, <1>5 DEF Quiet
<1>7. QED
  BY <1>6 DEF Still

\* However the stream, the shell channel, the notifications, the lists of the agent and the log on
\* disk interleave, a tool call, a command, a subagent or a task is one card of its list.
THEOREM CardsStayOne == Spec => []OneCardPerIdentity
<1>1. Init => CardsInv /\ HistoryInv /\ AskedInv
  BY CardsInit, HistoryInit, AskedInit
<1>2. CardsInv /\ HistoryInv /\ AskedInv /\ [Next]_vars => (CardsInv /\ HistoryInv /\ AskedInv)'
  BY CardsStep, HistoryStep, AskedStep
<1>3. QED
  BY <1>1, <1>2, CardsAreOne, PTL DEF Spec

\* When the last event of a handle ended its turn and the frame is drawn, none of its cards goes on
\* streaming, in whatever list: what arrives later, from any source, starts none again.
THEOREM EndedTurnsAreQuiet == Spec => []QuietNotStreaming
<1>1. Init => CardsInv /\ HistoryInv /\ AskedInv
  BY CardsInit, HistoryInit, AskedInit
<1>2. CardsInv /\ HistoryInv /\ AskedInv /\ [Next]_vars => (CardsInv /\ HistoryInv /\ AskedInv)'
  BY CardsStep, HistoryStep, AskedStep
<1>3. CardsInv /\ HistoryInv /\ AskedInv => QuietNotStreaming
  BY CardsAreQuiet DEF AskedInv
<1>4. QED
  BY <1>1, <1>2, <1>3, PTL DEF Spec
=============================================================================
