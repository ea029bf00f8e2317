-------------------------- MODULE FileUploadsProofs -------------------------
(***************************************************************************)
(* Proofs about FileUploads, for any connections, paths, capacity, sizes   *)
(* and number of uploads.                                                  *)
(***************************************************************************)
EXTENDS FileUploads, FiniteSetTheorems, WellFoundedInduction, TLAPS

-----------------------------------------------------------------------------
(* What Only returns, by its recursion on the length: a counterexample     *)
(* would have a least one.                                                 *)

LEMMA Least ==
  ASSUME NEW T, T \subseteq Nat, T # {}
  PROVE  \E n \in T : \A m \in T : n <= m
<1> DEFINE R == OpToRel(<, Nat)
<1>1. IsWellFoundedOn(R, Nat) BY NatLessThanWellFounded, Zenon
<1>2. \A m, n \in Nat : m < n => <<m, n>> \in R
  <2>1. R = {ss \in Nat \X Nat : ss[1] < ss[2]} BY Zenon DEF OpToRel
  <2> HIDE DEF R
  <2> QED BY <2>1
<1> HIDE DEF R
<1>3. PICK n \in T : \A m \in T : ~ (<<m, n>> \in R) BY <1>1, WFMin, Zenon
<1>4. \A m \in T : ~(m < n) BY <1>2, <1>3
<1> QED BY <1>4

\* f is the recursion of Only up to n.
IsOnly(f, s, S, n) ==
  f = [i \in 0..n |-> IF i = 0 THEN <<>>
                      ELSE IF s[i] \in S THEN Append(f[i - 1], s[i]) ELSE f[i - 1]]

LEMMA OnlyExists ==
  ASSUME NEW P, NEW s \in Seq(P), NEW S
  PROVE  \A n \in 0..Len(s) : \E f : IsOnly(f, s, S, n)
<1> DEFINE T == {n \in 0..Len(s) : ~ \E f : IsOnly(f, s, S, n)}
<1> SUFFICES ASSUME T # {} PROVE FALSE OBVIOUS
<1>1. T \subseteq Nat OBVIOUS
<1>2. PICK n \in T : \A m \in T : n <= m
  <2> HIDE DEF T
  <2> QED BY <1>1, Least, Zenon
<1>3. CASE n = 0
  <2> DEFINE g == [i \in 0..0 |-> <<>>]
  <2>1. IsOnly(g, s, S, 0) BY DEF IsOnly
  <2> QED BY <1>3, <2>1
<1>4. CASE n # 0
  <2>1. n \in 0..Len(s) /\ n - 1 \in 0..Len(s) /\ n - 1 \notin T BY <1>2, <1>4
  <2>2. PICK f : IsOnly(f, s, S, n - 1) BY <2>1
  <2> DEFINE g == [i \in 0..n |-> IF i < n THEN f[i]
                                  ELSE IF s[n] \in S THEN Append(f[n - 1], s[n]) ELSE f[n - 1]]
  <2>3. \A i \in 0..n - 1 :
          f[i] = IF i = 0 THEN <<>>
                 ELSE IF s[i] \in S THEN Append(f[i - 1], s[i]) ELSE f[i - 1]
    BY <2>2 DEF IsOnly
  <2>4. \A i \in 0..n :
          g[i] = IF i = 0 THEN <<>>
                 ELSE IF s[i] \in S THEN Append(g[i - 1], s[i]) ELSE g[i - 1]
    BY <1>4, <2>1, <2>3
  <2>5. g = [i \in 0..n |-> g[i]] OBVIOUS
  <2>6. IsOnly(g, s, S, n)
    <3> HIDE DEF g
    <3> QED BY <2>4, <2>5 DEF IsOnly
  <2> QED BY <1>2, <2>1, <2>6
<1> QED BY <1>3, <1>4

\* An element at the end of a sequence.
LEMMA AppendFacts ==
  ASSUME NEW P, NEW s \in Seq(P), NEW p \in P
  PROVE  /\ Append(s, p) \in Seq(P) /\ Range(Append(s, p)) = Range(s) \cup {p}
         /\ Append(s, p) # <<>>
         /\ (IsInjective(s) /\ p \notin Range(s)) => IsInjective(Append(s, p))
<1> DEFINE t == Append(s, p)
<1>1. /\ t \in Seq(P) /\ Len(t) = Len(s) + 1 /\ DOMAIN t = 1..Len(s) + 1 /\ DOMAIN s = 1..Len(s)
      /\ Len(s) \in Nat /\ t # <<>> /\ t[Len(s) + 1] = p /\ \A i \in 1..Len(s) : t[i] = s[i]
  OBVIOUS
<1> HIDE DEF t
<1>2. Range(t) = Range(s) \cup {p} BY <1>1 DEF Range
<1>3. ASSUME IsInjective(s), p \notin Range(s) PROVE IsInjective(t)
  <2> SUFFICES ASSUME NEW a \in DOMAIN t, NEW b \in DOMAIN t, t[a] = t[b] PROVE a = b
    BY DEF IsInjective
  <2>1. \A i \in 1..Len(s) : t[i] # p BY <1>1, <1>3 DEF Range
  <2> QED BY <1>1, <1>3, <2>1 DEF IsInjective
<1> QED BY <1>1, <1>2, <1>3 DEF t

LEMMA TailHeadFacts ==
  ASSUME NEW P, NEW s \in Seq(P), s # <<>>
  PROVE  /\ Tail(s) \in Seq(P) /\ Head(s) \in Range(s) /\ Head(s) \in P
         /\ Range(s) = Range(Tail(s)) \cup {Head(s)}
         /\ IsInjective(s) => (IsInjective(Tail(s)) /\ Range(Tail(s)) = Range(s) \ {Head(s)})
<1> DEFINE t == Tail(s)
           n == Len(s)
<1>1. /\ t \in Seq(P) /\ n \in Nat /\ n > 0 /\ DOMAIN t = 1..n - 1 /\ DOMAIN s = 1..n
      /\ Head(s) = s[1] /\ \A i \in 1..n - 1 : t[i] = s[i + 1]
  OBVIOUS
<1> HIDE DEF t, n
<1>2. s[1] \in P /\ s[1] \in Range(s) BY <1>1 DEF Range, n
<1>3. Range(s) = Range(t) \cup {s[1]}
  <2>1. \A i \in 1..n : i = 1 \/ (i - 1 \in 1..n - 1 /\ t[i - 1] = s[i]) BY <1>1
  <2>2. \A i \in 1..n - 1 : i + 1 \in 1..n BY <1>1
  <2>3. \A i \in 1..n : s[i] \in Range(t) \cup {s[1]} BY <1>1, <2>1 DEF Range
  <2>4. \A i \in 1..n - 1 : t[i] \in Range(s) BY <1>1, <2>2 DEF Range
  <2>5. Range(s) = {s[i] : i \in 1..n} /\ Range(t) = {t[i] : i \in 1..n - 1} BY <1>1 DEF Range
  <2> QED BY <1>2, <2>3, <2>4, <2>5
<1>4. ASSUME IsInjective(s) PROVE IsInjective(t) /\ s[1] \notin Range(t)
  <2>1. \A i \in 1..n - 1 : i + 1 \in 1..n /\ i + 1 # 1 /\ 1 \in 1..n BY <1>1
  <2>2. s[1] \notin Range(t) BY <1>1, <1>4, <2>1 DEF IsInjective, Range
  <2>3. ASSUME NEW a \in 1..n - 1, NEW b \in 1..n - 1, t[a] = t[b] PROVE a = b
    <3>1. s[a + 1] = s[b + 1] /\ a + 1 \in DOMAIN s /\ b + 1 \in DOMAIN s BY <1>1, <2>1, <2>3
    <3>2. a + 1 = b + 1 BY <1>4, <3>1 DEF IsInjective
    <3> QED BY <3>2
  <2> QED BY <1>1, <2>2, <2>3 DEF IsInjective
<1> QED BY <1>1, <1>2, <1>3, <1>4 DEF t

\* What Only has found in the first n elements of s.
Found(f, s, S, P, n) ==
  /\ f[n] \in Seq(P) /\ Range(f[n]) = {s[k] : k \in 1..n} \cap S
  /\ IsInjective(s) => IsInjective(f[n])

\* Only keeps the elements that are in S, each as often as it was there.
LEMMA OnlyFacts ==
  ASSUME NEW P, NEW s \in Seq(P), NEW S
  PROVE  /\ Only(s, S) \in Seq(P) /\ Range(Only(s, S)) = Range(s) \cap S
         /\ IsInjective(s) => IsInjective(Only(s, S))
<1> DEFINE N == Len(s)
           f == CHOOSE g : IsOnly(g, s, S, N)
           T == {n \in 0..N : ~Found(f, s, S, P, n)}
<1>0. N \in Nat /\ DOMAIN s = 1..N OBVIOUS
<1>1. Only(s, S) = f[N] BY DEF Only, IsOnly
<1>2. IsOnly(f, s, S, N)
  <2>1. \A n \in 0..Len(s) : \E g : IsOnly(g, s, S, n) BY OnlyExists, Zenon
  <2>2. \E g : IsOnly(g, s, S, N) BY <1>0, <2>1
  <2> QED BY <2>2
<1> HIDE DEF f
<1>3. \A i \in 0..N : f[i] = IF i = 0 THEN <<>>
                             ELSE IF s[i] \in S THEN Append(f[i - 1], s[i]) ELSE f[i - 1]
  BY <1>2 DEF IsOnly
<1>4. T = {}
  <2> SUFFICES ASSUME T # {} PROVE FALSE OBVIOUS
  <2>1. T \subseteq Nat BY <1>0
  <2>2. PICK n \in T : \A m \in T : n <= m
    <3> HIDE DEF T
    <3> QED BY <2>1, Least, Zenon
  <2>3. n \in 0..N /\ ~Found(f, s, S, P, n) BY <2>2
  <2>4. CASE n = 0
    <3>1. f[0] = <<>> BY <1>0, <1>3
    <3>2. <<>> \in Seq(P) /\ Range(<<>>) = {} /\ IsInjective(<<>>) BY DEF Range, IsInjective
    <3>3. {s[k] : k \in 1..0} = {} OBVIOUS
    <3> QED BY <2>3, <2>4, <3>1, <3>2, <3>3 DEF Found
  <2>5. CASE n # 0
    <3>1. n - 1 \in 0..N /\ Found(f, s, S, P, n - 1)
      <4>1. n - 1 \in 0..N /\ n - 1 \notin T BY <1>0, <2>2, <2>3, <2>5
      <4> QED BY <4>1
    <3>2. s[n] \in P /\ n \in 1..N BY <1>0, <2>3, <2>5
    <3> DEFINE Until(m) == {s[k] : k \in 1..m}
    <3>3. Until(n) = Until(n - 1) \cup {s[n]}
      <4>1. 1..n = 1..n - 1 \cup {n} BY <3>2, <1>0
      <4> QED BY <4>1
    <3>4. IsInjective(s) => s[n] \notin Until(n - 1)
      <4>1. \A k \in 1..n - 1 : k \in DOMAIN s /\ n \in DOMAIN s /\ k # n BY <1>0, <3>2
      <4> QED BY <4>1 DEF IsInjective
    <3>5. /\ f[n - 1] \in Seq(P) /\ Range(f[n - 1]) = Until(n - 1) \cap S
          /\ IsInjective(s) => IsInjective(f[n - 1])
      BY <3>1 DEF Found
    <3>6. Found(f, s, S, P, n) <=>
            /\ f[n] \in Seq(P) /\ Range(f[n]) = Until(n) \cap S
            /\ IsInjective(s) => IsInjective(f[n])
      BY DEF Found
    <3> HIDE DEF Until
    <3>7. CASE s[n] \in S
      <4>1. f[n] = Append(f[n - 1], s[n]) BY <1>3, <2>3, <2>5, <3>7
      <4>2. /\ f[n] \in Seq(P) /\ Range(f[n]) = Range(f[n - 1]) \cup {s[n]}
            /\ (IsInjective(f[n - 1]) /\ s[n] \notin Range(f[n - 1])) => IsInjective(f[n])
        BY <3>2, <3>5, <4>1, AppendFacts
      <4> QED BY <2>3, <3>3, <3>4, <3>5, <3>6, <3>7, <4>2
    <3>8. CASE s[n] \notin S
      <4>1. f[n] = f[n - 1] BY <1>3, <2>3, <2>5, <3>8
      <4> QED BY <2>3, <3>3, <3>5, <3>6, <3>8, <4>1
    <3> QED BY <3>7, <3>8
  <2> QED BY <2>4, <2>5
<1>5. Found(f, s, S, P, N)
  <2>1. N \in 0..N BY <1>0
  <2> QED BY <1>4, <2>1
<1>6. Range(s) = {s[k] : k \in 1..N} BY <1>0 DEF Range
<1> QED BY <1>1, <1>5, <1>6 DEF Found

-----------------------------------------------------------------------------
(* The invariant that holds whatever the clients do.                       *)

\* Where the handlers stand from the creation of a file to the answer.
Serving == {"add", "readd", "lock", "write", "finish", "ack", "remove"}

\* An upload is at a path of its client and never has too much.
UploadInv ==
  \A i \in DOMAIN uploads :
    uploads[i].path \in Home[uploads[i].conn] /\ uploads[i].BytesReceived <= uploads[i].FileSize

\* The table leads from a path to an upload at this path.
TableInv ==
  /\ IsFiniteSet(DOMAIN pending)
  /\ \A p \in DOMAIN pending : uploads[pending[p]].path = p

\* What a handler remembers: a path of its client, an upload of its client at
\* this path; to write, it holds the mutex and the blocks fit.
Remembers(c) ==
  /\ h[c].pc \in {"peek", "stat", "create"} => h[c].path \in Home[c] /\ h[c].size \in Size
  /\ h[c].pc \in Serving =>
       /\ h[c].id \in DOMAIN uploads
       /\ uploads[h[c].id].conn = c /\ uploads[h[c].id].path = h[c].path
  /\ h[c].pc = "write" =>
       /\ h[c].id \in held /\ uploads[h[c].id].open
       /\ uploads[h[c].id].BytesReceived + h[c].size <= uploads[h[c].id].FileSize
  /\ h[c].pc = "add" => h[c].size = uploads[h[c].id].FileSize
  /\ h[c].pc = "clearRemove" => h[c].keys # <<>> /\ Head(h[c].keys) \in Home[c]

BasicInv == TypeOK /\ UploadInv /\ TableInv /\ \A c \in Conn : Remembers(c)

\* Uploads are only added, and keep what they were created with.
Grows ==
  /\ DOMAIN uploads \subseteq DOMAIN uploads' /\ Len(uploads) <= Len(uploads')
  /\ \A i \in DOMAIN uploads :
       /\ uploads'[i].conn = uploads[i].conn /\ uploads'[i].path = uploads[i].path
       /\ uploads'[i].FileSize = uploads[i].FileSize /\ uploads'[i].inode = uploads[i].inode

\* An upload whose mutex is held is left alone.
KeepsHeld(i) == i \in held => (i \in held' /\ uploads'[i] = uploads[i])

LEMMA UploadFacts ==
  ASSUME TypeOK
  PROVE  /\ Len(uploads) \in 0..MaxUploads /\ DOMAIN uploads = 1..Len(uploads)
         /\ \A i \in DOMAIN uploads : uploads[i] \in Upload /\ i \in Ids
         /\ \A i \in DOMAIN uploads :
              /\ uploads[i].conn \in Conn /\ uploads[i].path \in Path
              /\ uploads[i].FileSize \in 0..MaxBlocks /\ uploads[i].BytesReceived \in 0..MaxBlocks
              /\ uploads[i].open \in BOOLEAN /\ uploads[i].inode \in Ids
<1>1. uploads \in Seq(Upload) /\ Len(uploads) <= MaxUploads BY DEF TypeOK, UploadsTyped
<1>2. Len(uploads) \in 0..MaxUploads /\ DOMAIN uploads = 1..Len(uploads)
  BY <1>1, FileUploadsAssumption
<1>3. \A i \in DOMAIN uploads : uploads[i] \in Upload /\ i \in Ids
  BY <1>1, <1>2, FileUploadsAssumption DEF Ids
<1>4. Size \subseteq 0..MaxBlocks BY FileUploadsAssumption
<1> QED BY <1>2, <1>3, <1>4 DEF Upload

LEMMA RemembersSame ==
  ASSUME NEW c \in Conn, Remembers(c), h'[c] = h[c], Grows, KeepsHeld(h[c].id)
  PROVE  Remembers(c)'
BY DEF Remembers, Grows, KeepsHeld, Serving

LEMMA SameUploads == ASSUME UNCHANGED uploads, TypeOK PROVE Grows
<1>1. Len(uploads) <= Len(uploads) BY UploadFacts
<1> QED BY <1>1 DEF Grows

LEMMA TableSame ==
  ASSUME BasicInv, UNCHANGED tableVars, Grows
  PROVE  TableTyped' /\ TableInv'
<1>1. DOMAIN uploads \subseteq DOMAIN uploads' BY DEF Grows
<1>2. TableTyped' BY <1>1 DEF BasicInv, TypeOK, TableTyped, tableVars
<1>3. \A p \in DOMAIN pending : pending[p] \in DOMAIN uploads BY DEF BasicInv, TypeOK, TableTyped
<1>4. TableInv' BY <1>3 DEF BasicInv, TableInv, tableVars, Grows
<1> QED BY <1>2, <1>4

\* A step of the handler of c.
LEMMA StepBasic ==
  ASSUME BasicInv, NEW c \in Conn, Grows,
         h' \in [Conn -> Handler], \A d \in Conn \ {c} : h'[d] = h[d],
         h'[c].id <= Len(uploads'), Remembers(c)',
         \A i \in DOMAIN uploads : uploads[i].conn # c => KeepsHeld(i),
         UploadsTyped', UploadInv', TableTyped', TableInv', FilesTyped',
         phase' \in {"up", "stopping", "exited"}, registered' \subseteq Conn
  PROVE  BasicInv'
<1>1. ASSUME NEW d \in Conn \ {c} PROVE Remembers(d)' /\ h'[d].id <= Len(uploads')
  <2>1. KeepsHeld(h[d].id) \/ h[d].pc # "write" BY DEF BasicInv, Remembers, Serving
  <2>2. Remembers(d)'
    <3>1. Remembers(d) BY DEF BasicInv
    <3> QED BY <2>1, <3>1 DEF Remembers, Grows, KeepsHeld, Serving
  <2>3. h[d].id <= Len(uploads) /\ h[d].id \in Nat
    <3>1. h[d] \in Handler /\ h[d].id <= Len(uploads) BY DEF BasicInv, TypeOK, HandlersTyped
    <3> QED BY <3>1 DEF Handler
  <2>4. Len(uploads) \in Nat /\ Len(uploads') \in Nat /\ Len(uploads) <= Len(uploads')
    BY UploadFacts DEF Grows, BasicInv, UploadsTyped
  <2> QED BY <2>2, <2>3, <2>4
<1>2. HandlersTyped' BY <1>1 DEF HandlersTyped
<1> QED BY <1>1, <1>2 DEF BasicInv, TypeOK

\* A step that no handler takes.
LEMMA OtherBasic ==
  ASSUME BasicInv, Grows, UNCHANGED h, \A i \in DOMAIN uploads : KeepsHeld(i),
         UploadsTyped', UploadInv', TableTyped', TableInv', FilesTyped',
         phase' \in {"up", "stopping", "exited"}, registered' \subseteq Conn
  PROVE  BasicInv'
<1>1. ASSUME NEW d \in Conn PROVE Remembers(d)' /\ h'[d].id <= Len(uploads')
  <2>1. KeepsHeld(h[d].id) \/ h[d].pc # "write" BY DEF BasicInv, Remembers, Serving
  <2>2. Remembers(d)'
    <3>1. Remembers(d) BY DEF BasicInv
    <3> QED BY <2>1, <3>1 DEF Remembers, Grows, KeepsHeld, Serving
  <2>3. h[d].id <= Len(uploads) /\ h[d].id \in Nat
    <3>1. h[d] \in Handler /\ h[d].id <= Len(uploads) BY DEF BasicInv, TypeOK, HandlersTyped
    <3> QED BY <3>1 DEF Handler
  <2>4. Len(uploads) \in Nat /\ Len(uploads') \in Nat /\ Len(uploads) <= Len(uploads')
    BY UploadFacts DEF Grows, BasicInv, UploadsTyped
  <2> QED BY <2>2, <2>3, <2>4
<1>2. HandlersTyped' BY <1>1 DEF HandlersTyped, BasicInv, TypeOK
<1> QED BY <1>1, <1>2 DEF BasicInv, TypeOK

\* A step that leaves the uploads, the mutexes and the files alone.
LEMMA QuietBasic ==
  ASSUME BasicInv, NEW c \in Conn, UNCHANGED <<uploads, held, fileVars>>,
         h' \in [Conn -> Handler], \A d \in Conn \ {c} : h'[d] = h[d],
         h'[c].id <= Len(uploads'), Remembers(c)', TableTyped', TableInv',
         phase' \in {"up", "stopping", "exited"}, registered' \subseteq Conn
  PROVE  BasicInv'
<1>1. Grows /\ \A i \in DOMAIN uploads : KeepsHeld(i) BY SameUploads DEF KeepsHeld, BasicInv
<1>2. UploadsTyped' BY DEF BasicInv, TypeOK, UploadsTyped
<1>3. UploadInv' BY DEF BasicInv, UploadInv
<1>4. FilesTyped' BY DEF BasicInv, TypeOK, FilesTyped, fileVars
<1> QED BY <1>1, <1>2, <1>3, <1>4, StepBasic

LEMMA GotoFacts ==
  ASSUME h \in [Conn -> Handler], NEW c \in Conn, NEW pc, Goto(c, pc),
         pc \in {"none", "read", "peek", "stat", "create", "add", "readd", "lock", "write",
                 "finish", "ack", "remove", "clear", "clearRemove", "closed"}
  PROVE  /\ h' \in [Conn -> Handler] /\ \A d \in Conn \ {c} : h'[d] = h[d]
         /\ h'[c].pc = pc /\ h'[c].path = h[c].path /\ h'[c].id = h[c].id
         /\ h'[c].size = h[c].size /\ h'[c].keys = h[c].keys
BY DEF Goto, Handler

LEMMA AnswerFacts ==
  ASSUME h \in [Conn -> Handler], NEW c \in Conn, Answer(c)
  PROVE  /\ h' \in [Conn -> Handler] /\ \A d \in Conn \ {c} : h'[d] = h[d]
         /\ h'[c].pc = "read" /\ h'[c].id = 0 /\ h'[c].keys = <<>> /\ Remembers(c)'
<1>1. Idle \in Handler
  <2>1. 0 \in 0..MaxUploads /\ 0 \in 0..MaxBlocks /\ <<>> \in Seq(Path) BY FileUploadsAssumption
  <2> QED BY <2>1 DEF Idle, Handler
<1>2. h' = [h EXCEPT ![c] = Idle] BY DEF Answer
<1>3. h'[c] = Idle BY <1>2
<1> QED BY <1>1, <1>2, <1>3 DEF Idle, Remembers, Serving

-----------------------------------------------------------------------------
(* The table.                                                              *)

LEMMA UnlinkedFacts ==
  ASSUME TableTyped, NEW p
  PROVE  /\ Unlinked(p) \in Seq(Path) /\ Range(Unlinked(p)) = DOMAIN pending \ {p}
         /\ IsInjective(Unlinked(p))
<1>1. order \in Seq(Path) /\ Range(order) = DOMAIN pending /\ IsInjective(order) BY DEF TableTyped
<1>2. /\ Only(order, DOMAIN pending \ {p}) \in Seq(Path)
      /\ Range(Only(order, DOMAIN pending \ {p})) = Range(order) \cap (DOMAIN pending \ {p})
      /\ IsInjective(Only(order, DOMAIN pending \ {p}))
  BY <1>1, OnlyFacts
<1> QED BY <1>1, <1>2 DEF Unlinked

LEMMA TouchedFacts ==
  ASSUME TableTyped, NEW p \in Path
  PROVE  /\ Touched(p) \in Seq(Path) /\ Range(Touched(p)) = DOMAIN pending \cup {p}
         /\ IsInjective(Touched(p)) /\ Touched(p) # <<>>
<1> DEFINE s == Unlinked(p)
<1>1. s \in Seq(Path) /\ Range(s) = DOMAIN pending \ {p} /\ IsInjective(s) BY UnlinkedFacts
<1> HIDE DEF s
<1>2. /\ Append(s, p) \in Seq(Path) /\ Range(Append(s, p)) = Range(s) \cup {p}
      /\ Append(s, p) # <<>> /\ IsInjective(Append(s, p))
  BY <1>1, AppendFacts
<1> QED BY <1>1, <1>2 DEF Touched, s

\* What Add does to the table: the entry is there, and when it is one too many
\* another one leaves and its upload is cleaned.
Adds(p, i, by) ==
  /\ lock = None
  /\ \A q \in DOMAIN pending' :
       \/ q = p /\ pending'[q] = i
       \/ q # p /\ q \in DOMAIN pending /\ pending'[q] = pending[q]
  /\ expired' = (expired \ {p}) \cap DOMAIN pending'
  /\ \/ DOMAIN pending' = DOMAIN pending \cup {p} /\ lock' = None
     \/ /\ Cardinality(DOMAIN pending \cup {p}) > Capacity
        /\ \E q \in DOMAIN pending \cup {p} :
             /\ DOMAIN pending' = (DOMAIN pending \cup {p}) \ {q}
             /\ lock' # None /\ lock'.by = by /\ lock'.id = IF q = p THEN i ELSE pending[q]

LEMMA AddFacts ==
  ASSUME BasicInv, UNCHANGED uploads, NEW p \in Path, NEW i \in DOMAIN uploads,
         NEW by \in Conn \cup {Sweeper}, uploads[i].path = p, AddEntry(p, i, by)
  PROVE  Adds(p, i, by) /\ TableTyped' /\ TableInv'
<1> DEFINE keys == DOMAIN pending \cup {p}
           grown == [q \in keys |-> IF q = p THEN i ELSE pending[q]]
           oldest == Head(Touched(p))
           full == Cardinality(keys) > Capacity
<1>1. /\ DOMAIN pending \subseteq Path /\ pending \in [DOMAIN pending -> DOMAIN uploads]
      /\ expired \subseteq DOMAIN pending /\ Cardinality(DOMAIN pending) <= Capacity
      /\ IsFiniteSet(DOMAIN pending) /\ TableTyped
  BY DEF BasicInv, TypeOK, TableTyped, TableInv
<1>2. /\ Touched(p) \in Seq(Path) /\ Range(Touched(p)) = keys
      /\ IsInjective(Touched(p)) /\ Touched(p) # <<>>
  BY <1>1, TouchedFacts
<1>3. DOMAIN grown = keys /\ \A q \in keys : grown[q] = IF q = p THEN i ELSE pending[q] OBVIOUS
<1>4. /\ lock = None
      /\ expired' = expired \ (IF full THEN {p, oldest} ELSE {p})
      /\ order' = IF full THEN Tail(Touched(p)) ELSE Touched(p)
      /\ pending' = IF full THEN [q \in keys \ {oldest} |-> grown[q]] ELSE grown
      /\ lock' = IF full THEN [by |-> by, id |-> grown[oldest]] ELSE lock
  BY DEF AddEntry, LockFree
<1>5. /\ oldest \in keys /\ Tail(Touched(p)) \in Seq(Path)
      /\ IsInjective(Tail(Touched(p))) /\ Range(Tail(Touched(p))) = keys \ {oldest}
  BY <1>2, TailHeadFacts
<1>6. /\ IsFiniteSet(keys) /\ Cardinality(keys) \in Nat /\ Capacity \in Nat
      /\ Cardinality(keys) <= Capacity + 1
      /\ IsFiniteSet(keys \ {oldest}) /\ Cardinality(keys \ {oldest}) = Cardinality(keys) - 1
  <2>1. /\ IsFiniteSet(keys)
        /\ Cardinality(keys) = IF p \in DOMAIN pending THEN Cardinality(DOMAIN pending)
                               ELSE Cardinality(DOMAIN pending) + 1
    BY <1>1, FS_AddElement, Zenon
  <2>2. /\ IsFiniteSet(keys \ {oldest})
        /\ Cardinality(keys \ {oldest}) = IF oldest \in keys THEN Cardinality(keys) - 1
                                          ELSE Cardinality(keys)
    BY <2>1, FS_RemoveElement, Zenon
  <2>3. Cardinality(keys) \in Nat /\ Cardinality(DOMAIN pending) \in Nat /\ Capacity \in Nat
    BY <1>1, <2>1, FS_CardinalityType, FileUploadsAssumption
  <2> QED BY <1>1, <1>5, <2>1, <2>2, <2>3
<1>7. \A q \in keys : grown[q] \in DOMAIN uploads /\ uploads[grown[q]].path = q
  BY <1>1, <1>3 DEF BasicInv, TableInv
<1>8. /\ keys \subseteq Path /\ \A j \in DOMAIN uploads : None # [by |-> by, id |-> j]
  BY <1>1, UploadFacts, FileUploadsAssumption DEF BasicInv, Ids
<1> HIDE DEF keys, grown, oldest
<1>9. CASE full
  <2>1. /\ expired' = expired \ {p, oldest} /\ order' = Tail(Touched(p))
        /\ pending' = [q \in keys \ {oldest} |-> grown[q]]
        /\ lock' = [by |-> by, id |-> grown[oldest]]
    BY <1>4, <1>9
  <2>2. DOMAIN pending' = keys \ {oldest} /\ \A q \in keys \ {oldest} : pending'[q] = grown[q]
    BY <2>1
  <2>3. Adds(p, i, by)
    <3>1. lock' # None /\ lock'.by = by /\ lock'.id = IF oldest = p THEN i ELSE pending[oldest]
      BY <1>3, <1>5, <1>7, <1>8, <2>1
    <3>2. expired' = (expired \ {p}) \cap DOMAIN pending' BY <1>1, <2>1, <2>2 DEF keys
    <3> QED BY <1>3, <1>4, <1>5, <1>9, <2>2, <3>1, <3>2 DEF Adds, keys
  <2>4. TableTyped'
    <3>1. lock' \in [by : Conn \cup {Sweeper}, id : DOMAIN uploads'] BY <1>5, <1>7, <2>1
    <3>2. Cardinality(DOMAIN pending') <= Capacity BY <1>6, <1>9, <2>2
    <3>3. expired' \subseteq DOMAIN pending' BY <1>1, <2>1, <2>2 DEF keys
    <3>4. DOMAIN pending' \subseteq Path /\ pending' \in [DOMAIN pending' -> DOMAIN uploads']
      BY <1>7, <1>8, <2>1, <2>2
    <3> QED BY <1>5, <2>1, <2>2, <3>1, <3>2, <3>3, <3>4 DEF TableTyped
  <2>5. TableInv' BY <1>6, <1>7, <2>2 DEF TableInv
  <2> QED BY <2>3, <2>4, <2>5
<1>10. CASE ~full
  <2>1. /\ expired' = expired \ {p} /\ order' = Touched(p) /\ pending' = grown /\ lock' = None
    BY <1>4, <1>10
  <2>2. DOMAIN pending' = keys /\ \A q \in keys : pending'[q] = grown[q] BY <1>3, <2>1
  <2>3. Adds(p, i, by) BY <1>1, <1>3, <1>4, <2>1, <2>2 DEF Adds, keys
  <2>4. TableTyped'
    <3>1. Cardinality(DOMAIN pending') <= Capacity BY <1>6, <1>10, <2>2
    <3>2. expired' \subseteq DOMAIN pending' BY <1>1, <2>1, <2>2 DEF keys
    <3>3. DOMAIN pending' \subseteq Path /\ pending' \in [DOMAIN pending' -> DOMAIN uploads']
      <4>1. pending' = [q \in keys |-> grown[q]] BY <2>1 DEF grown
      <4> QED BY <1>7, <1>8, <2>2, <4>1
    <3> QED BY <1>2, <2>1, <2>2, <3>1, <3>2, <3>3 DEF TableTyped
  <2>5. TableInv' BY <1>6, <1>7, <2>2 DEF TableInv
  <2> QED BY <2>3, <2>4, <2>5
<1> QED BY <1>9, <1>10

\* What Remove does: the entry, if there is one, leaves and its upload is cleaned.
Removes(p, by) ==
  /\ lock = None
  /\ IF p \in DOMAIN pending
     THEN /\ DOMAIN pending' = DOMAIN pending \ {p} /\ expired' = expired \ {p}
          /\ \A q \in DOMAIN pending' : pending'[q] = pending[q]
          /\ lock' # None /\ lock'.by = by /\ lock'.id = pending[p]
     ELSE UNCHANGED tableVars

LEMMA RemoveFacts ==
  ASSUME BasicInv, UNCHANGED uploads, NEW p, NEW by \in Conn \cup {Sweeper}, RemoveEntry(p, by)
  PROVE  Removes(p, by) /\ TableTyped' /\ TableInv'
<1>1. /\ DOMAIN pending \subseteq Path /\ pending \in [DOMAIN pending -> DOMAIN uploads]
      /\ expired \subseteq DOMAIN pending /\ Cardinality(DOMAIN pending) <= Capacity
      /\ IsFiniteSet(DOMAIN pending) /\ TableTyped
  BY DEF BasicInv, TypeOK, TableTyped, TableInv
<1>2. /\ Unlinked(p) \in Seq(Path) /\ Range(Unlinked(p)) = DOMAIN pending \ {p}
      /\ IsInjective(Unlinked(p))
  BY <1>1, UnlinkedFacts
<1>3. lock = None BY DEF RemoveEntry, LockFree
<1>4. CASE p \notin DOMAIN pending
  <2>1. UNCHANGED tableVars BY <1>4 DEF RemoveEntry
  <2>2. TableTyped' /\ TableInv' BY <2>1, TableSame, SameUploads DEF BasicInv
  <2> QED BY <1>3, <1>4, <2>1, <2>2 DEF Removes
<1>5. CASE p \in DOMAIN pending
  <2>1. /\ pending' = [q \in DOMAIN pending \ {p} |-> pending[q]] /\ expired' = expired \ {p}
        /\ order' = Unlinked(p) /\ lock' = [by |-> by, id |-> pending[p]]
    BY <1>5 DEF RemoveEntry
  <2>2. DOMAIN pending' = DOMAIN pending \ {p} /\ \A q \in DOMAIN pending' : pending'[q] = pending[q]
    BY <2>1
  <2>3. \A j \in DOMAIN uploads : None # [by |-> by, id |-> j]
    BY UploadFacts, FileUploadsAssumption DEF BasicInv, Ids
  <2>4. Removes(p, by) BY <1>1, <1>3, <1>5, <2>1, <2>2, <2>3 DEF Removes
  <2>5. IsFiniteSet(DOMAIN pending') /\ Cardinality(DOMAIN pending') <= Capacity
    <3>1. /\ IsFiniteSet(DOMAIN pending \ {p})
          /\ Cardinality(DOMAIN pending \ {p}) = Cardinality(DOMAIN pending) - 1
      BY <1>1, <1>5, FS_RemoveElement, Zenon
    <3>2. Cardinality(DOMAIN pending) \in Nat /\ Capacity \in Nat
      BY <1>1, FS_CardinalityType, FileUploadsAssumption
    <3> QED BY <1>1, <2>2, <3>1, <3>2
  <2>6. TableTyped'
    <3>1. lock' \in [by : Conn \cup {Sweeper}, id : DOMAIN uploads'] BY <1>1, <1>5, <2>1
    <3>2. DOMAIN pending' \subseteq Path /\ pending' \in [DOMAIN pending' -> DOMAIN uploads']
      BY <1>1, <2>1, <2>2
    <3> QED BY <1>1, <1>2, <2>1, <2>2, <2>5, <3>1, <3>2 DEF TableTyped
  <2>7. TableInv' BY <1>1, <2>2, <2>5 DEF TableInv, BasicInv
  <2> QED BY <2>4, <2>6, <2>7
<1> QED BY <1>4, <1>5

-----------------------------------------------------------------------------
(* Every step keeps the invariant.                                         *)

LEMMA HandlerFacts ==
  ASSUME BasicInv, NEW c \in Conn
  PROVE  /\ h \in [Conn -> Handler] /\ h[c] \in Handler /\ h[c].path \in Path \cup {None}
         /\ h[c].id \in 0..MaxUploads /\ h[c].id <= Len(uploads) /\ Len(uploads) \in Nat
         /\ h[c].size \in 0..MaxBlocks /\ h[c].keys \in Seq(Path) /\ Remembers(c)
         /\ phase \in {"up", "stopping", "exited"} /\ registered \subseteq Conn
         /\ Home[c] \subseteq Path
<1>1. /\ h \in [Conn -> Handler] /\ h[c].id <= Len(uploads) /\ Remembers(c)
      /\ phase \in {"up", "stopping", "exited"} /\ registered \subseteq Conn
  BY DEF BasicInv, TypeOK, HandlersTyped
<1>2. Len(uploads) \in Nat BY UploadFacts DEF BasicInv
<1>3. Home[c] \subseteq Path BY FileUploadsAssumption
<1> QED BY <1>1, <1>2, <1>3 DEF Handler

\* The handler moves on, with what it remembers.
LEMMA GotoBasic ==
  ASSUME BasicInv, NEW c \in Conn, NEW pc, Goto(c, pc), Remembers(c)',
         pc \in {"none", "read", "peek", "stat", "create", "add", "readd", "lock", "write",
                 "finish", "ack", "remove", "clear", "clearRemove", "closed"},
         UNCHANGED <<uploads, held, fileVars>>, TableTyped', TableInv',
         UNCHANGED phase, registered' \subseteq Conn
  PROVE  BasicInv'
<1>1. /\ h \in [Conn -> Handler] /\ h[c].id <= Len(uploads)
      /\ phase \in {"up", "stopping", "exited"} BY HandlerFacts
<1>2. /\ h' \in [Conn -> Handler] /\ h'[c].id = h[c].id
      /\ \A d \in Conn \ {c} : h'[d] = h[d]
  BY <1>1, GotoFacts
<1> QED BY <1>1, <1>2, QuietBasic

\* The handler answers.
LEMMA AnswerBasic ==
  ASSUME BasicInv, NEW c \in Conn, Answer(c),
         UNCHANGED <<uploads, held, fileVars>>, TableTyped', TableInv',
         UNCHANGED phase, registered' \subseteq Conn
  PROVE  BasicInv'
<1>1. /\ h \in [Conn -> Handler] /\ Len(uploads) \in Nat
      /\ phase \in {"up", "stopping", "exited"} BY HandlerFacts
<1>2. /\ h' \in [Conn -> Handler] /\ \A d \in Conn \ {c} : h'[d] = h[d]
      /\ h'[c].id = 0 /\ Remembers(c)'
  BY <1>1, AnswerFacts
<1> QED BY <1>1, <1>2, QuietBasic

LEMMA StillTable == ASSUME BasicInv, UNCHANGED <<uploads, tableVars>> PROVE TableTyped' /\ TableInv'
BY TableSame, SameUploads DEF BasicInv

LEMMA ConnectBasic == ASSUME BasicInv, NEW c \in Conn, Connect(c) PROVE BasicInv'
<1>1. /\ h \in [Conn -> Handler] /\ registered \subseteq Conn BY HandlerFacts
<1>2. Answer(c) /\ registered' \subseteq Conn BY <1>1 DEF Connect, Answer
<1>3. UNCHANGED <<phase, uploads, tableVars, held, fileVars>> BY DEF Connect
<1> QED BY <1>2, <1>3, AnswerBasic, StillTable

LEMMA UploadLenBasic ==
  ASSUME BasicInv, NEW c \in Conn, NEW p \in Home[c], NEW n \in Size, UploadLen(c, p, n)
  PROVE  BasicInv'
<1> DEFINE r == [Idle EXCEPT !.pc = "peek", !.path = p, !.size = n]
<1>1. /\ h \in [Conn -> Handler] /\ registered \subseteq Conn /\ p \in Path
      /\ phase \in {"up", "stopping", "exited"} /\ Len(uploads) \in Nat
  BY HandlerFacts
<1>2. r.pc = "peek" /\ r.path = p /\ r.size = n /\ r.id = 0 /\ r \in Handler
  <2>1. n \in 0..MaxBlocks /\ 0 \in 0..MaxUploads /\ <<>> \in Seq(Path) BY FileUploadsAssumption
  <2> QED BY <1>1, <2>1 DEF Idle, Handler
<1>3. h' = [h EXCEPT ![c] = r] /\ UNCHANGED <<phase, registered, uploads, tableVars, held, fileVars>>
  BY DEF UploadLen
<1> HIDE DEF r
<1>4. /\ h' \in [Conn -> Handler] /\ h'[c] = r /\ \A d \in Conn \ {c} : h'[d] = h[d]
  BY <1>1, <1>2, <1>3
<1>5. Remembers(c)' BY <1>2, <1>4 DEF Remembers, Serving
<1>6. h'[c].id <= Len(uploads') BY <1>1, <1>2, <1>3, <1>4
<1> QED BY <1>1, <1>3, <1>4, <1>5, <1>6, QuietBasic, StillTable

LEMMA GetBasic ==
  ASSUME BasicInv, NEW c \in Conn, NEW p \in Path, NEW pc \in {"readd", "remove"},
         NEW n \in 0..MaxBlocks, Get(c, p, pc, n)
  PROVE  BasicInv'
<1> DEFINE r == [Idle EXCEPT !.pc = pc, !.path = p, !.id = pending[p], !.size = n]
<1>1. /\ h \in [Conn -> Handler] /\ registered \subseteq Conn
      /\ phase \in {"up", "stopping", "exited"} /\ Len(uploads) \in Nat
  BY HandlerFacts
<1>2. TableTyped /\ TableInv BY DEF BasicInv, TypeOK
<1>3. /\ p \in DOMAIN pending /\ uploads[pending[p]].conn = c /\ h' = [h EXCEPT ![c] = r]
      /\ order' = Touched(p)
      /\ UNCHANGED <<phase, registered, uploads, pending, expired, lock, held, fileVars>>
  BY DEF Get, Live
<1>4. /\ pending[p] \in DOMAIN uploads /\ pending[p] <= Len(uploads) /\ pending[p] \in 0..MaxUploads
      /\ uploads[pending[p]].path = p
  <2>1. pending[p] \in DOMAIN uploads /\ uploads[pending[p]].path = p
    BY <1>2, <1>3 DEF TableTyped, TableInv
  <2> QED BY <2>1, UploadFacts, FileUploadsAssumption DEF BasicInv, Ids
<1>5. r.pc = pc /\ r.path = p /\ r.id = pending[p] /\ r \in Handler
  <2>1. <<>> \in Seq(Path) OBVIOUS
  <2> QED BY <1>4, <2>1 DEF Idle, Handler
<1> HIDE DEF r
<1>6. /\ h' \in [Conn -> Handler] /\ h'[c] = r /\ \A d \in Conn \ {c} : h'[d] = h[d]
  BY <1>1, <1>3, <1>5
<1>7. Remembers(c)' BY <1>3, <1>4, <1>5, <1>6 DEF Remembers, Serving
<1>8. h'[c].id <= Len(uploads') BY <1>3, <1>4, <1>5, <1>6
<1>9. TableTyped'
  <2>1. order' \in Seq(Path) /\ Range(order') = DOMAIN pending /\ IsInjective(order')
    <3>1. DOMAIN pending \cup {p} = DOMAIN pending BY <1>3
    <3> QED BY <1>2, <1>3, <3>1, TouchedFacts
  <2> QED BY <1>2, <1>3, <2>1 DEF TableTyped
<1>10. TableInv' BY <1>2, <1>3 DEF TableInv
<1> QED BY <1>1, <1>3, <1>6, <1>7, <1>8, <1>9, <1>10, QuietBasic

LEMMA PeekBasic == ASSUME BasicInv, NEW c \in Conn, UploadPeek(c) PROVE BasicInv'
<1>1. UNCHANGED <<phase, registered, uploads, tableVars, held, fileVars>> /\ h[c].pc = "peek"
  BY DEF UploadPeek
<1>2. h \in [Conn -> Handler] /\ registered \subseteq Conn /\ Remembers(c) BY HandlerFacts
<1>3. CASE Answer(c) BY <1>1, <1>2, <1>3, AnswerBasic, StillTable
<1>4. CASE Goto(c, "stat")
  <2>1. Remembers(c)' BY <1>1, <1>2, <1>4, GotoFacts DEF Remembers, Serving
  <2> QED BY <1>1, <1>2, <1>4, <2>1, GotoBasic, StillTable
<1> QED BY <1>3, <1>4 DEF UploadPeek

LEMMA StatBasic == ASSUME BasicInv, NEW c \in Conn, UploadStat(c) PROVE BasicInv'
<1>1. UNCHANGED <<phase, registered, uploads, tableVars, held, fileVars>> /\ h[c].pc = "stat"
  BY DEF UploadStat
<1>2. h \in [Conn -> Handler] /\ registered \subseteq Conn /\ Remembers(c) BY HandlerFacts
<1>3. CASE Answer(c) BY <1>1, <1>2, <1>3, AnswerBasic, StillTable
<1>4. CASE Goto(c, "create")
  <2>1. Remembers(c)' BY <1>1, <1>2, <1>4, GotoFacts DEF Remembers, Serving
  <2> QED BY <1>1, <1>2, <1>4, <2>1, GotoBasic, StillTable
<1> QED BY <1>3, <1>4 DEF UploadStat

LEMMA CreateFailsBasic == ASSUME BasicInv, NEW c \in Conn, UploadCreateFails(c) PROVE BasicInv'
<1>1. Answer(c) /\ UNCHANGED <<phase, registered, uploads, tableVars, held, fileVars>>
  BY DEF UploadCreateFails
<1> QED BY <1>1, HandlerFacts, AnswerBasic, StillTable

LEMMA AddBasic == ASSUME BasicInv, NEW c \in Conn, UploadAdd(c) PROVE BasicInv'
<1>1. /\ h[c].pc = "add" /\ AddEntry(h[c].path, h[c].id, c) /\ Answer(c)
      /\ UNCHANGED <<phase, registered, uploads, held, fileVars>>
  BY DEF UploadAdd
<1>2. h[c].id \in DOMAIN uploads /\ uploads[h[c].id].path = h[c].path
  BY <1>1 DEF BasicInv, Remembers, Serving
<1>3. h[c].path \in Path BY <1>2, UploadFacts DEF BasicInv
<1>4. TableTyped' /\ TableInv' BY <1>1, <1>2, <1>3, AddFacts
<1> QED BY <1>1, <1>4, HandlerFacts, AnswerBasic

LEMMA ReaddBasic == ASSUME BasicInv, NEW c \in Conn, BlockAdd(c) PROVE BasicInv'
<1>1. /\ h[c].pc = "readd" /\ AddEntry(h[c].path, h[c].id, c) /\ Goto(c, "lock")
      /\ UNCHANGED <<phase, registered, uploads, held, fileVars>>
  BY DEF BlockAdd
<1>2. h[c].id \in DOMAIN uploads /\ uploads[h[c].id].path = h[c].path
  BY <1>1 DEF BasicInv, Remembers, Serving
<1>3. h[c].path \in Path BY <1>2, UploadFacts DEF BasicInv
<1>4. TableTyped' /\ TableInv' BY <1>1, <1>2, <1>3, AddFacts
<1>5. h \in [Conn -> Handler] /\ registered \subseteq Conn /\ Remembers(c) BY HandlerFacts
<1>6. Remembers(c)' BY <1>1, <1>5, GotoFacts DEF Remembers, Serving
<1> QED BY <1>1, <1>4, <1>5, <1>6, GotoBasic

LEMMA RemoveAndAnswerBasic == ASSUME BasicInv, NEW c \in Conn, RemoveAndAnswer(c) PROVE BasicInv'
<1>1. /\ RemoveEntry(h[c].path, c) /\ Answer(c)
      /\ UNCHANGED <<phase, registered, uploads, held, fileVars>>
  BY DEF RemoveAndAnswer
<1>2. TableTyped' /\ TableInv' BY <1>1, RemoveFacts
<1> QED BY <1>1, <1>2, HandlerFacts, AnswerBasic

\* Only the keys of the handler change, and whether it is about to remove one.
LEMMA KeysFacts ==
  ASSUME h \in [Conn -> Handler], NEW c \in Conn, NEW keys \in Seq(Path), NEW r,
         r = [h[c] EXCEPT !.pc = "clear", !.keys = keys], h' = [h EXCEPT ![c] = r]
  PROVE  /\ h' \in [Conn -> Handler] /\ \A d \in Conn \ {c} : h'[d] = h[d]
         /\ h'[c].pc = "clear" /\ h'[c].keys = keys /\ h'[c].id = h[c].id /\ h'[c].path = h[c].path
<1>1. h[c] \in Handler OBVIOUS
<1>2. r \in Handler BY <1>1 DEF Handler
<1>3. r.pc = "clear" /\ r.keys = keys /\ r.id = h[c].id /\ r.path = h[c].path BY <1>1 DEF Handler
<1>4. h'[c] = r /\ h' \in [Conn -> Handler] BY <1>2
<1> QED BY <1>3, <1>4

LEMMA ReadFailsBasic == ASSUME BasicInv, NEW c \in Conn, ReadFails(c) PROVE BasicInv'
<1> DEFINE keys == Only(order, DOMAIN pending \ expired)
           r == [h[c] EXCEPT !.pc = "clear", !.keys = keys]
<1>1. h' = [h EXCEPT ![c] = r] /\ UNCHANGED <<phase, registered, uploads, tableVars, held, fileVars>>
  BY DEF ReadFails
<1>2. order \in Seq(Path) BY DEF BasicInv, TypeOK, TableTyped
<1>3. keys \in Seq(Path) BY <1>2, OnlyFacts
<1> HIDE DEF keys
<1>4. /\ h \in [Conn -> Handler] /\ h[c].id <= Len(uploads) /\ registered \subseteq Conn
      /\ phase \in {"up", "stopping", "exited"}
  BY HandlerFacts
<1>5. /\ h' \in [Conn -> Handler] /\ h'[c].pc = "clear" /\ h'[c].id = h[c].id
      /\ \A d \in Conn \ {c} : h'[d] = h[d]
  BY <1>1, <1>3, <1>4, KeysFacts
<1>6. Remembers(c)' BY <1>5 DEF Remembers, Serving
<1> QED BY <1>1, <1>4, <1>5, <1>6, QuietBasic, StillTable

\* The first key is done with.
LEMMA NextKeyFacts ==
  ASSUME BasicInv, NEW c \in Conn, NextKey(c), h[c].keys # <<>>
  PROVE  /\ h' \in [Conn -> Handler] /\ \A d \in Conn \ {c} : h'[d] = h[d]
         /\ h'[c].pc = "clear" /\ h'[c].keys = Tail(h[c].keys) /\ h'[c].id = h[c].id
         /\ Remembers(c)'
<1> DEFINE keys == Tail(h[c].keys)
           r == [h[c] EXCEPT !.pc = "clear", !.keys = keys]
<1>1. h \in [Conn -> Handler] /\ h[c].keys \in Seq(Path) BY HandlerFacts
<1>2. keys \in Seq(Path) BY <1>1
<1>3. h' = [h EXCEPT ![c] = r] BY <1>1 DEF NextKey
<1>4. r = [h[c] EXCEPT !.pc = "clear", !.keys = keys] OBVIOUS
<1> HIDE DEF keys, r
<1>5. /\ h' \in [Conn -> Handler] /\ \A d \in Conn \ {c} : h'[d] = h[d]
      /\ h'[c].pc = "clear" /\ h'[c].keys = keys /\ h'[c].id = h[c].id /\ h'[c].path = h[c].path
  BY <1>1, <1>2, <1>3, <1>4, KeysFacts
<1> QED BY <1>5 DEF Remembers, Serving, keys

LEMMA ClearPeekBasic == ASSUME BasicInv, NEW c \in Conn, ClearPeek(c) PROVE BasicInv'
<1> DEFINE p == Head(h[c].keys)
<1>1. /\ h[c].pc = "clear" /\ h[c].keys # <<>>
      /\ UNCHANGED <<phase, registered, uploads, tableVars, held, fileVars>>
  BY DEF ClearPeek
<1>2. /\ h \in [Conn -> Handler] /\ h[c].id <= Len(uploads) /\ registered \subseteq Conn
      /\ phase \in {"up", "stopping", "exited"}
  BY HandlerFacts
<1>3. CASE Live(p) /\ uploads[pending[p]].conn = c
  <2>1. Goto(c, "clearRemove") BY <1>3 DEF ClearPeek
  <2>2. pending[p] \in DOMAIN uploads /\ uploads[pending[p]].path = p
    BY <1>3 DEF Live, BasicInv, TypeOK, TableTyped, TableInv
  <2>3. p \in Home[c] BY <1>3, <2>2 DEF BasicInv, UploadInv
  <2>4. h'[c].keys = h[c].keys /\ h'[c].pc = "clearRemove" BY <1>2, <2>1, GotoFacts
  <2>5. Remembers(c)' BY <1>1, <2>3, <2>4 DEF Remembers, Serving
  <2> QED BY <1>1, <1>2, <2>1, <2>5, GotoBasic, StillTable
<1>4. CASE ~(Live(p) /\ uploads[pending[p]].conn = c)
  <2>1. NextKey(c) BY <1>4 DEF ClearPeek
  <2>2. /\ h' \in [Conn -> Handler] /\ \A d \in Conn \ {c} : h'[d] = h[d]
        /\ h'[c].id = h[c].id /\ Remembers(c)'
    BY <1>1, <2>1, NextKeyFacts
  <2> QED BY <1>1, <1>2, <2>2, QuietBasic, StillTable
<1> QED BY <1>3, <1>4

LEMMA ClearRemoveBasic == ASSUME BasicInv, NEW c \in Conn, ClearRemove(c) PROVE BasicInv'
<1>1. /\ h[c].pc = "clearRemove" /\ RemoveEntry(Head(h[c].keys), c)
      /\ NextKey(c)
      /\ UNCHANGED <<phase, registered, uploads, held, fileVars>>
  BY DEF ClearRemove
<1>2. /\ h[c].id <= Len(uploads) /\ registered \subseteq Conn /\ Remembers(c)
      /\ phase \in {"up", "stopping", "exited"}
  BY HandlerFacts
<1>3. h[c].keys # <<>> BY <1>1, <1>2 DEF Remembers
<1>4. /\ h' \in [Conn -> Handler] /\ \A d \in Conn \ {c} : h'[d] = h[d]
      /\ h'[c].id = h[c].id /\ Remembers(c)'
  BY <1>1, <1>3, NextKeyFacts
<1>5. TableTyped' /\ TableInv' BY <1>1, RemoveFacts
<1> QED BY <1>1, <1>2, <1>4, <1>5, QuietBasic

LEMMA CloseBasic == ASSUME BasicInv, NEW c \in Conn, CloseConn(c) PROVE BasicInv'
<1>1. /\ Goto(c, "closed") /\ registered' = registered \ {c}
      /\ UNCHANGED <<phase, uploads, tableVars, held, fileVars>>
  BY DEF CloseConn
<1>2. h \in [Conn -> Handler] /\ registered \subseteq Conn BY HandlerFacts
<1>3. Remembers(c)' BY <1>1, <1>2, GotoFacts DEF Remembers, Serving
<1> QED BY <1>1, <1>2, <1>3, GotoBasic, StillTable

\* os.Create starts upload i of c at p: on a new file, or the one that is there.
Creates(c, p, i) ==
  /\ h[c].pc = "create" /\ p \in Home[c] /\ p \in Path /\ i \in Ids /\ i \in Nat
  /\ i \notin DOMAIN uploads /\ DOMAIN uploads' = DOMAIN uploads \cup {i}
  /\ Len(uploads') = i /\ \A j \in DOMAIN uploads : uploads'[j] = uploads[j]
  /\ uploads'[i].conn = c /\ uploads'[i].path = p /\ uploads'[i].FileSize = h[c].size
  /\ uploads'[i].BytesReceived = 0 /\ (uploads'[i].open <=> h[c].size > 0)
  /\ uploads'[i].inode = (IF dir[p] = None THEN i ELSE dir[p])
  /\ uploads'[i].inode \in Ids /\ uploads' \in Seq(Upload)
  /\ dir' = [dir EXCEPT ![p] = uploads'[i].inode]
  /\ data' = [data EXCEPT ![uploads'[i].inode] = <<>>]

LEMMA CreateUpload ==
  ASSUME BasicInv, NEW c \in Conn, UploadCreate(c)
  PROVE  Creates(c, h[c].path, Len(uploads) + 1)
<1> DEFINE p == h[c].path
           i == Len(uploads) + 1
<1> SUFFICES Creates(c, p, i) OBVIOUS
<1> DEFINE inode == IF dir[p] = None THEN i ELSE dir[p]
           open == h[c].size > 0
           u == [conn |-> c, path |-> p, FileSize |-> h[c].size, BytesReceived |-> 0,
                 open |-> open, inode |-> inode]
<1>1. /\ h[c].pc = "create" /\ dir[p] # Folder /\ i <= MaxUploads
      /\ uploads' = Append(uploads, u) /\ dir' = [dir EXCEPT ![p] = inode]
      /\ data' = [data EXCEPT ![inode] = <<>>]
  BY DEF UploadCreate
<1>2. /\ h[c].size \in Size /\ Len(uploads) \in Nat /\ Home[c] \subseteq Path /\ p \in Home[c]
  BY <1>1, HandlerFacts DEF Remembers
<1>3. p \in Path /\ i \in Ids /\ i \in Nat BY <1>1, <1>2, FileUploadsAssumption DEF Ids
<1>4. inode \in Ids
  <2>1. dir[p] \in Ids \cup {None, Folder} BY <1>3 DEF BasicInv, TypeOK, FilesTyped
  <2> QED BY <1>1, <1>3, <2>1
<1>5. uploads \in Seq(Upload) BY DEF BasicInv, TypeOK, UploadsTyped
<1>6. open \in BOOLEAN OBVIOUS
<1>7. 0 \in 0..MaxBlocks BY FileUploadsAssumption
<1>8. inode = IF dir[p] = None THEN i ELSE dir[p] OBVIOUS
<1>9. open <=> h[c].size > 0 OBVIOUS
<1> HIDE DEF inode, open
<1>10. u \in Upload BY <1>2, <1>3, <1>4, <1>6, <1>7 DEF Upload
<1>11. /\ u.conn = c /\ u.path = p /\ u.FileSize = h[c].size /\ u.BytesReceived = 0
       /\ u.open = open /\ u.inode = inode
  OBVIOUS
<1> HIDE DEF u
<1>12. /\ uploads' \in Seq(Upload) /\ Len(uploads') = i /\ DOMAIN uploads' = DOMAIN uploads \cup {i}
       /\ i \notin DOMAIN uploads /\ uploads'[i] = u
       /\ \A j \in DOMAIN uploads : uploads'[j] = uploads[j]
  BY <1>1, <1>2, <1>5, <1>10
<1> HIDE DEF p, i
<1> QED BY <1>1, <1>2, <1>3, <1>4, <1>8, <1>9, <1>11, <1>12 DEF Creates

LEMMA CreateHandler ==
  ASSUME BasicInv, NEW c \in Conn, UploadCreate(c)
  PROVE  /\ h' \in [Conn -> Handler] /\ \A d \in Conn \ {c} : h'[d] = h[d]
         /\ \/ h[c].size = 0 /\ h'[c].pc = "read" /\ h'[c].id = 0
            \/ /\ h[c].size > 0 /\ h'[c].pc = "add" /\ h'[c].id = Len(uploads) + 1
               /\ h'[c].path = h[c].path /\ h'[c].size = h[c].size
<1> DEFINE i == Len(uploads) + 1
           r == [h[c] EXCEPT !.pc = "add", !.id = i]
<1>1. i <= MaxUploads /\ IF h[c].size = 0 THEN Answer(c) ELSE h' = [h EXCEPT ![c] = r]
  BY DEF UploadCreate
<1>2. /\ h \in [Conn -> Handler] /\ h[c] \in Handler /\ h[c].size \in 0..MaxBlocks
      /\ Len(uploads) \in Nat
  BY HandlerFacts
<1>3. i \in 0..MaxUploads BY <1>1, <1>2, FileUploadsAssumption
<1> HIDE DEF i
<1>4. /\ r \in Handler /\ r.pc = "add" /\ r.id = i /\ r.path = h[c].path /\ r.size = h[c].size
  BY <1>2, <1>3 DEF Handler
<1> HIDE DEF r
<1>5. CASE h[c].size = 0
  <2>1. Answer(c) BY <1>1, <1>5
  <2> QED BY <1>2, <1>5, <2>1, AnswerFacts
<1>6. CASE h[c].size # 0
  <2>1. h' = [h EXCEPT ![c] = r] BY <1>1, <1>6
  <2>2. h[c].size > 0 BY <1>2, <1>6
  <2>3. h'[c] = r /\ h' \in [Conn -> Handler] /\ \A d \in Conn \ {c} : h'[d] = h[d]
    BY <1>2, <1>4, <2>1
  <2> QED BY <1>4, <2>2, <2>3 DEF i
<1> QED BY <1>5, <1>6

LEMMA CreateBasic == ASSUME BasicInv, NEW c \in Conn, UploadCreate(c) PROVE BasicInv'
<1> DEFINE p == h[c].path
           i == Len(uploads) + 1
<1>0. p = h[c].path /\ i = Len(uploads) + 1 OBVIOUS
<1> HIDE DEF p, i
<1>1. Creates(c, p, i) BY <1>0, CreateUpload
<1>2. /\ h' \in [Conn -> Handler] /\ \A d \in Conn \ {c} : h'[d] = h[d]
      /\ \/ h'[c].pc = "read" /\ h'[c].id = 0
         \/ h'[c].pc = "add" /\ h'[c].id = i /\ h'[c].path = p /\ h'[c].size = h[c].size
  BY <1>0, CreateHandler
<1>3. /\ UNCHANGED <<phase, registered, tableVars, held>>
  BY DEF UploadCreate
<1>4. /\ Len(uploads) \in Nat /\ h[c].size \in 0..MaxBlocks /\ registered \subseteq Conn
      /\ phase \in {"up", "stopping", "exited"}
  BY HandlerFacts
<1>5. Grows BY <1>0, <1>1, <1>4 DEF Grows, Creates
<1>6. \A j \in DOMAIN uploads : KeepsHeld(j) BY <1>1, <1>3 DEF KeepsHeld, Creates
<1>7. TableTyped' /\ TableInv' BY <1>3, <1>5, TableSame
<1>8. UploadsTyped'
  <2>1. Len(uploads') <= MaxUploads BY <1>1, FileUploadsAssumption DEF Ids, Creates
  <2> QED BY <1>1, <1>3, <2>1 DEF BasicInv, TypeOK, UploadsTyped, Creates
<1>9. UploadInv'
  <2>1. 0 <= h[c].size BY <1>4
  <2> QED BY <1>1, <2>1 DEF BasicInv, UploadInv, Creates
<1>10. FilesTyped'
  <2> DEFINE n == uploads'[i].inode
  <2>1. /\ n \in Ids /\ dir' = [dir EXCEPT ![p] = n] /\ data' = [data EXCEPT ![n] = <<>>]
        /\ dir \in [Path -> Ids \cup {None, Folder}] /\ p \in Path
        /\ data \in [Ids -> Seq(0..MaxUploads)] /\ \A j \in Ids : Len(data[j]) <= MaxBlocks
    BY <1>1 DEF BasicInv, TypeOK, FilesTyped, Creates
  <2> HIDE DEF n
  <2>2. dir' \in [Path -> Ids \cup {None, Folder}] BY <2>1
  <2>3. <<>> \in Seq(0..MaxUploads) /\ Len(<<>>) <= MaxBlocks BY FileUploadsAssumption
  <2>4. data' \in [Ids -> Seq(0..MaxUploads)] /\ \A j \in Ids : data'[j] = IF j = n THEN <<>> ELSE data[j]
    BY <2>1, <2>3
  <2> QED BY <2>1, <2>2, <2>3, <2>4 DEF FilesTyped
<1>11. h'[c].id <= Len(uploads') BY <1>1, <1>2 DEF Creates
<1>12. Remembers(c)'
  <2> QED BY <1>1, <1>2 DEF Remembers, Serving, Creates
<1> QED BY <1>2, <1>3, <1>4, <1>5, <1>6, <1>7, <1>8, <1>9, <1>10, <1>11, <1>12, StepBasic

\* After a clean-up upload i is closed; its file goes if it was open till then.
Cleans(i, removeFile) ==
  /\ uploads' \in Seq(Upload) /\ Len(uploads') = Len(uploads) /\ DOMAIN uploads' = DOMAIN uploads
  /\ \A j \in DOMAIN uploads \ {i} : uploads'[j] = uploads[j]
  /\ uploads'[i].conn = uploads[i].conn /\ uploads'[i].path = uploads[i].path
  /\ uploads'[i].FileSize = uploads[i].FileSize /\ uploads'[i].inode = uploads[i].inode
  /\ uploads'[i].BytesReceived = uploads[i].BytesReceived /\ ~uploads'[i].open
  /\ dir' = IF uploads[i].open /\ removeFile THEN [dir EXCEPT ![uploads[i].path] = None] ELSE dir
  /\ data' = data

LEMMA CleanupFacts ==
  ASSUME BasicInv, NEW i \in DOMAIN uploads, NEW removeFile, Cleanup(i, removeFile)
  PROVE  Cleans(i, removeFile)
<1>1. uploads \in Seq(Upload) /\ uploads[i] \in Upload /\ uploads[i].open \in BOOLEAN
  BY UploadFacts DEF BasicInv, TypeOK, UploadsTyped
<1>2. CASE uploads[i].open
  <2> DEFINE u == [uploads[i] EXCEPT !.open = FALSE]
  <2>1. /\ uploads' = [uploads EXCEPT ![i] = u] /\ data' = data
        /\ dir' = IF uploads[i].open /\ removeFile THEN [dir EXCEPT ![uploads[i].path] = None] ELSE dir
    BY <1>2 DEF Cleanup
  <2>2. /\ u \in Upload /\ u.conn = uploads[i].conn /\ u.path = uploads[i].path
        /\ u.FileSize = uploads[i].FileSize /\ u.inode = uploads[i].inode
        /\ u.BytesReceived = uploads[i].BytesReceived /\ u.open = FALSE
    BY <1>1 DEF Upload
  <2> HIDE DEF u
  <2>3. /\ uploads' \in Seq(Upload) /\ Len(uploads') = Len(uploads)
        /\ DOMAIN uploads' = DOMAIN uploads /\ uploads'[i] = u
        /\ \A j \in DOMAIN uploads \ {i} : uploads'[j] = uploads[j]
    BY <1>1, <2>1, <2>2
  <2> QED BY <2>1, <2>2, <2>3 DEF Cleans
<1>3. CASE ~uploads[i].open
  <2>1. UNCHANGED <<uploads, dir, data>> BY <1>3 DEF Cleanup, fileVars
  <2> QED BY <1>1, <1>3, <2>1 DEF Cleans
<1> QED BY <1>2, <1>3

\* A clean-up keeps what holds of the uploads and the files.
LEMMA CleanupBasic ==
  ASSUME BasicInv, NEW i \in DOMAIN uploads, NEW removeFile, Cleans(i, removeFile),
         UNCHANGED held, i \notin held
  PROVE  /\ Grows /\ \A j \in DOMAIN uploads : KeepsHeld(j)
         /\ UploadsTyped' /\ UploadInv' /\ FilesTyped'
<1>1. Len(uploads) \in Nat BY UploadFacts DEF BasicInv
<1>2. Grows BY <1>1 DEF Grows, Cleans
<1>3. \A j \in DOMAIN uploads : KeepsHeld(j) BY DEF KeepsHeld, Cleans
<1>4. UploadsTyped' BY DEF BasicInv, TypeOK, UploadsTyped, Cleans
<1>5. UploadInv'
  <2>1. \A j \in DOMAIN uploads :
          /\ uploads'[j].conn = uploads[j].conn /\ uploads'[j].path = uploads[j].path
          /\ uploads'[j].FileSize = uploads[j].FileSize
          /\ uploads'[j].BytesReceived = uploads[j].BytesReceived
    BY DEF Cleans
  <2> QED BY <2>1 DEF BasicInv, UploadInv, Cleans
<1>6. FilesTyped' BY DEF BasicInv, TypeOK, FilesTyped, Cleans
<1> QED BY <1>2, <1>3, <1>4, <1>5, <1>6

LEMMA FinishBasic == ASSUME BasicInv, NEW c \in Conn, BlockFinish(c) PROVE BasicInv'
<1> DEFINE i == h[c].id
<1>1. /\ h[c].pc = "finish" /\ i \notin held /\ Cleanup(i, FALSE) /\ Goto(c, "ack")
      /\ UNCHANGED <<phase, registered, tableVars, held>>
  BY DEF BlockFinish
<1>2. /\ h \in [Conn -> Handler] /\ h[c].id <= Len(uploads) /\ registered \subseteq Conn
      /\ phase \in {"up", "stopping", "exited"} /\ Remembers(c)
  BY HandlerFacts
<1>3. i \in DOMAIN uploads BY <1>1, <1>2 DEF Remembers, Serving
<1>4. Cleans(i, FALSE) BY <1>1, <1>3, CleanupFacts
<1>5. /\ Grows /\ \A j \in DOMAIN uploads : KeepsHeld(j)
      /\ UploadsTyped' /\ UploadInv' /\ FilesTyped'
  BY <1>1, <1>3, <1>4, CleanupBasic
<1>6. /\ h' \in [Conn -> Handler] /\ h'[c].id = h[c].id /\ h'[c].pc = "ack"
      /\ h'[c].path = h[c].path /\ \A d \in Conn \ {c} : h'[d] = h[d]
  BY <1>1, <1>2, GotoFacts
<1>7. Remembers(c)' BY <1>1, <1>2, <1>5, <1>6 DEF Remembers, Serving, Grows
<1>8. h'[c].id <= Len(uploads') BY <1>2, <1>4, <1>6 DEF Cleans
<1> QED BY <1>1, <1>2, <1>5, <1>6, <1>7, <1>8, StepBasic, TableSame

LEMMA EvictBasic == ASSUME BasicInv, evictPendingUpload PROVE BasicInv'
<1> DEFINE i == lock.id
<1>1. /\ lock # None /\ i \notin held /\ Cleanup(i, TRUE) /\ lock' = None
      /\ UNCHANGED <<phase, registered, h, pending, expired, order, held>>
  BY DEF evictPendingUpload
<1>2. TableTyped /\ TableInv BY DEF BasicInv, TypeOK
<1>3. i \in DOMAIN uploads BY <1>1, <1>2 DEF TableTyped
<1>4. Cleans(i, TRUE) BY <1>1, <1>3, CleanupFacts
<1>5. /\ Grows /\ \A j \in DOMAIN uploads : KeepsHeld(j)
      /\ UploadsTyped' /\ UploadInv' /\ FilesTyped'
  BY <1>1, <1>3, <1>4, CleanupBasic
<1>6. TableTyped' BY <1>1, <1>2, <1>4 DEF TableTyped, Cleans
<1>7. TableInv'
  <2>1. \A p \in DOMAIN pending : pending[p] \in DOMAIN uploads BY <1>2 DEF TableTyped
  <2> QED BY <1>1, <1>2, <1>5, <2>1 DEF TableInv, Grows
<1>8. registered \subseteq Conn /\ phase \in {"up", "stopping", "exited"}
  BY DEF BasicInv, TypeOK, HandlersTyped
<1> QED BY <1>1, <1>5, <1>6, <1>7, <1>8, OtherBasic

LEMMA BlockLockBasic == ASSUME BasicInv, NEW c \in Conn, BlockLock(c) PROVE BasicInv'
<1> DEFINE i == h[c].id
<1>1. /\ h[c].pc = "lock" /\ UNCHANGED <<phase, registered, uploads, tableVars, fileVars>>
  BY DEF BlockLock
<1>2. /\ h \in [Conn -> Handler] /\ h[c].id <= Len(uploads) /\ registered \subseteq Conn
      /\ phase \in {"up", "stopping", "exited"} /\ Remembers(c)
  BY HandlerFacts
<1>3. i \in DOMAIN uploads /\ uploads[i].conn = c BY <1>1, <1>2 DEF Remembers, Serving
<1>4. CASE Answer(c) /\ held' = held BY <1>1, <1>2, <1>4, AnswerBasic, StillTable
<1>5. CASE Goto(c, "remove") /\ held' = held
  <2>1. Remembers(c)' BY <1>1, <1>2, <1>5, GotoFacts DEF Remembers, Serving
  <2> QED BY <1>1, <1>2, <1>5, <2>1, GotoBasic, StillTable
<1>6. CASE /\ uploads[i].open /\ uploads[i].BytesReceived + h[c].size <= uploads[i].FileSize
           /\ Goto(c, "write") /\ held' = held \cup {i}
  <2>1. /\ h' \in [Conn -> Handler] /\ h'[c].id = i /\ h'[c].pc = "write"
        /\ h'[c].path = h[c].path /\ h'[c].size = h[c].size /\ \A d \in Conn \ {c} : h'[d] = h[d]
    BY <1>2, <1>6, GotoFacts
  <2>2. Remembers(c)' BY <1>1, <1>2, <1>6, <2>1 DEF Remembers, Serving
  <2>3. Grows BY <1>1, SameUploads DEF BasicInv
  <2>4. \A j \in DOMAIN uploads : KeepsHeld(j) BY <1>1, <1>6 DEF KeepsHeld
  <2>5. UploadsTyped' /\ UploadInv' /\ FilesTyped'
    BY <1>1, <1>3, <1>6 DEF BasicInv, TypeOK, UploadsTyped, UploadInv, FilesTyped, fileVars
  <2>6. TableTyped' /\ TableInv' BY <1>1, StillTable
  <2>7. h'[c].id <= Len(uploads') BY <1>1, <1>2, <2>1
  <2> QED BY <1>1, <1>2, <2>1, <2>2, <2>3, <2>4, <2>5, <2>6, <2>7, StepBasic
<1> QED BY <1>4, <1>5, <1>6 DEF BlockLock

LEMMA WriteFailsBasic == ASSUME BasicInv, NEW c \in Conn, BlockWriteFails(c) PROVE BasicInv'
<1>1. /\ h[c].pc = "write" /\ Goto(c, "remove") /\ held' = held \ {h[c].id}
      /\ UNCHANGED <<phase, registered, uploads, tableVars, fileVars>>
  BY DEF BlockWriteFails
<1>2. /\ h \in [Conn -> Handler] /\ h[c].id <= Len(uploads) /\ registered \subseteq Conn
      /\ phase \in {"up", "stopping", "exited"} /\ Remembers(c)
  BY HandlerFacts
<1>3. /\ h' \in [Conn -> Handler] /\ h'[c].id = h[c].id /\ h'[c].pc = "remove"
      /\ h'[c].path = h[c].path /\ \A d \in Conn \ {c} : h'[d] = h[d]
  BY <1>1, <1>2, GotoFacts
<1>4. uploads[h[c].id].conn = c BY <1>1, <1>2 DEF Remembers, Serving
<1>5. Remembers(c)' BY <1>1, <1>2, <1>3 DEF Remembers, Serving
<1>6. Grows BY <1>1, SameUploads DEF BasicInv
<1>7. \A j \in DOMAIN uploads : uploads[j].conn # c => KeepsHeld(j) BY <1>1, <1>4 DEF KeepsHeld
<1>8. UploadsTyped' /\ UploadInv' /\ FilesTyped'
  BY <1>1 DEF BasicInv, TypeOK, UploadsTyped, UploadInv, FilesTyped, fileVars
<1>9. TableTyped' /\ TableInv' BY <1>1, StillTable
<1>10. h'[c].id <= Len(uploads') BY <1>1, <1>2, <1>3
<1> QED BY <1>1, <1>2, <1>3, <1>5, <1>6, <1>7, <1>8, <1>9, <1>10, StepBasic

\* A write ends where the blocks before it ended, or where it ends itself.
LEMMA WrittenFacts ==
  ASSUME NEW b \in Seq(0..MaxUploads), NEW offset \in Nat, NEW n \in Nat, NEW i \in 0..MaxUploads,
         Len(b) <= MaxBlocks, offset + n <= MaxBlocks
  PROVE  /\ Written(b, offset, n, i) \in Seq(0..MaxUploads)
         /\ Len(Written(b, offset, n, i)) <= MaxBlocks
<1> DEFINE len == IF Len(b) > offset + n THEN Len(b) ELSE offset + n
           f == [k \in 1..len |-> IF k \in offset + 1 .. offset + n THEN i
                                  ELSE IF k \in DOMAIN b THEN b[k] ELSE 0]
<1>1. Written(b, offset, n, i) = f BY DEF Written
<1>2. len \in Nat /\ len <= MaxBlocks OBVIOUS
<1>3. \A k \in 1..len : f[k] \in 0..MaxUploads
  <2>1. 0 \in 0..MaxUploads BY FileUploadsAssumption
  <2>2. \A k \in DOMAIN b : b[k] \in 0..MaxUploads
    <3> DEFINE S == 0..MaxUploads
    <3> HIDE DEF S
    <3>1. b \in Seq(S) BY DEF S
    <3>2. \A k \in DOMAIN b : b[k] \in S BY <3>1
    <3> QED BY <3>2 DEF S
  <2> HIDE DEF len
  <2> QED BY <2>1, <2>2
<1> HIDE DEF len
<1>4. f \in Seq(0..MaxUploads) /\ Len(f) = len
  <2> DEFINE S == 0..MaxUploads
  <2>1. f = [k \in 1..len |-> f[k]] OBVIOUS
  <2>2. \A k \in 1..len : f[k] \in S BY <1>3
  <2> HIDE DEF f, S
  <2>3. [k \in 1..len |-> f[k]] \in Seq(S) BY <1>2, <2>2
  <2>4. Len([k \in 1..len |-> f[k]]) = len BY <1>2
  <2> QED BY <2>1, <2>3, <2>4 DEF S
<1> HIDE DEF f
<1> QED BY <1>1, <1>2, <1>4

\* The handler of c writes its blocks to the file of upload i and lets go of it.
Writes(c, i) ==
  /\ h[c].pc = "write" /\ i \in DOMAIN uploads /\ i \in held /\ uploads[i].open
  /\ uploads[i].conn = c /\ uploads[i].path = h[c].path
  /\ uploads[i].BytesReceived + h[c].size <= uploads[i].FileSize
  /\ uploads' \in Seq(Upload) /\ Len(uploads') = Len(uploads) /\ DOMAIN uploads' = DOMAIN uploads
  /\ \A j \in DOMAIN uploads \ {i} : uploads'[j] = uploads[j]
  /\ uploads'[i].conn = c /\ uploads'[i].path = uploads[i].path
  /\ uploads'[i].FileSize = uploads[i].FileSize /\ uploads'[i].inode = uploads[i].inode
  /\ uploads'[i].open
  /\ uploads'[i].BytesReceived = uploads[i].BytesReceived + h[c].size
  /\ data' = [data EXCEPT ![uploads[i].inode] =
                Written(data[uploads[i].inode], uploads[i].BytesReceived, h[c].size, i)]
  /\ held' = held \ {i} /\ UNCHANGED <<phase, registered, tableVars, dir>>
  /\ h' \in [Conn -> Handler] /\ \A d \in Conn \ {c} : h'[d] = h[d]
  /\ \/ h'[c].pc = "read" /\ h'[c].id = 0
     \/ /\ h'[c].pc = "finish" /\ h'[c].id = i /\ h'[c].path = h[c].path
        /\ uploads'[i].BytesReceived = uploads[i].FileSize

LEMMA WriteFacts ==
  ASSUME BasicInv, NEW c \in Conn, BlockWrite(c)
  PROVE  Writes(c, h[c].id)
<1> DEFINE i == h[c].id
           received == uploads[i].BytesReceived + h[c].size
           u == [uploads[i] EXCEPT !.BytesReceived = received]
<1>1. /\ h[c].pc = "write"
      /\ data' = [data EXCEPT ![uploads[i].inode] =
                    Written(data[uploads[i].inode], uploads[i].BytesReceived, h[c].size, i)]
      /\ uploads' = [uploads EXCEPT ![i].BytesReceived = received]
      /\ IF received = uploads[i].FileSize THEN Goto(c, "finish") ELSE Answer(c)
      /\ held' = held \ {i} /\ UNCHANGED <<phase, registered, tableVars, dir>>
  BY DEF BlockWrite
<1>2. h \in [Conn -> Handler] /\ Remembers(c) /\ h[c].size \in Nat BY HandlerFacts
<1>3. /\ i \in DOMAIN uploads /\ i \in held /\ uploads[i].open /\ uploads[i].conn = c
      /\ uploads[i].path = h[c].path /\ received <= uploads[i].FileSize
  BY <1>1, <1>2 DEF Remembers, Serving
<1>4. /\ uploads \in Seq(Upload) /\ uploads[i] \in Upload /\ uploads[i].FileSize \in 0..MaxBlocks
      /\ uploads[i].BytesReceived \in 0..MaxBlocks
  BY <1>3, UploadFacts DEF BasicInv, TypeOK, UploadsTyped
<1>5. received \in 0..MaxBlocks
  <2> DEFINE b == uploads[i].BytesReceived
             s == uploads[i].FileSize
             n == h[c].size
  <2>1. b \in 0..MaxBlocks /\ s \in 0..MaxBlocks /\ n \in Nat /\ b + n <= s BY <1>2, <1>3, <1>4
  <2> HIDE DEF b, s, n
  <2>2. b + n \in 0..MaxBlocks BY <2>1, FileUploadsAssumption
  <2> QED BY <2>2 DEF b, n
<1>6. received = uploads[i].BytesReceived + h[c].size OBVIOUS
<1> HIDE DEF received
<1>7. /\ u \in Upload /\ u.conn = uploads[i].conn /\ u.path = uploads[i].path
      /\ u.FileSize = uploads[i].FileSize /\ u.inode = uploads[i].inode
      /\ u.BytesReceived = received /\ u.open = uploads[i].open
  BY <1>4, <1>5 DEF Upload
<1>8. uploads' = [uploads EXCEPT ![i] = u] BY <1>1, <1>3
<1> HIDE DEF u
<1>9. /\ uploads' \in Seq(Upload) /\ Len(uploads') = Len(uploads)
      /\ DOMAIN uploads' = DOMAIN uploads /\ uploads'[i] = u
      /\ \A j \in DOMAIN uploads \ {i} : uploads'[j] = uploads[j]
  BY <1>3, <1>4, <1>7, <1>8
<1>10. /\ h' \in [Conn -> Handler] /\ \A d \in Conn \ {c} : h'[d] = h[d]
       /\ \/ h'[c].pc = "read" /\ h'[c].id = 0
          \/ /\ h'[c].pc = "finish" /\ h'[c].id = i /\ h'[c].path = h[c].path
             /\ received = uploads[i].FileSize
  <2>1. CASE received = uploads[i].FileSize
    <3>1. Goto(c, "finish") BY <1>1, <2>1
    <3> QED BY <1>2, <2>1, <3>1, GotoFacts
  <2>2. CASE received # uploads[i].FileSize
    <3>1. Answer(c) BY <1>1, <2>2
    <3> QED BY <1>2, <3>1, AnswerFacts
  <2> QED BY <2>1, <2>2
<1> HIDE DEF i
<1>11. Writes(c, i) BY <1>1, <1>3, <1>6, <1>7, <1>9, <1>10 DEF Writes
<1> QED BY <1>11 DEF i

LEMMA WriteBasic == ASSUME BasicInv, NEW c \in Conn, BlockWrite(c) PROVE BasicInv'
<1>1. PICK i : i = h[c].id OBVIOUS
<1>2. Writes(c, i) BY <1>1, WriteFacts
<1>3. /\ Len(uploads) \in Nat /\ registered \subseteq Conn /\ phase \in {"up", "stopping", "exited"}
      /\ h[c].size \in Nat
  BY HandlerFacts
<1>4. /\ uploads[i].BytesReceived \in Nat /\ uploads[i].FileSize \in 0..MaxBlocks /\ i \in Ids
      /\ uploads[i].inode \in Ids
  BY <1>2, UploadFacts, FileUploadsAssumption DEF Writes, BasicInv
<1>5. Grows BY <1>2, <1>3 DEF Writes, Grows
<1>6. \A j \in DOMAIN uploads : uploads[j].conn # c => KeepsHeld(j) BY <1>2 DEF Writes, KeepsHeld
<1>7. UploadsTyped' BY <1>2 DEF Writes, BasicInv, TypeOK, UploadsTyped
<1>8. UploadInv' BY <1>2 DEF Writes, BasicInv, UploadInv
<1>9. FilesTyped'
  <2> DEFINE n == uploads[i].inode
             b == Written(data[n], uploads[i].BytesReceived, h[c].size, i)
  <2>1. /\ data \in [Ids -> Seq(0..MaxUploads)] /\ \A j \in Ids : Len(data[j]) <= MaxBlocks
        /\ dir' \in [Path -> Ids \cup {None, Folder}]
    BY <1>2 DEF Writes, BasicInv, TypeOK, FilesTyped
  <2>2. uploads[i].BytesReceived + h[c].size <= MaxBlocks
    <3>1. uploads[i].BytesReceived + h[c].size <= uploads[i].FileSize BY <1>2 DEF Writes
    <3> QED BY <1>3, <1>4, <3>1, FileUploadsAssumption
  <2>3. i \in 0..MaxUploads BY <1>4 DEF Ids
  <2>4. b \in Seq(0..MaxUploads) /\ Len(b) <= MaxBlocks BY <1>3, <1>4, <2>1, <2>2, <2>3, WrittenFacts
  <2>5. data' = [data EXCEPT ![n] = b] BY <1>2 DEF Writes
  <2> HIDE DEF n, b
  <2>6. n \in Ids BY <1>4 DEF n
  <2>7. data' \in [Ids -> Seq(0..MaxUploads)] /\ \A j \in Ids : data'[j] = IF j = n THEN b ELSE data[j]
    BY <2>1, <2>4, <2>5, <2>6
  <2> QED BY <2>1, <2>4, <2>7 DEF FilesTyped
<1>10. TableTyped' /\ TableInv' BY <1>2, <1>5, TableSame DEF Writes
<1>11. Remembers(c)' BY <1>2 DEF Writes, Remembers, Serving
<1>12. h'[c].id <= Len(uploads')
  <2>1. i <= Len(uploads) BY <1>1, HandlerFacts
  <2> QED BY <1>2, <1>3, <2>1 DEF Writes
<1>13. h' \in [Conn -> Handler] /\ \A d \in Conn \ {c} : h'[d] = h[d] BY <1>2 DEF Writes
<1>14. UNCHANGED <<phase, registered>> BY <1>2 DEF Writes
<1> QED BY <1>3, <1>5, <1>6, <1>7, <1>8, <1>9, <1>10, <1>11, <1>12, <1>13, <1>14, StepBasic

\* A step that changes no more than the files, the process and the connections.
LEMMA OutsideBasic ==
  ASSUME BasicInv, UNCHANGED <<h, uploads, tableVars, held>>, FilesTyped',
         phase' \in {"up", "stopping", "exited"}, registered' \subseteq Conn
  PROVE  BasicInv'
<1>1. Grows /\ \A i \in DOMAIN uploads : KeepsHeld(i) BY SameUploads DEF KeepsHeld, BasicInv
<1>2. UploadsTyped' /\ UploadInv' BY DEF BasicInv, TypeOK, UploadsTyped, UploadInv
<1> QED BY <1>1, <1>2, StillTable, OtherBasic

LEMMA FileOpsBasic ==
  ASSUME BasicInv, NEW c \in Conn, NEW p \in Path, NEW q \in Path,
         Rename(c, p, q) \/ Delete(c, p) \/ CreateFolder(c, p)
  PROVE  BasicInv'
<1>1. /\ UNCHANGED <<phase, registered, h, uploads, tableVars, held, data>>
  BY DEF Rename, Delete, CreateFolder
<1>2. /\ registered \subseteq Conn /\ phase \in {"up", "stopping", "exited"} BY HandlerFacts
<1>3. dir \in [Path -> Ids \cup {None, Folder}] BY DEF BasicInv, TypeOK, FilesTyped
<1>4. dir' \in [Path -> Ids \cup {None, Folder}]
  <2>1. ASSUME Rename(c, p, q) PROVE dir' \in [Path -> Ids \cup {None, Folder}]
    <3>1. dir' = [dir EXCEPT ![q] = dir[p], ![p] = None] BY <2>1 DEF Rename
    <3> QED BY <1>3, <3>1
  <2>2. ASSUME Delete(c, p) PROVE dir' \in [Path -> Ids \cup {None, Folder}]
    BY <1>3, <2>2 DEF Delete
  <2>3. ASSUME CreateFolder(c, p) PROVE dir' \in [Path -> Ids \cup {None, Folder}]
    BY <1>3, <2>3 DEF CreateFolder
  <2> QED BY <2>1, <2>2, <2>3
<1>5. FilesTyped' BY <1>1, <1>4 DEF BasicInv, TypeOK, FilesTyped
<1> QED BY <1>1, <1>2, <1>5, OutsideBasic

LEMMA ExpireBasic == ASSUME BasicInv, NEW p \in Path, Expire(p) PROVE BasicInv'
<1>1. /\ p \in DOMAIN pending /\ expired' = expired \cup {p}
      /\ UNCHANGED <<phase, registered, h, uploads, pending, order, lock, held, fileVars>>
  BY DEF Expire, Live
<1>2. Grows /\ \A i \in DOMAIN uploads : KeepsHeld(i)
  BY <1>1, SameUploads DEF KeepsHeld, BasicInv
<1>3. UploadsTyped' /\ UploadInv' /\ FilesTyped'
  BY <1>1 DEF BasicInv, TypeOK, UploadsTyped, UploadInv, FilesTyped, fileVars
<1>4. TableTyped' BY <1>1 DEF BasicInv, TypeOK, TableTyped
<1>5. TableInv' BY <1>1 DEF BasicInv, TableInv
<1>6. registered \subseteq Conn /\ phase \in {"up", "stopping", "exited"}
  BY DEF BasicInv, TypeOK, HandlersTyped
<1> QED BY <1>1, <1>2, <1>3, <1>4, <1>5, <1>6, OtherBasic

LEMMA SweepBasic == ASSUME BasicInv, NEW p \in Path, Sweep(p) PROVE BasicInv'
<1>1. RemoveEntry(p, Sweeper) /\ UNCHANGED <<phase, registered, h, uploads, held, fileVars>>
  BY DEF Sweep
<1>2. Grows /\ \A i \in DOMAIN uploads : KeepsHeld(i)
  BY <1>1, SameUploads DEF KeepsHeld, BasicInv
<1>3. UploadsTyped' /\ UploadInv' /\ FilesTyped'
  BY <1>1 DEF BasicInv, TypeOK, UploadsTyped, UploadInv, FilesTyped, fileVars
<1>4. TableTyped' /\ TableInv' BY <1>1, RemoveFacts
<1>5. registered \subseteq Conn /\ phase \in {"up", "stopping", "exited"}
  BY DEF BasicInv, TypeOK, HandlersTyped
<1> QED BY <1>1, <1>2, <1>3, <1>4, <1>5, OtherBasic

LEMMA ProcessBasic ==
  ASSUME BasicInv, ShutdownSignal \/ Exit \/ \E c \in Conn : CloseOnShutdown(c)
  PROVE  BasicInv'
<1>1. registered \subseteq Conn /\ phase \in {"up", "stopping", "exited"}
  BY DEF BasicInv, TypeOK, HandlersTyped
<1>2. /\ UNCHANGED <<h, uploads, tableVars, held, fileVars>> /\ registered' \subseteq Conn
      /\ phase' \in {"up", "stopping", "exited"}
  BY <1>1 DEF ShutdownSignal, Exit, CloseOnShutdown
<1>3. FilesTyped' BY <1>2 DEF BasicInv, TypeOK, FilesTyped, fileVars
<1> QED BY <1>2, <1>3, OutsideBasic

LEMMA WorkBasic == ASSUME BasicInv, NEW c \in Conn, Work(c) PROVE BasicInv'
BY PeekBasic, StatBasic, CreateBasic, CreateFailsBasic, AddBasic, ReaddBasic, BlockLockBasic,
   WriteBasic, WriteFailsBasic, FinishBasic, RemoveAndAnswerBasic, ClearPeekBasic,
   ClearRemoveBasic, CloseBasic
   DEF Work

LEMMA MessageBasic == ASSUME BasicInv, NEW c \in Conn, Message(c) PROVE BasicInv'
<1>1. 0 \in 0..MaxBlocks /\ 1..MaxBlocks \subseteq 0..MaxBlocks BY FileUploadsAssumption
<1>2. ASSUME NEW p \in Home[c], NEW n \in Size, UploadLen(c, p, n) PROVE BasicInv'
  BY <1>2, UploadLenBasic
<1>3. ASSUME NEW p \in Path, CancelGet(c, p) PROVE BasicInv'
  BY <1>1, <1>3, GetBasic DEF CancelGet
<1>4. ASSUME NEW p \in Path, NEW n \in 1..MaxBlocks, BlockGet(c, p, n) PROVE BasicInv'
  BY <1>1, <1>4, GetBasic DEF BlockGet
<1>5. ASSUME NEW p \in Path, Delete(c, p) \/ CreateFolder(c, p) PROVE BasicInv'
  BY <1>5, FileOpsBasic
<1>6. ASSUME NEW p \in Path, NEW q \in Path, Rename(c, p, q) PROVE BasicInv'
  BY <1>6, FileOpsBasic
<1> QED BY <1>2, <1>3, <1>4, <1>5, <1>6 DEF Message

LEMMA NextBasic == BasicInv /\ [Next]_vars => BasicInv'
<1> SUFFICES ASSUME BasicInv, [Next]_vars PROVE BasicInv' OBVIOUS
<1>1. ASSUME NEW c \in Conn,
             Connect(c) \/ Message(c) \/ ReadFails(c) \/ Work(c) \/ CloseOnShutdown(c)
      PROVE  BasicInv'
  BY <1>1, ConnectBasic, MessageBasic, ReadFailsBasic, WorkBasic, ProcessBasic
<1>2. ASSUME NEW p \in Path, Expire(p) \/ Sweep(p) PROVE BasicInv'
  BY <1>2, ExpireBasic, SweepBasic
<1>3. CASE evictPendingUpload BY <1>3, EvictBasic
<1>4. CASE ShutdownSignal \/ Exit BY <1>4, ProcessBasic
<1>5. CASE UNCHANGED vars
  <2>1. /\ UNCHANGED <<h, uploads, tableVars, held, fileVars>> /\ phase' = phase
        /\ registered' = registered
    BY <1>5 DEF vars, tableVars, fileVars
  <2>2. registered \subseteq Conn /\ phase \in {"up", "stopping", "exited"} /\ FilesTyped
    BY DEF BasicInv, TypeOK, HandlersTyped
  <2>3. FilesTyped' BY <2>1, <2>2 DEF FilesTyped, fileVars
  <2> QED BY <2>1, <2>2, <2>3, OutsideBasic
<1> QED BY <1>1, <1>2, <1>3, <1>4, <1>5 DEF Next

LEMMA InitBasic == Init => BasicInv
<1> SUFFICES ASSUME Init PROVE BasicInv OBVIOUS
<1>1. [Idle EXCEPT !.pc = "none"] \in Handler
  <2>1. 0 \in 0..MaxUploads /\ 0 \in 0..MaxBlocks /\ <<>> \in Seq(Path) BY FileUploadsAssumption
  <2> QED BY <2>1 DEF Idle, Handler
<1>2. uploads = <<>> /\ Len(uploads) = 0 /\ DOMAIN uploads = {} BY DEF Init
<1>3. \A c \in Conn : h[c].pc = "none" /\ h[c].id = 0 BY DEF Init, Idle
<1>4. HandlersTyped BY <1>1, <1>2, <1>3 DEF Init, HandlersTyped
<1>5. UploadsTyped
  <2>1. <<>> \in Seq(Upload) OBVIOUS
  <2> QED BY <1>2, <2>1, FileUploadsAssumption DEF Init, UploadsTyped
<1>6. DOMAIN pending = {} /\ pending \in [{} -> DOMAIN uploads] /\ expired = {} /\ order = <<>>
      /\ lock = None
  BY DEF Init
<1>7. IsFiniteSet({}) /\ Cardinality({}) = 0 BY FS_EmptySet
<1>8. TableTyped
  <2>1. <<>> \in Seq(Path) /\ Range(<<>>) = {} /\ IsInjective(<<>>) BY DEF Range, IsInjective
  <2> QED BY <1>6, <1>7, <2>1, FileUploadsAssumption DEF TableTyped
<1>9. FilesTyped
  <2>1. <<>> \in Seq(0..MaxUploads) /\ Len(<<>>) <= MaxBlocks BY FileUploadsAssumption
  <2> QED BY <2>1 DEF Init, FilesTyped
<1>10. UploadInv /\ TableInv BY <1>2, <1>6, <1>7 DEF UploadInv, TableInv
<1>11. \A c \in Conn : Remembers(c) BY <1>3 DEF Remembers, Serving
<1> QED BY <1>4, <1>5, <1>8, <1>9, <1>10, <1>11 DEF BasicInv, TypeOK

LEMMA Basic == Spec => []BasicInv
<1> QED BY InitBasic, NextBasic, PTL DEF Spec

\* Everything is of its type at every moment; the table never lists a key twice
\* or one too many, and no file outgrows what its upload declared.
THEOREM TypeCorrect == Spec => []TypeOK
<1>1. BasicInv => TypeOK BY DEF BasicInv
<1> QED BY <1>1, Basic, PTL

-----------------------------------------------------------------------------
(* No descriptor is lost.  Clients upload to paths of their own and leave  *)
(* the paths of uploads alone; entries may expire or be evicted any time.  *)

OwnHomes == \A c, d \in Conn : c # d => Home[c] \cap Home[d] = {}

Undisturbed == OwnHomes /\ MayMeddle = "no"

\* A handler from the look-up of its upload to its answer.
Holding == Serving \ {"add"}

\* Who answers for an open upload: the table, the clean-up under way, or the
\* handler that is about to add it or to close it.
InTable(i) == uploads[i].path \in DOMAIN pending /\ pending[uploads[i].path] = i
Leaving(i) == lock # None /\ lock.id = i
AtHand(i)  == h[uploads[i].conn].id = i /\ h[uploads[i].conn].pc \in {"add", "finish"}

\* Once its client has left, an upload is expired or its key is still to come.
ToClear(i) ==
  h[uploads[i].conn].pc \in {"clear", "clearRemove", "closed"} =>
    \/ Leaving(i)
    \/ /\ InTable(i)
       /\ \/ uploads[i].path \in expired
          \/ /\ h[uploads[i].conn].pc # "closed"
             /\ uploads[i].path \in Range(h[uploads[i].conn].keys)

OpenKept(i) ==
  uploads[i].open =>
    /\ dir[uploads[i].path] = uploads[i].inode
    /\ InTable(i) \/ Leaving(i) \/ AtHand(i)
    /\ ToClear(i)

\* A file is created where none is; a new upload is not in the table before its
\* handler adds it; and the entry at a handler's path is its upload.
HandlerKept(c) ==
  /\ h[c].pc = "create" => dir[h[c].path] = None
  /\ h[c].pc = "add" => uploads[h[c].id].open /\ ~InTable(h[c].id) /\ ~Leaving(h[c].id)
  /\ (h[c].pc \in Holding /\ h[c].path \in DOMAIN pending) => pending[h[c].path] = h[c].id

\* There is one open upload at a path.
OneOpen ==
  \A i, j \in DOMAIN uploads :
    (uploads[i].open /\ uploads[j].open /\ uploads[i].path = uploads[j].path) => i = j

KeptInv ==
  /\ OneOpen
  /\ \A i \in DOMAIN uploads : OpenKept(i)
  /\ \A c \in Conn : HandlerKept(c)

LEMMA TableFacts ==
  ASSUME BasicInv
  PROVE  /\ \A p \in DOMAIN pending :
              /\ p \in Path /\ pending[p] \in DOMAIN uploads /\ uploads[pending[p]].path = p
         /\ lock # None => lock.id \in DOMAIN uploads
BY DEF BasicInv, TypeOK, TableTyped, TableInv

LEMMA OwnPath ==
  ASSUME BasicInv, NEW i \in DOMAIN uploads
  PROVE  /\ uploads[i].conn \in Conn /\ uploads[i].path \in Home[uploads[i].conn]
         /\ uploads[i].path \in Path /\ uploads[i].inode \in Ids /\ uploads[i].inode # None
<1>1. /\ uploads[i].conn \in Conn /\ uploads[i].path \in Path /\ uploads[i].inode \in Ids
  BY UploadFacts DEF BasicInv
<1>2. uploads[i].inode # None BY <1>1, FileUploadsAssumption DEF Ids
<1> QED BY <1>1, <1>2 DEF BasicInv, UploadInv

\* The handlers of two clients never have the same path or the same upload.
LEMMA Apart ==
  ASSUME BasicInv, OwnHomes, NEW c \in Conn, NEW d \in Conn, c # d
  PROVE  /\ \A i \in DOMAIN uploads : uploads[i].conn = d => uploads[i].path \notin Home[c]
         /\ h[d].pc \in Serving \cup {"peek", "stat", "create"} =>
              h[d].path \in Home[d] /\ h[d].path \notin Home[c]
         /\ (h[c].pc \in Serving /\ h[d].pc \in Serving) => h[c].id # h[d].id
<1>1. \A i \in DOMAIN uploads : uploads[i].path \in Home[uploads[i].conn] BY OwnPath
<1>2. Remembers(c) /\ Remembers(d) BY DEF BasicInv
<1> QED BY <1>1, <1>2 DEF OwnHomes, Remembers, Serving

\* The open uploads and the handlers are as in the properties.
LEMMA KeptImplies == ASSUME BasicInv, KeptInv PROVE DescriptorsKept
<1>1. ASSUME NEW i \in DOMAIN uploads, uploads[i].open
      PROVE  \/ \E p \in DOMAIN pending : pending[p] = i
             \/ lock # None /\ lock.id = i
             \/ \E c \in Conn : h[c].id = i /\ h[c].pc \in {"add", "finish"}
  <2>1. uploads[i].conn \in Conn BY OwnPath
  <2>2. InTable(i) \/ Leaving(i) \/ AtHand(i) BY <1>1 DEF KeptInv, OpenKept
  <2> QED BY <2>1, <2>2 DEF InTable, Leaving, AtHand
<1>2. ASSUME NEW i \in DOMAIN uploads, uploads[i].open, h[uploads[i].conn].pc = "closed"
      PROVE  (\E p \in expired : pending[p] = i) \/ (lock # None /\ lock.id = i)
  <2>1. Leaving(i) \/ (InTable(i) /\ uploads[i].path \in expired)
    BY <1>2 DEF KeptInv, OpenKept, ToClear
  <2> QED BY <2>1 DEF InTable, Leaving
<1> QED BY <1>1, <1>2 DEF DescriptorsKept, NoDescriptorLost, ClearedAtEnd

LEMMA InitKept == Init => KeptInv
<1> SUFFICES ASSUME Init PROVE KeptInv OBVIOUS
<1>1. DOMAIN uploads = {} /\ \A c \in Conn : h[c].pc = "none" BY DEF Init, Idle
<1> QED BY <1>1 DEF KeptInv, OneOpen, HandlerKept, Holding, Serving

\* A handler moves on; the uploads, the entries and the files stay.
LEMMA MoveKept ==
  ASSUME BasicInv, KeptInv, NEW c \in Conn, \A d \in Conn \ {c} : h'[d] = h[d],
         UNCHANGED <<uploads, pending, expired, lock, fileVars>>,
         h[c].pc \notin {"add", "finish"}, HandlerKept(c)',
         \A i \in DOMAIN uploads : (uploads[i].open /\ uploads[i].conn = c) => ToClear(i)'
  PROVE  KeptInv'
<1> USE DEF fileVars
<1>1. OneOpen' BY DEF KeptInv, OneOpen
<1>2. ASSUME NEW d \in Conn \ {c} PROVE HandlerKept(d)'
  <2>1. HandlerKept(d) BY DEF KeptInv
  <2> QED BY <2>1 DEF HandlerKept, InTable, Leaving
<1>3. ASSUME NEW i \in DOMAIN uploads, uploads[i].open PROVE OpenKept(i)'
  <2>1. /\ OpenKept(i) /\ uploads[i].conn \in Conn BY OwnPath DEF KeptInv
  <2>2. CASE uploads[i].conn = c
    <3>1. ~AtHand(i) BY <2>2 DEF AtHand
    <3>2. (InTable(i) \/ Leaving(i))' BY <1>3, <2>1, <3>1 DEF OpenKept, InTable, Leaving
    <3> QED BY <1>3, <2>1, <2>2, <3>2 DEF OpenKept
  <2>3. CASE uploads[i].conn # c
    <3>1. h'[uploads[i].conn] = h[uploads[i].conn] BY <2>1, <2>3
    <3> QED BY <2>1, <3>1 DEF OpenKept, InTable, Leaving, AtHand, ToClear
  <2> QED BY <2>2, <2>3
<1>4. \A i \in DOMAIN uploads' : OpenKept(i)'
  <2>1. DOMAIN uploads' = DOMAIN uploads /\ uploads' = uploads OBVIOUS
  <2> QED BY <1>3, <2>1 DEF OpenKept
<1> QED BY <1>1, <1>2, <1>4 DEF KeptInv


\* ... to where it holds on to nothing.
LEMMA RestKept ==
  ASSUME BasicInv, KeptInv, NEW c \in Conn, \A d \in Conn \ {c} : h'[d] = h[d],
         UNCHANGED <<uploads, pending, expired, lock, fileVars>>,
         h[c].pc \notin {"add", "finish"}, h'[c].pc \in {"read", "peek", "stat"}
  PROVE  KeptInv'
<1>1. HandlerKept(c)' BY DEF HandlerKept, Holding, Serving
<1>2. ASSUME NEW i \in DOMAIN uploads, uploads[i].conn = c PROVE ToClear(i)'
  <2>1. uploads'[i].conn = c BY <1>2
  <2> QED BY <2>1 DEF ToClear
<1> QED BY <1>1, <1>2, MoveKept

\* ... from one place where it holds on to its upload to another.
LEMMA HoldKept ==
  ASSUME BasicInv, KeptInv, NEW c \in Conn, \A d \in Conn \ {c} : h'[d] = h[d],
         UNCHANGED <<uploads, pending, expired, lock, fileVars>>,
         h[c].pc \in Holding, h[c].pc # "finish",
         h'[c].pc \in Holding, h'[c].path = h[c].path, h'[c].id = h[c].id
  PROVE  KeptInv'
<1>1. HandlerKept(c) BY DEF KeptInv
<1>2. HandlerKept(c)' BY <1>1 DEF HandlerKept, Holding, Serving
<1>3. ASSUME NEW i \in DOMAIN uploads, uploads[i].conn = c PROVE ToClear(i)'
  <2>1. uploads'[i].conn = c BY <1>3
  <2> QED BY <2>1 DEF ToClear, Holding, Serving
<1> QED BY <1>2, <1>3, MoveKept DEF Holding

LEMMA AnswersKept ==
  ASSUME BasicInv, KeptInv, NEW c \in Conn,
         \/ Connect(c)
         \/ \E p \in Home[c], n \in Size : UploadLen(c, p, n)
         \/ UploadPeek(c)
         \/ UploadCreateFails(c)
  PROVE  KeptInv'
<1>1. h \in [Conn -> Handler] BY HandlerFacts
<1>2. CASE Connect(c)
  <2>1. Answer(c) BY <1>2 DEF Connect, Answer
  <2>2. \A d \in Conn \ {c} : h'[d] = h[d] BY <1>1, <2>1, AnswerFacts
  <2>3. h'[c].pc = "read" BY <1>1, <2>1, AnswerFacts
  <2>4. h[c].pc = "none" /\ UNCHANGED <<uploads, pending, expired, lock, fileVars>>
    BY <1>2 DEF Connect, tableVars
  <2> QED BY <2>2, <2>3, <2>4, RestKept
<1>3. CASE \E p \in Home[c], n \in Size : UploadLen(c, p, n)
  <2>1. PICK p \in Home[c], n \in Size : UploadLen(c, p, n) BY <1>3
  <2> DEFINE r == [Idle EXCEPT !.pc = "peek", !.path = p, !.size = n]
  <2>2. /\ h[c].pc = "read" /\ h' = [h EXCEPT ![c] = r]
        /\ UNCHANGED <<uploads, pending, expired, lock, fileVars>>
    BY <2>1 DEF UploadLen, tableVars
  <2>3. r.pc = "peek" BY DEF Idle
  <2> HIDE DEF r
  <2>4. h'[c].pc = "peek" /\ \A d \in Conn \ {c} : h'[d] = h[d] BY <1>1, <2>2, <2>3
  <2> QED BY <2>2, <2>4, RestKept
<1>4. CASE UploadPeek(c)
  <2>1. h[c].pc = "peek" /\ UNCHANGED <<uploads, pending, expired, lock, fileVars>>
    BY <1>4 DEF UploadPeek, tableVars
  <2>2. Answer(c) \/ Goto(c, "stat") BY <1>4 DEF UploadPeek
  <2>3. h'[c].pc \in {"read", "stat"} BY <1>1, <2>2, AnswerFacts, GotoFacts
  <2>4. \A d \in Conn \ {c} : h'[d] = h[d] BY <1>1, <2>2, AnswerFacts, GotoFacts
  <2> QED BY <2>1, <2>3, <2>4, RestKept
<1>5. CASE UploadCreateFails(c)
  <2>1. h[c].pc = "create" /\ Answer(c) /\ UNCHANGED <<uploads, pending, expired, lock, fileVars>>
    BY <1>5 DEF UploadCreateFails, tableVars
  <2>2. \A d \in Conn \ {c} : h'[d] = h[d] BY <1>1, <2>1, AnswerFacts
  <2>3. h'[c].pc = "read" BY <1>1, <2>1, AnswerFacts
  <2> QED BY <2>1, <2>2, <2>3, RestKept
<1> QED BY <1>2, <1>3, <1>4, <1>5

LEMMA StatKept == ASSUME BasicInv, KeptInv, NEW c \in Conn, UploadStat(c) PROVE KeptInv'
<1>1. h \in [Conn -> Handler] BY HandlerFacts
<1>2. h[c].pc = "stat" /\ UNCHANGED <<uploads, pending, expired, lock, fileVars>>
  BY DEF UploadStat, tableVars
<1>3. CASE dir[h[c].path] # None
  <2>1. Answer(c) BY <1>3 DEF UploadStat
  <2>2. h'[c].pc = "read" /\ \A d \in Conn \ {c} : h'[d] = h[d] BY <1>1, <2>1, AnswerFacts
  <2> QED BY <1>2, <2>2, RestKept
<1>4. CASE dir[h[c].path] = None
  <2>1. Goto(c, "create") BY <1>4 DEF UploadStat
  <2>2. h'[c].pc = "create" /\ h'[c].path = h[c].path BY <1>1, <2>1, GotoFacts
  <2>3. \A d \in Conn \ {c} : h'[d] = h[d] BY <1>1, <2>1, GotoFacts
  <2>4. HandlerKept(c)' BY <1>2, <1>4, <2>2 DEF HandlerKept, Holding, Serving, fileVars
  <2>5. ASSUME NEW i \in DOMAIN uploads, uploads[i].conn = c PROVE ToClear(i)'
    <3>1. uploads'[i].conn = c BY <1>2, <2>5
    <3> QED BY <2>2, <3>1 DEF ToClear
  <2> QED BY <1>2, <2>3, <2>4, <2>5, MoveKept
<1> QED BY <1>3, <1>4

LEMMA GetKept ==
  ASSUME BasicInv, KeptInv, NEW c \in Conn, NEW p \in Path, NEW pc \in {"readd", "remove"},
         NEW n \in 0..MaxBlocks, Get(c, p, pc, n)
  PROVE  KeptInv'
<1> DEFINE r == [Idle EXCEPT !.pc = pc, !.path = p, !.id = pending[p], !.size = n]
<1>1. h \in [Conn -> Handler] BY HandlerFacts
<1>2. /\ h[c].pc = "read" /\ h' = [h EXCEPT ![c] = r]
      /\ UNCHANGED <<uploads, pending, expired, lock, fileVars>>
  BY DEF Get
<1>3. r.pc = pc /\ r.path = p /\ r.id = pending[p] BY DEF Idle
<1> HIDE DEF r
<1>4. h'[c] = r /\ \A d \in Conn \ {c} : h'[d] = h[d] BY <1>1, <1>2
<1>5. HandlerKept(c)' BY <1>2, <1>3, <1>4 DEF HandlerKept, Holding, Serving
<1>6. ASSUME NEW i \in DOMAIN uploads, uploads[i].conn = c PROVE ToClear(i)'
  <2>1. uploads'[i].conn = c BY <1>2, <1>6
  <2> QED BY <1>3, <1>4, <2>1 DEF ToClear
<1> QED BY <1>2, <1>4, <1>5, <1>6, MoveKept

LEMMA LockKept ==
  ASSUME BasicInv, KeptInv, NEW c \in Conn, BlockLock(c) \/ BlockWriteFails(c)
  PROVE  KeptInv'
<1>1. h \in [Conn -> Handler] BY HandlerFacts
<1>2. h[c].pc \in {"lock", "write"} /\ UNCHANGED <<uploads, pending, expired, lock, fileVars>>
  BY DEF BlockLock, BlockWriteFails, tableVars
<1>3. CASE Answer(c)
  <2>1. h'[c].pc = "read" /\ \A d \in Conn \ {c} : h'[d] = h[d] BY <1>1, <1>3, AnswerFacts
  <2> QED BY <1>2, <2>1, RestKept
<1>4. ASSUME NEW pc \in {"remove", "write"}, Goto(c, pc) PROVE KeptInv'
  <2>1. \A d \in Conn \ {c} : h'[d] = h[d] BY <1>1, <1>4, GotoFacts
  <2>2. h'[c].pc = pc /\ h'[c].path = h[c].path /\ h'[c].id = h[c].id BY <1>1, <1>4, GotoFacts
  <2> QED BY <1>2, <2>1, <2>2, HoldKept DEF Holding, Serving
<1> QED BY <1>3, <1>4 DEF BlockLock, BlockWriteFails

\* The client has left: whatever it has open is in the table, and its key is noted
\* unless it has expired.
LEMMA ReadFailsKept == ASSUME BasicInv, KeptInv, NEW c \in Conn, ReadFails(c) PROVE KeptInv'
<1> DEFINE keys == Only(order, DOMAIN pending \ expired)
           r == [h[c] EXCEPT !.pc = "clear", !.keys = keys]
<1>1. /\ h[c].pc = "read" /\ lock = None /\ h' = [h EXCEPT ![c] = r]
      /\ UNCHANGED <<uploads, pending, expired, lock, fileVars>>
  BY DEF ReadFails, LockFree, tableVars
<1>2. order \in Seq(Path) /\ Range(order) = DOMAIN pending BY DEF BasicInv, TypeOK, TableTyped
<1>3. keys \in Seq(Path) /\ Range(keys) = DOMAIN pending \ expired BY <1>2, OnlyFacts
<1> HIDE DEF keys
<1>4. h \in [Conn -> Handler] BY HandlerFacts
<1>5. h'[c].pc = "clear" /\ h'[c].keys = keys BY <1>1, <1>3, <1>4, KeysFacts
<1>6. \A d \in Conn \ {c} : h'[d] = h[d] BY <1>1, <1>3, <1>4, KeysFacts
<1>7. HandlerKept(c)' BY <1>5 DEF HandlerKept, Holding, Serving
<1>8. ASSUME NEW i \in DOMAIN uploads, uploads[i].open, uploads[i].conn = c PROVE ToClear(i)'
  <2>1. InTable(i) BY <1>1, <1>8 DEF KeptInv, OpenKept, Leaving, AtHand
  <2>2. uploads[i].path \in expired \/ uploads[i].path \in Range(keys) BY <1>3, <2>1 DEF InTable
  <2> QED BY <1>1, <1>5, <1>8, <2>1, <2>2 DEF ToClear, InTable
<1> QED BY <1>1, <1>6, <1>7, <1>8, MoveKept

LEMMA ClearPeekKept == ASSUME BasicInv, KeptInv, NEW c \in Conn, ClearPeek(c) PROVE KeptInv'
<1> DEFINE p == Head(h[c].keys)
<1>1. /\ h[c].pc = "clear" /\ h[c].keys # <<>> /\ lock = None
      /\ UNCHANGED <<uploads, pending, expired, lock, fileVars>>
  BY DEF ClearPeek, LockFree, tableVars
<1>2. h \in [Conn -> Handler] /\ h[c].keys \in Seq(Path) BY HandlerFacts
<1>3. ASSUME NEW i \in DOMAIN uploads, uploads[i].open, uploads[i].conn = c
      PROVE  /\ InTable(i)
             /\ uploads[i].path \in expired \/ uploads[i].path \in Range(h[c].keys)
  BY <1>1, <1>3 DEF KeptInv, OpenKept, ToClear, Leaving
<1>4. CASE Live(p) /\ uploads[pending[p]].conn = c
  <2>1. Goto(c, "clearRemove") BY <1>4 DEF ClearPeek
  <2>2. h'[c].pc = "clearRemove" /\ h'[c].keys = h[c].keys BY <1>2, <2>1, GotoFacts
  <2>3. \A d \in Conn \ {c} : h'[d] = h[d] BY <1>2, <2>1, GotoFacts
  <2>4. HandlerKept(c)' BY <2>2 DEF HandlerKept, Holding, Serving
  <2>5. ASSUME NEW i \in DOMAIN uploads, uploads[i].open, uploads[i].conn = c PROVE ToClear(i)'
    BY <1>1, <1>3, <2>2, <2>5 DEF ToClear, InTable
  <2> QED BY <1>1, <2>3, <2>4, <2>5, MoveKept
<1>5. CASE ~(Live(p) /\ uploads[pending[p]].conn = c)
  <2>1. NextKey(c) BY <1>5 DEF ClearPeek
  <2>2. h'[c].pc = "clear" /\ h'[c].keys = Tail(h[c].keys) BY <1>1, <2>1, NextKeyFacts
  <2>3. \A d \in Conn \ {c} : h'[d] = h[d] BY <1>1, <2>1, NextKeyFacts
  <2>4. HandlerKept(c)' BY <2>2 DEF HandlerKept, Holding, Serving
  <2>5. Range(h[c].keys) = Range(Tail(h[c].keys)) \cup {p} BY <1>1, <1>2, TailHeadFacts
  <2>6. ASSUME NEW i \in DOMAIN uploads, uploads[i].open, uploads[i].conn = c PROVE ToClear(i)'
    <3>1. uploads[i].path = p => uploads[i].path \in expired
      BY <1>3, <1>5, <2>6 DEF InTable, Live
    <3>2. uploads[i].path \in expired \/ uploads[i].path \in Range(Tail(h[c].keys))
      BY <1>3, <2>5, <2>6, <3>1
    <3> QED BY <1>1, <1>3, <2>2, <2>6, <3>2 DEF ToClear, InTable
  <2> QED BY <1>1, <2>3, <2>4, <2>6, MoveKept
<1> QED BY <1>4, <1>5

LEMMA CloseKept == ASSUME BasicInv, KeptInv, NEW c \in Conn, CloseConn(c) PROVE KeptInv'
<1>1. /\ h[c].pc = "clear" /\ h[c].keys = <<>> /\ Goto(c, "closed")
      /\ UNCHANGED <<uploads, pending, expired, lock, fileVars>>
  BY DEF CloseConn, tableVars
<1>2. h \in [Conn -> Handler] BY HandlerFacts
<1>3. h'[c].pc = "closed" /\ \A d \in Conn \ {c} : h'[d] = h[d] BY <1>1, <1>2, GotoFacts
<1>4. HandlerKept(c)' BY <1>3 DEF HandlerKept, Holding, Serving
<1>5. ASSUME NEW i \in DOMAIN uploads, uploads[i].open, uploads[i].conn = c PROVE ToClear(i)'
  <2>1. Range(h[c].keys) = {} BY <1>1 DEF Range
  <2>2. Leaving(i) \/ (InTable(i) /\ uploads[i].path \in expired)
    BY <1>1, <1>5, <2>1 DEF KeptInv, OpenKept, ToClear
  <2> QED BY <1>1, <1>3, <1>5, <2>2 DEF ToClear, InTable, Leaving
<1> QED BY <1>1, <1>3, <1>4, <1>5, MoveKept

\* A step of the process.
LEMMA StillKept ==
  ASSUME KeptInv, UNCHANGED <<h, uploads, pending, expired, lock, fileVars>>
  PROVE  KeptInv'
BY DEF KeptInv, OneOpen, OpenKept, HandlerKept, InTable, Leaving, AtHand, ToClear, fileVars

LEMMA ExpireKept == ASSUME BasicInv, KeptInv, NEW p \in Path, Expire(p) PROVE KeptInv'
<1>1. expired \subseteq expired' /\ UNCHANGED <<h, uploads, pending, lock, fileVars>> BY DEF Expire
<1>2. OneOpen' BY <1>1 DEF KeptInv, OneOpen
<1>3. \A i \in DOMAIN uploads' : OpenKept(i)'
  BY <1>1 DEF KeptInv, OpenKept, InTable, Leaving, AtHand, ToClear, fileVars
<1>4. \A c \in Conn : HandlerKept(c)' BY <1>1 DEF KeptInv, HandlerKept, InTable, Leaving, fileVars
<1> QED BY <1>2, <1>3, <1>4 DEF KeptInv

\* An entry is added for the upload of the handler of c.
LEMMA AddKept ==
  ASSUME BasicInv, KeptInv, OwnHomes, NEW c \in Conn, NEW p, NEW i, p = h[c].path, i = h[c].id,
         Adds(p, i, c), UNCHANGED <<uploads, fileVars>>, \A d \in Conn \ {c} : h'[d] = h[d],
         h[c].pc \in {"add", "readd"}, h'[c].pc \in {"read", "lock"},
         h'[c].pc = "lock" => h'[c].path = p /\ h'[c].id = i
  PROVE  KeptInv'
<1> USE DEF fileVars
<1>1. /\ i \in DOMAIN uploads /\ uploads[i].conn = c /\ uploads[i].path = p
  BY DEF BasicInv, Remembers, Serving
<1>2. /\ lock = None
      /\ \A q \in DOMAIN pending' :
           \/ q = p /\ pending'[q] = i
           \/ q # p /\ q \in DOMAIN pending /\ pending'[q] = pending[q]
      /\ expired' = (expired \ {p}) \cap DOMAIN pending'
  BY DEF Adds
<1>3. p \in Home[c] BY <1>1, OwnPath
<1>4. OneOpen' BY DEF KeptInv, OneOpen
<1>5. ASSUME NEW j \in DOMAIN uploads, uploads[j].open
      PROVE  j # i => InTable(j) \/ AtHand(j)
  BY <1>2, <1>5 DEF KeptInv, OpenKept, Leaving
<1>6. ASSUME NEW j \in DOMAIN uploads, uploads[j].open, j # i, InTable(j)
      PROVE  uploads[j].path # p
  <2> SUFFICES ASSUME uploads[j].path = p PROVE FALSE OBVIOUS
  <2>1. HandlerKept(c) /\ OneOpen BY DEF KeptInv
  <2>2. CASE h[c].pc = "add"
    <3>1. uploads[i].open BY <2>1, <2>2 DEF HandlerKept
    <3> QED BY <1>1, <1>6, <2>1, <3>1 DEF OneOpen
  <2>3. CASE h[c].pc = "readd"
    <3>1. pending[p] = i BY <1>6, <2>1, <2>3 DEF HandlerKept, Holding, Serving, InTable
    <3> QED BY <1>6, <3>1 DEF InTable
  <2> QED BY <2>2, <2>3
<1>7. ASSUME NEW j \in DOMAIN uploads, uploads[j].path # p, InTable(j)
      PROVE  InTable(j)' \/ Leaving(j)'
  <2>1. CASE DOMAIN pending' = DOMAIN pending \cup {p} /\ lock' = None
    BY <1>2, <1>7, <2>1 DEF InTable
  <2>2. CASE \E q \in DOMAIN pending \cup {p} :
               /\ DOMAIN pending' = (DOMAIN pending \cup {p}) \ {q}
               /\ lock' # None /\ lock'.by = c /\ lock'.id = IF q = p THEN i ELSE pending[q]
    BY <1>2, <1>7, <2>2 DEF InTable, Leaving
  <2> QED BY <2>1, <2>2 DEF Adds
<1>8. InTable(i)' \/ Leaving(i)'
  <2>1. CASE DOMAIN pending' = DOMAIN pending \cup {p} /\ lock' = None
    BY <1>1, <1>2, <2>1 DEF InTable
  <2>2. CASE \E q \in DOMAIN pending \cup {p} :
               /\ DOMAIN pending' = (DOMAIN pending \cup {p}) \ {q}
               /\ lock' # None /\ lock'.by = c /\ lock'.id = IF q = p THEN i ELSE pending[q]
    BY <1>1, <1>2, <2>2 DEF InTable, Leaving
  <2> QED BY <2>1, <2>2 DEF Adds
<1>9. ASSUME NEW j \in DOMAIN uploads, uploads[j].open PROVE OpenKept(j)'
  <2>1. uploads[j].conn \in Conn /\ OpenKept(j) BY OwnPath DEF KeptInv
  <2>2. CASE uploads[j].conn = c
    <3>1. ToClear(j)' BY <2>2 DEF ToClear
    <3>2. j = i \/ InTable(j) BY <1>5, <1>9, <2>2 DEF AtHand
    <3>3. InTable(j)' \/ Leaving(j)' BY <1>6, <1>7, <1>8, <1>9, <3>2
    <3> QED BY <2>1, <3>1, <3>3, <1>9 DEF OpenKept
  <2>3. CASE uploads[j].conn # c
    <3>1. h'[uploads[j].conn] = h[uploads[j].conn] BY <2>1, <2>3
    <3>2. j # i /\ uploads[j].path # p
      <4>1. uploads[j].path \notin Home[c] BY <2>1, <2>3, Apart
      <4> QED BY <1>1, <1>3, <2>3, <4>1
    <3>3. AtHand(j) => AtHand(j)' BY <3>1 DEF AtHand
    <3>4. InTable(j)' \/ Leaving(j)' \/ AtHand(j)' BY <1>5, <1>7, <1>9, <3>2, <3>3
    <3>5. ToClear(j)'
      <4> SUFFICES ASSUME h[uploads[j].conn].pc \in {"clear", "clearRemove", "closed"}
                   PROVE  ToClear(j)'
        BY <3>1 DEF ToClear
      <4>1. /\ InTable(j)
            /\ \/ uploads[j].path \in expired
               \/ /\ h[uploads[j].conn].pc # "closed"
                  /\ uploads[j].path \in Range(h[uploads[j].conn].keys)
        BY <1>2, <1>9, <2>1 DEF OpenKept, ToClear, Leaving
      <4>2. InTable(j)' \/ Leaving(j)' BY <1>7, <3>2, <4>1
      <4>3. InTable(j)' => uploads[j].path \in DOMAIN pending' BY DEF InTable
      <4>4. (InTable(j)' /\ uploads[j].path \in expired) => uploads[j].path \in expired'
        BY <1>2, <3>2, <4>3
      <4> QED BY <3>1, <4>1, <4>2, <4>4 DEF ToClear
    <3> QED BY <1>9, <2>1, <3>4, <3>5 DEF OpenKept
  <2> QED BY <2>2, <2>3
<1>10. ASSUME NEW d \in Conn PROVE HandlerKept(d)'
  <2>1. CASE d = c BY <1>2, <2>1 DEF HandlerKept, Holding, Serving
  <2>2. CASE d # c
    <3>1. HandlerKept(d) /\ h'[d] = h[d] BY <2>2 DEF KeptInv
    <3>2. h[d].pc \in Serving => h[d].path # p /\ h[d].id # i
      BY <1>3, <2>2, Apart DEF Serving
    <3>3. (h[d].pc \in Holding /\ h[d].path \in DOMAIN pending') => pending'[h[d].path] = h[d].id
      BY <1>2, <3>1, <3>2 DEF HandlerKept, Holding
    <3>4. h[d].pc = "add" => ~InTable(h[d].id)' /\ ~Leaving(h[d].id)'
      <4> SUFFICES ASSUME h[d].pc = "add" PROVE ~InTable(h[d].id)' /\ ~Leaving(h[d].id)'
        OBVIOUS
      <4>1. h[d].id # i /\ ~InTable(h[d].id) /\ uploads[h[d].id].path = h[d].path /\ h[d].path # p
        BY <3>1, <3>2 DEF HandlerKept, Serving, BasicInv, Remembers
      <4>2. ~InTable(h[d].id)' BY <1>2, <3>1, <4>1 DEF InTable
      <4>3. ASSUME NEW q \in DOMAIN pending, pending[q] = h[d].id PROVE FALSE
        <5>1. uploads[h[d].id].path = q BY <4>3 DEF BasicInv, TableInv
        <5> QED BY <4>1, <4>3, <5>1 DEF InTable
      <4>4. ~Leaving(h[d].id)' BY <3>1, <4>1, <4>3 DEF Leaving, Adds
      <4> QED BY <4>2, <4>4
    <3> QED BY <3>1, <3>3, <3>4 DEF HandlerKept
  <2> QED BY <2>1, <2>2
<1>11. \A j \in DOMAIN uploads' : OpenKept(j)'
  <2>1. DOMAIN uploads' = DOMAIN uploads /\ uploads' = uploads OBVIOUS
  <2> QED BY <1>9, <2>1 DEF OpenKept
<1> QED BY <1>4, <1>10, <1>11 DEF KeptInv

LEMMA AddsKept ==
  ASSUME BasicInv, KeptInv, OwnHomes, NEW c \in Conn, UploadAdd(c) \/ BlockAdd(c)
  PROVE  KeptInv'
<1>1. /\ h[c].pc \in {"add", "readd"} /\ AddEntry(h[c].path, h[c].id, c)
      /\ UNCHANGED <<uploads, fileVars>>
      /\ Answer(c) \/ Goto(c, "lock")
  BY DEF UploadAdd, BlockAdd
<1>2. h[c].id \in DOMAIN uploads /\ uploads[h[c].id].path = h[c].path
  BY <1>1 DEF BasicInv, Remembers, Serving
<1>3. h[c].path \in Path BY <1>2, UploadFacts DEF BasicInv
<1>4. Adds(h[c].path, h[c].id, c) BY <1>1, <1>2, <1>3, AddFacts
<1>5. h \in [Conn -> Handler] BY HandlerFacts
<1>6. \A d \in Conn \ {c} : h'[d] = h[d] BY <1>1, <1>5, GotoFacts, AnswerFacts
<1>7. /\ h'[c].pc \in {"read", "lock"}
      /\ h'[c].pc = "lock" => h'[c].path = h[c].path /\ h'[c].id = h[c].id
  BY <1>1, <1>5, GotoFacts, AnswerFacts
<1> QED BY <1>1, <1>4, <1>6, <1>7, AddKept

\* An entry, if there is one at p, leaves the table.
LEMMA RemoveKept ==
  ASSUME BasicInv, KeptInv, NEW p, NEW by, Removes(p, by), UNCHANGED <<uploads, fileVars>>,
         \A d \in Conn :
           \/ h'[d] = h[d]
           \/ h[d].pc \notin {"add", "finish"} /\ h'[d].pc = "read"
           \/ /\ h[d].pc = "clearRemove" /\ h'[d].pc = "clear"
              /\ Range(h[d].keys) \subseteq Range(h'[d].keys) \cup {p}
  PROVE  KeptInv'
<1> USE DEF fileVars
<1>1. lock = None BY DEF Removes
<1>2. OneOpen' BY DEF KeptInv, OneOpen
<1>3. /\ \A q \in DOMAIN pending' : q \in DOMAIN pending /\ pending'[q] = pending[q]
      /\ lock' = None \/ (p \in DOMAIN pending /\ lock'.id = pending[p])
  BY <1>1 DEF Removes, tableVars
<1>4. ASSUME NEW j \in DOMAIN uploads, InTable(j)
      PROVE  \/ Leaving(j)'
             \/ /\ InTable(j)' /\ uploads[j].path # p
                /\ uploads[j].path \in expired => uploads[j].path \in expired'
  <2>1. CASE p \in DOMAIN pending
    <3>1. CASE uploads[j].path = p BY <1>4, <2>1, <3>1 DEF Removes, InTable, Leaving
    <3>2. CASE uploads[j].path # p BY <1>4, <2>1, <3>2 DEF Removes, InTable
    <3> QED BY <3>1, <3>2
  <2>2. CASE p \notin DOMAIN pending BY <1>4, <2>2 DEF Removes, InTable, tableVars
  <2> QED BY <2>1, <2>2
<1>5. ASSUME NEW j \in DOMAIN uploads, uploads[j].open PROVE OpenKept(j)'
  <2> DEFINE d == uploads[j].conn
  <2>1. d \in Conn /\ OpenKept(j) BY OwnPath DEF KeptInv
  <2>2. InTable(j) \/ AtHand(j) BY <1>1, <1>5, <2>1 DEF OpenKept, Leaving
  <2>3. AtHand(j) => AtHand(j)'
    <3> SUFFICES ASSUME AtHand(j) PROVE AtHand(j)' OBVIOUS
    <3>1. h'[d] = h[d] BY <2>1 DEF AtHand
    <3> QED BY <3>1 DEF AtHand
  <2>4. ToClear(j)'
    <3> SUFFICES ASSUME h'[d].pc \in {"clear", "clearRemove", "closed"} PROVE ToClear(j)'
      BY DEF ToClear
    <3>1. /\ h[d].pc \in {"clear", "clearRemove", "closed"}
          /\ h'[d].pc = "closed" => h[d].pc = "closed"
          /\ Range(h[d].keys) \subseteq Range(h'[d].keys) \cup {p}
      BY <2>1
    <3>2. /\ InTable(j)
          /\ \/ uploads[j].path \in expired
             \/ h[d].pc # "closed" /\ uploads[j].path \in Range(h[d].keys)
      BY <1>1, <1>5, <2>1, <3>1 DEF OpenKept, ToClear, Leaving
    <3>3. h'[d].pc # "closed" \/ h[d].pc = "closed" BY <3>1
    <3> QED BY <1>4, <3>1, <3>2, <3>3 DEF ToClear
  <2> QED BY <1>4, <1>5, <2>1, <2>2, <2>3, <2>4 DEF OpenKept
<1>6. ASSUME NEW d \in Conn PROVE HandlerKept(d)'
  <2>1. HandlerKept(d) BY DEF KeptInv
  <2>2. CASE h'[d] = h[d]
    <3>1. (h[d].pc \in Holding /\ h[d].path \in DOMAIN pending') => pending'[h[d].path] = h[d].id
      BY <1>3, <2>1 DEF HandlerKept
    <3>2. h[d].pc = "add" => ~InTable(h[d].id)' /\ ~Leaving(h[d].id)'
      <4> SUFFICES ASSUME h[d].pc = "add" PROVE ~InTable(h[d].id)' /\ ~Leaving(h[d].id)'
        OBVIOUS
      <4>1. ~InTable(h[d].id) BY <2>1 DEF HandlerKept
      <4>2. ~InTable(h[d].id)' BY <1>3, <4>1 DEF InTable
      <4>3. ASSUME p \in DOMAIN pending, pending[p] = h[d].id PROVE FALSE
        <5>1. uploads[h[d].id].path = p BY <4>3 DEF BasicInv, TableInv
        <5> QED BY <4>1, <4>3, <5>1 DEF InTable
      <4>4. ~Leaving(h[d].id)' BY <1>3, <4>3 DEF Leaving
      <4> QED BY <4>2, <4>4
    <3> QED BY <2>1, <2>2, <3>1, <3>2 DEF HandlerKept
  <2>3. CASE h'[d].pc \in {"read", "clear"} BY <2>3 DEF HandlerKept, Holding, Serving
  <2> QED BY <2>2, <2>3
<1>7. \A j \in DOMAIN uploads' : OpenKept(j)'
  <2>1. DOMAIN uploads' = DOMAIN uploads /\ uploads' = uploads OBVIOUS
  <2> QED BY <1>5, <2>1 DEF OpenKept
<1> QED BY <1>2, <1>6, <1>7 DEF KeptInv

LEMMA RemovesKept ==
  ASSUME BasicInv, KeptInv,
         \/ \E c \in Conn : RemoveAndAnswer(c) \/ ClearRemove(c)
         \/ \E p \in Path : Sweep(p)
  PROVE  KeptInv'
<1>1. ASSUME NEW c \in Conn, RemoveAndAnswer(c) PROVE KeptInv'
  <2>1. /\ h[c].pc \in {"remove", "ack"} /\ RemoveEntry(h[c].path, c) /\ Answer(c)
        /\ UNCHANGED <<uploads, fileVars>>
    BY <1>1 DEF RemoveAndAnswer
  <2>2. h \in [Conn -> Handler] BY HandlerFacts
  <2>3. h'[c].pc = "read" /\ \A d \in Conn \ {c} : h'[d] = h[d] BY <2>1, <2>2, AnswerFacts
  <2>4. Removes(h[c].path, c) BY <2>1, RemoveFacts
  <2> QED BY <2>1, <2>3, <2>4, RemoveKept
<1>2. ASSUME NEW c \in Conn, ClearRemove(c) PROVE KeptInv'
  <2>1. /\ h[c].pc = "clearRemove" /\ RemoveEntry(Head(h[c].keys), c) /\ NextKey(c)
        /\ UNCHANGED <<uploads, fileVars>>
    BY <1>2 DEF ClearRemove
  <2>2. h[c].keys # <<>> /\ h[c].keys \in Seq(Path) BY <2>1, HandlerFacts DEF Remembers
  <2>3. h'[c].pc = "clear" /\ h'[c].keys = Tail(h[c].keys) BY <2>1, <2>2, NextKeyFacts
  <2>4. \A d \in Conn \ {c} : h'[d] = h[d] BY <2>1, <2>2, NextKeyFacts
  <2>5. Range(h[c].keys) = Range(h'[c].keys) \cup {Head(h[c].keys)} BY <2>2, <2>3, TailHeadFacts
  <2>6. Removes(Head(h[c].keys), c) BY <2>1, RemoveFacts
  <2> QED BY <2>1, <2>3, <2>4, <2>5, <2>6, RemoveKept
<1>3. ASSUME NEW p \in Path, Sweep(p) PROVE KeptInv'
  <2>1. RemoveEntry(p, Sweeper) /\ UNCHANGED <<h, uploads, fileVars>> BY <1>3 DEF Sweep
  <2>2. Removes(p, Sweeper) BY <2>1, RemoveFacts
  <2> QED BY <2>1, <2>2, RemoveKept
<1> QED BY <1>1, <1>2, <1>3

\* The upload that was leaving is cleaned: no other one is open at its path.
LEMMA EvictKept == ASSUME BasicInv, KeptInv, evictPendingUpload PROVE KeptInv'
<1>1. PICK i : i = lock.id OBVIOUS
<1>2. /\ lock # None /\ i \notin held /\ Cleanup(i, TRUE) /\ lock' = None
      /\ UNCHANGED <<h, pending, expired>>
  BY <1>1 DEF evictPendingUpload
<1>3. i \in DOMAIN uploads BY <1>1, <1>2, TableFacts
<1>4. Cleans(i, TRUE) BY <1>2, <1>3, CleanupFacts
<1>5. /\ DOMAIN uploads' = DOMAIN uploads /\ ~uploads'[i].open
      /\ \A j \in DOMAIN uploads \ {i} : uploads'[j] = uploads[j]
      /\ \A j \in DOMAIN uploads : uploads'[j].path = uploads[j].path
  BY <1>4 DEF Cleans
<1>6. \A x \in Path : dir'[x] = dir[x] \/ (uploads[i].open /\ x = uploads[i].path /\ dir'[x] = None)
  <2>1. dir \in [Path -> Ids \cup {None, Folder}] BY DEF BasicInv, TypeOK, FilesTyped
  <2>2. dir' = IF uploads[i].open /\ TRUE THEN [dir EXCEPT ![uploads[i].path] = None] ELSE dir
    BY <1>4 DEF Cleans
  <2> QED BY <2>1, <2>2
<1>7. OneOpen' BY <1>5 DEF KeptInv, OneOpen
<1>8. ASSUME NEW j \in DOMAIN uploads \ {i}, uploads[j].open PROVE OpenKept(j)'
  <2>1. uploads[j].path \in Path /\ OpenKept(j) /\ OneOpen BY OwnPath DEF KeptInv
  <2>2. dir'[uploads[j].path] = dir[uploads[j].path] BY <1>3, <1>6, <1>8, <2>1 DEF OneOpen
  <2>3. ~Leaving(j) BY <1>1 DEF Leaving
  <2>4. uploads'[j] = uploads[j] BY <1>5
  <2> QED BY <1>2, <1>8, <2>1, <2>2, <2>3, <2>4 DEF OpenKept, InTable, AtHand, ToClear
<1>9. \A j \in DOMAIN uploads' : OpenKept(j)' BY <1>5, <1>8 DEF OpenKept
<1>10. ASSUME NEW d \in Conn PROVE HandlerKept(d)'
  <2>1. HandlerKept(d) /\ Home[d] \subseteq Path BY HandlerFacts DEF KeptInv
  <2>2. h[d].pc = "create" => dir'[h[d].path] = None
    BY <1>6, <2>1 DEF HandlerKept, BasicInv, Remembers
  <2>3. h[d].pc = "add" => h[d].id \in DOMAIN uploads BY DEF BasicInv, Remembers, Serving
  <2>4. h[d].pc = "add" => h[d].id # i BY <1>1, <1>2, <2>1 DEF HandlerKept, Leaving
  <2> QED BY <1>2, <1>5, <2>1, <2>2, <2>3, <2>4 DEF HandlerKept, InTable, Leaving
<1> QED BY <1>7, <1>9, <1>10 DEF KeptInv

LEMMA FinishKept ==
  ASSUME BasicInv, KeptInv, OwnHomes, NEW c \in Conn, BlockFinish(c)
  PROVE  KeptInv'
<1>1. PICK i : i = h[c].id OBVIOUS
<1>2. /\ h[c].pc = "finish" /\ Cleanup(i, FALSE) /\ Goto(c, "ack")
      /\ UNCHANGED <<pending, expired, lock>>
  BY <1>1 DEF BlockFinish, tableVars
<1>3. i \in DOMAIN uploads BY <1>1, <1>2 DEF BasicInv, Remembers, Serving
<1>4. Cleans(i, FALSE) BY <1>2, <1>3, CleanupFacts
<1>5. /\ DOMAIN uploads' = DOMAIN uploads /\ ~uploads'[i].open
      /\ \A j \in DOMAIN uploads \ {i} : uploads'[j] = uploads[j]
      /\ \A j \in DOMAIN uploads : uploads'[j].path = uploads[j].path
      /\ dir' = dir
  BY <1>4 DEF Cleans
<1>6. h \in [Conn -> Handler] BY HandlerFacts
<1>7. h'[c].pc = "ack" /\ h'[c].path = h[c].path /\ h'[c].id = i BY <1>1, <1>2, <1>6, GotoFacts
<1>8. \A d \in Conn \ {c} : h'[d] = h[d] BY <1>2, <1>6, GotoFacts
<1>9. OneOpen' BY <1>5 DEF KeptInv, OneOpen
<1>10. ASSUME NEW j \in DOMAIN uploads \ {i}, uploads[j].open PROVE OpenKept(j)'
  <2>1. uploads[j].conn \in Conn /\ OpenKept(j) BY OwnPath DEF KeptInv
  <2>2. uploads'[j] = uploads[j] BY <1>5
  <2>3. CASE uploads[j].conn = c
    <3>1. ~AtHand(j) BY <1>1, <2>3 DEF AtHand
    <3> QED BY <1>2, <1>5, <1>7, <1>10, <2>1, <2>2, <2>3, <3>1
            DEF OpenKept, InTable, Leaving, ToClear
  <2>4. CASE uploads[j].conn # c
    <3>1. h'[uploads[j].conn] = h[uploads[j].conn] BY <1>8, <2>1, <2>4
    <3> QED BY <1>2, <1>5, <1>10, <2>1, <2>2, <3>1 DEF OpenKept, InTable, Leaving, AtHand, ToClear
  <2> QED BY <2>3, <2>4
<1>11. \A j \in DOMAIN uploads' : OpenKept(j)' BY <1>5, <1>10 DEF OpenKept
<1>12. ASSUME NEW d \in Conn PROVE HandlerKept(d)'
  <2>1. HandlerKept(d) BY DEF KeptInv
  <2>2. CASE d = c BY <1>1, <1>2, <1>7, <2>1, <2>2 DEF HandlerKept, Holding, Serving
  <2>3. CASE d # c
    <3>1. h'[d] = h[d] BY <1>8, <2>3
    <3>2. h[d].pc = "add" => h[d].id \in DOMAIN uploads /\ h[d].id # i
      BY <1>1, <1>2, <2>3, Apart DEF BasicInv, Remembers, Serving
    <3> QED BY <1>2, <1>5, <2>1, <3>1, <3>2 DEF HandlerKept, InTable, Leaving
  <2> QED BY <2>2, <2>3
<1> QED BY <1>9, <1>11, <1>12 DEF KeptInv

\* The file of a new upload is new.
LEMMA CreateKept ==
  ASSUME BasicInv, KeptInv, OwnHomes, NEW c \in Conn, UploadCreate(c)
  PROVE  KeptInv'
<1>1. PICK p, i : p = h[c].path /\ i = Len(uploads) + 1 OBVIOUS
<1>2. Creates(c, p, i) BY <1>1, CreateUpload
<1>3. /\ h[c].pc = "create" /\ p \in Home[c] /\ p \in Path
      /\ i \notin DOMAIN uploads /\ DOMAIN uploads' = DOMAIN uploads \cup {i}
      /\ \A j \in DOMAIN uploads : uploads'[j] = uploads[j]
      /\ uploads'[i].conn = c /\ uploads'[i].path = p /\ (uploads'[i].open <=> h[c].size > 0)
      /\ dir' = [dir EXCEPT ![p] = uploads'[i].inode]
  BY <1>2 DEF Creates
<1>4. \A d \in Conn \ {c} : h'[d] = h[d] BY CreateHandler
<1>5. \/ h[c].size = 0 /\ h'[c].pc = "read" /\ h'[c].id = 0
      \/ h[c].size > 0 /\ h'[c].pc = "add" /\ h'[c].id = i /\ h'[c].path = p
  BY <1>1, CreateHandler
<1>6. UNCHANGED <<pending, expired, lock>> BY DEF UploadCreate, tableVars
<1>7. dir[p] = None BY <1>1, <1>3 DEF KeptInv, HandlerKept
<1>8. \A j \in DOMAIN uploads : uploads[j].open => uploads[j].path # p
  <2>1. \A j \in DOMAIN uploads : uploads[j].inode # None BY OwnPath
  <2> QED BY <1>7, <2>1 DEF KeptInv, OpenKept
<1>9. \A x \in Path : dir'[x] = IF x = p THEN uploads'[i].inode ELSE dir[x]
  <2>1. dir \in [Path -> Ids \cup {None, Folder}] BY DEF BasicInv, TypeOK, FilesTyped
  <2> QED BY <1>3, <2>1
<1>10. OneOpen' BY <1>3, <1>8 DEF KeptInv, OneOpen
<1>11. ASSUME NEW j \in DOMAIN uploads, uploads[j].open PROVE OpenKept(j)'
  <2>1. uploads[j].conn \in Conn /\ uploads[j].path \in Path /\ OpenKept(j) BY OwnPath DEF KeptInv
  <2>2. uploads'[j] = uploads[j] /\ dir'[uploads[j].path] = dir[uploads[j].path]
    BY <1>3, <1>8, <1>9, <1>11, <2>1
  <2>3. CASE uploads[j].conn = c
    <3>1. ~AtHand(j) /\ ToClear(j)' BY <1>3, <1>5, <2>2, <2>3 DEF AtHand, ToClear
    <3> QED BY <1>6, <1>11, <2>1, <2>2, <3>1 DEF OpenKept, InTable, Leaving
  <2>4. CASE uploads[j].conn # c
    <3>1. h'[uploads[j].conn] = h[uploads[j].conn] BY <1>4, <2>1, <2>4
    <3> QED BY <1>6, <1>11, <2>1, <2>2, <3>1 DEF OpenKept, InTable, Leaving, AtHand, ToClear
  <2> QED BY <2>3, <2>4
<1>12. OpenKept(i)'
  <2> SUFFICES ASSUME uploads'[i].open PROVE OpenKept(i)' BY DEF OpenKept
  <2>1. h'[c].pc = "add" /\ h'[c].id = i BY <1>3, <1>5, HandlerFacts
  <2>2. AtHand(i)' /\ ToClear(i)' BY <1>3, <2>1 DEF AtHand, ToClear
  <2>3. dir'[uploads'[i].path] = uploads'[i].inode BY <1>3, <1>9
  <2> QED BY <2>2, <2>3 DEF OpenKept
<1>13. \A j \in DOMAIN uploads' : OpenKept(j)' BY <1>3, <1>11, <1>12 DEF OpenKept
<1>14. ASSUME NEW d \in Conn PROVE HandlerKept(d)'
  <2>1. HandlerKept(d) /\ Home[d] \subseteq Path BY HandlerFacts DEF KeptInv
  <2>2. CASE d = c
    <3>1. ~InTable(i)' /\ ~Leaving(i)' BY <1>3, <1>6, TableFacts DEF InTable, Leaving
    <3> QED BY <1>3, <1>5, <2>2, <3>1 DEF HandlerKept, Holding, Serving
  <2>3. CASE d # c
    <3>1. h'[d] = h[d] BY <1>4, <2>3
    <3>2. h[d].pc = "create" => h[d].path \in Path /\ h[d].path # p
      BY <1>3, <2>1, <2>3, Apart
    <3>3. h[d].pc = "add" => h[d].id \in DOMAIN uploads BY DEF BasicInv, Remembers, Serving
    <3> QED BY <1>3, <1>6, <1>9, <2>1, <3>1, <3>2, <3>3 DEF HandlerKept, InTable, Leaving
  <2> QED BY <2>2, <2>3
<1> QED BY <1>10, <1>13, <1>14 DEF KeptInv

LEMMA WriteKept == ASSUME BasicInv, KeptInv, NEW c \in Conn, BlockWrite(c) PROVE KeptInv'
<1>1. PICK i : i = h[c].id OBVIOUS
<1>2. Writes(c, i) BY <1>1, WriteFacts
<1>3. /\ h[c].pc = "write" /\ i \in DOMAIN uploads /\ DOMAIN uploads' = DOMAIN uploads
      /\ \A j \in DOMAIN uploads :
           /\ uploads'[j].conn = uploads[j].conn /\ uploads'[j].path = uploads[j].path
           /\ uploads'[j].inode = uploads[j].inode
      /\ \A j \in DOMAIN uploads : uploads'[j].open => uploads[j].open
      /\ \A j \in DOMAIN uploads : uploads[j].open => uploads'[j].open
      /\ UNCHANGED <<pending, expired, lock, dir>>
  BY <1>2 DEF Writes, tableVars
<1>4. \A d \in Conn \ {c} : h'[d] = h[d] BY <1>2 DEF Writes
<1>5. h'[c].pc = "read" \/ (h'[c].pc = "finish" /\ h'[c].id = i /\ h'[c].path = h[c].path)
  BY <1>2 DEF Writes
<1>6. OneOpen' BY <1>3 DEF KeptInv, OneOpen
<1>7. ASSUME NEW j \in DOMAIN uploads PROVE OpenKept(j)'
  <2>1. uploads[j].conn \in Conn /\ OpenKept(j) BY OwnPath DEF KeptInv
  <2>2. CASE uploads[j].conn = c
    <3>1. ~AtHand(j) /\ ToClear(j)' BY <1>3, <1>5, <2>2 DEF AtHand, ToClear
    <3> QED BY <1>3, <2>1, <3>1 DEF OpenKept, InTable, Leaving
  <2>3. CASE uploads[j].conn # c
    <3>1. h'[uploads[j].conn] = h[uploads[j].conn] BY <1>4, <2>1, <2>3
    <3> QED BY <1>3, <2>1, <3>1 DEF OpenKept, InTable, Leaving, AtHand, ToClear
  <2> QED BY <2>2, <2>3
<1>8. ASSUME NEW d \in Conn PROVE HandlerKept(d)'
  <2>1. HandlerKept(d) BY DEF KeptInv
  <2>2. CASE d = c BY <1>1, <1>3, <1>5, <2>1, <2>2 DEF HandlerKept, Holding, Serving
  <2>3. CASE d # c
    <3>1. h'[d] = h[d] BY <1>4, <2>3
    <3>2. h[d].pc = "add" => h[d].id \in DOMAIN uploads BY DEF BasicInv, Remembers, Serving
    <3> QED BY <1>3, <2>1, <3>1, <3>2 DEF HandlerKept, InTable, Leaving
  <2> QED BY <2>2, <2>3
<1> QED BY <1>3, <1>6, <1>7, <1>8 DEF KeptInv

\* Files are renamed and deleted only where nothing is being uploaded.
LEMMA FileOpsKept ==
  ASSUME BasicInv, KeptInv, MayMeddle = "no", NEW c \in Conn, NEW p \in Path, NEW q \in Path,
         Rename(c, p, q) \/ Delete(c, p) \/ CreateFolder(c, p)
  PROVE  KeptInv'
<1>1. /\ UNCHANGED <<h, uploads, pending, expired, lock>> /\ ~BeingUploaded(p)
      /\ dir'[q] = dir[q] \/ ~BeingUploaded(q)
  <2>1. dir \in [Path -> Ids \cup {None, Folder}] BY DEF BasicInv, TypeOK, FilesTyped
  <2> QED BY <2>1 DEF Rename, Delete, CreateFolder, Touchable, tableVars
<1>2. \A x \in Path : ~BeingUploaded(x) \/ dir'[x] = dir[x]
  <2>1. dir \in [Path -> Ids \cup {None, Folder}] BY DEF BasicInv, TypeOK, FilesTyped
  <2>2. \A x \in Path \ {p, q} : dir'[x] = dir[x] BY <2>1 DEF Rename, Delete, CreateFolder
  <2> QED BY <1>1, <2>2
<1>3. OneOpen' BY <1>1 DEF KeptInv, OneOpen
<1>4. ASSUME NEW i \in DOMAIN uploads, uploads[i].open PROVE OpenKept(i)'
  <2>1. uploads[i].conn \in Conn /\ uploads[i].path \in Path /\ OpenKept(i) BY OwnPath DEF KeptInv
  <2>2. AtHand(i) => h[uploads[i].conn].path = uploads[i].path
    BY <2>1 DEF AtHand, BasicInv, Remembers, Serving
  <2>3. BeingUploaded(uploads[i].path)
    BY <1>4, <2>1, <2>2 DEF OpenKept, InTable, Leaving, AtHand, BeingUploaded
  <2>4. dir'[uploads[i].path] = dir[uploads[i].path] BY <1>2, <2>1, <2>3
  <2> QED BY <1>1, <2>1, <2>4 DEF OpenKept, InTable, Leaving, AtHand, ToClear
<1>5. \A i \in DOMAIN uploads' : OpenKept(i)' BY <1>1, <1>4 DEF OpenKept
<1>6. ASSUME NEW d \in Conn PROVE HandlerKept(d)'
  <2>1. HandlerKept(d) /\ Home[d] \subseteq Path BY HandlerFacts DEF KeptInv
  <2>2. h[d].pc = "create" => dir'[h[d].path] = dir[h[d].path]
    BY <1>2, <2>1 DEF BeingUploaded, BasicInv, Remembers
  <2> QED BY <1>1, <2>1, <2>2 DEF HandlerKept, InTable, Leaving
<1> QED BY <1>3, <1>5, <1>6 DEF KeptInv

LEMMA NextKept == ASSUME Undisturbed, BasicInv, KeptInv, [Next]_vars PROVE KeptInv'
<1>1. OwnHomes /\ MayMeddle = "no" BY DEF Undisturbed
<1>2. ASSUME NEW c \in Conn, Work(c) PROVE KeptInv'
  BY <1>1, <1>2, AnswersKept, StatKept, CreateKept, AddsKept, LockKept, WriteKept, FinishKept,
     RemovesKept, ClearPeekKept, CloseKept DEF Work
<1>3. ASSUME NEW c \in Conn, Message(c) PROVE KeptInv'
  <2>1. CASE \E p \in Home[c], n \in Size : UploadLen(c, p, n) BY <2>1, AnswersKept
  <2>2. CASE \E p \in Path : CancelGet(c, p)
    <3>1. PICK p \in Path : Get(c, p, "remove", 0) BY <2>2 DEF CancelGet
    <3>2. 0 \in 0..MaxBlocks BY FileUploadsAssumption
    <3> QED BY <3>1, <3>2, GetKept
  <2>3. CASE \E p \in Path, n \in 1..MaxBlocks : BlockGet(c, p, n)
    <3>1. PICK p \in Path, n \in 1..MaxBlocks : Get(c, p, "readd", n) BY <2>3 DEF BlockGet
    <3>2. n \in 0..MaxBlocks BY FileUploadsAssumption
    <3> QED BY <3>1, <3>2, GetKept
  <2>4. CASE \E p \in Path : Delete(c, p) \/ CreateFolder(c, p) BY <1>1, <2>4, FileOpsKept
  <2>5. CASE \E p, q \in Path : Rename(c, p, q) BY <1>1, <2>5, FileOpsKept
  <2> QED BY <1>3, <2>1, <2>2, <2>3, <2>4, <2>5 DEF Message
<1>4. ASSUME ShutdownSignal \/ Exit \/ \E c \in Conn : CloseOnShutdown(c) PROVE KeptInv'
  BY <1>4, StillKept DEF ShutdownSignal, Exit, CloseOnShutdown, tableVars
<1>5. CASE UNCHANGED vars BY <1>5, StillKept DEF vars, tableVars
<1>6. CASE Next
  BY <1>2, <1>3, <1>4, <1>6, AnswersKept, ReadFailsKept, ExpireKept, RemovesKept, EvictKept DEF Next
<1> QED BY <1>5, <1>6

LEMMA Kept == Undisturbed => (Spec => [](BasicInv /\ KeptInv))
<1> SUFFICES ASSUME Undisturbed PROVE Spec => [](BasicInv /\ KeptInv) OBVIOUS
<1>1. Init => BasicInv /\ KeptInv BY InitBasic, InitKept
<1>2. BasicInv /\ KeptInv /\ [Next]_vars => (BasicInv /\ KeptInv)' BY NextBasic, NextKept
<1> QED BY <1>1, <1>2, PTL DEF Spec

\* While an upload's file is open, the table leads to it or a step that adds or
\* closes it is under way; once its client has left, only the sweeper or an
\* eviction is still to close it.  For any capacity and any delays.
THEOREM NothingLost == Undisturbed => (Spec => []DescriptorsKept)
<1> SUFFICES ASSUME Undisturbed PROVE Spec => []DescriptorsKept OBVIOUS
<1>1. Spec => [](BasicInv /\ KeptInv) BY Kept
<1>2. BasicInv /\ KeptInv => DescriptorsKept BY KeptImplies
<1> QED BY <1>1, <1>2, PTL

-----------------------------------------------------------------------------
(* What is stored.  When no write outlasts the validity time of an entry   *)
(* and there is room for every upload, an entry that a handler has renewed *)
(* stays until the handler is done.                                        *)

NeverFull ==
  LET paths == UNION {Home[c] : c \in Conn}
  IN IsFiniteSet(paths) /\ Cardinality(paths) <= Capacity

Orderly == Undisturbed /\ ~MayStall /\ NeverFull

\* n blocks of upload i.
Filled(n, i) == [k \in 1..n |-> i]

\* An upload's file is its own: the blocks it has received, and nothing else.
Blocks(i) == uploads[i].inode = i /\ data[i] = Filled(uploads[i].BytesReceived, i)

\* Where a handler has renewed its entry, and is still to end with it.
Renewed == {"lock", "write", "finish", "ack"}

\* The entry of such a handler stays; the upload it finishes is complete.
Served(c) ==
  h[c].pc \in Renewed =>
    /\ h[c].path \in DOMAIN pending \ expired /\ pending[h[c].path] = h[c].id
    /\ lock # None => uploads[lock.id].path # h[c].path
    /\ h[c].pc \in {"finish", "ack"} => uploads[h[c].id].BytesReceived = uploads[h[c].id].FileSize
    /\ h[c].pc = "finish" => uploads[h[c].id].open
    /\ h[c].pc = "ack" => dir[h[c].path] = h[c].id

StoredInv == (\A i \in DOMAIN uploads : Blocks(i)) /\ (\A c \in Conn : Served(c))

\* There is room in the table, whoever adds what.
LEMMA Room ==
  ASSUME BasicInv, NeverFull, NEW c \in Conn, NEW p \in Home[c], NEW i, Adds(p, i, c)
  PROVE  DOMAIN pending' = DOMAIN pending \cup {p} /\ lock' = None
<1> DEFINE paths == UNION {Home[d] : d \in Conn}
           keys == DOMAIN pending \cup {p}
<1>1. keys \subseteq paths
  <2>1. \A q \in DOMAIN pending : pending[q] \in DOMAIN uploads /\ uploads[pending[q]].path = q
    BY TableFacts
  <2>2. \A j \in DOMAIN uploads : uploads[j].path \in Home[uploads[j].conn] /\ uploads[j].conn \in Conn
    BY OwnPath
  <2> QED BY <2>1, <2>2
<1>2. IsFiniteSet(paths) /\ Cardinality(paths) <= Capacity BY DEF NeverFull
<1> HIDE DEF paths, keys
<1>3. /\ IsFiniteSet(keys) /\ Cardinality(keys) <= Cardinality(paths)
  BY <1>1, <1>2, FS_Subset
<1>4. Cardinality(keys) \in Nat /\ Cardinality(paths) \in Nat /\ Capacity \in Nat
  BY <1>2, <1>3, FS_CardinalityType, FileUploadsAssumption
<1>5. ~(Cardinality(keys) > Capacity) BY <1>2, <1>3, <1>4
<1> QED BY <1>5 DEF Adds, keys

\* What is enough for a handler that does nothing.
LEMMA ServedSame ==
  ASSUME NEW d \in Conn, Served(d), h'[d] = h[d],
         h[d].pc \in Renewed =>
           /\ h[d].path \in DOMAIN pending' \ expired' /\ pending'[h[d].path] = pending[h[d].path]
           /\ lock' # None => uploads'[lock'.id].path # h[d].path
           /\ uploads'[h[d].id] = uploads[h[d].id] /\ dir'[h[d].path] = dir[h[d].path]
  PROVE  Served(d)'
BY DEF Served

LEMMA InitStored == Init => StoredInv
<1> SUFFICES ASSUME Init PROVE StoredInv OBVIOUS
<1>1. DOMAIN uploads = {} /\ \A c \in Conn : h[c].pc = "none" BY DEF Init, Idle
<1> QED BY <1>1 DEF StoredInv, Served, Renewed, Serving

\* A handler moves on; the uploads, the entries and the files stay.
LEMMA MoveStored ==
  ASSUME BasicInv, StoredInv, NEW c \in Conn, \A d \in Conn \ {c} : h'[d] = h[d],
         UNCHANGED <<uploads, pending, expired, lock, fileVars>>,
         h'[c].pc \in Renewed =>
           /\ h[c].pc \in Renewed /\ h'[c].pc \notin {"finish", "ack"}
           /\ h'[c].path = h[c].path /\ h'[c].id = h[c].id
  PROVE  StoredInv'
<1> USE DEF fileVars
<1>1. \A i \in DOMAIN uploads' : Blocks(i)' BY DEF StoredInv, Blocks
<1>2. ASSUME NEW d \in Conn \ {c} PROVE Served(d)'
  <2>1. Served(d) BY DEF StoredInv
  <2> QED BY <2>1 DEF Served
<1>3. Served(c)'
  <2>1. Served(c) BY DEF StoredInv
  <2> QED BY <2>1 DEF Served
<1> QED BY <1>1, <1>2, <1>3 DEF StoredInv

LEMMA AnswersStored ==
  ASSUME BasicInv, StoredInv, NEW c \in Conn,
         \/ Connect(c)
         \/ \E p \in Home[c], n \in Size : UploadLen(c, p, n)
         \/ UploadPeek(c) \/ UploadStat(c) \/ UploadCreateFails(c)
         \/ ReadFails(c) \/ ClearPeek(c) \/ CloseConn(c)
  PROVE  StoredInv'
<1> USE DEF Renewed, Serving
<1>1. h \in [Conn -> Handler] /\ h[c].keys \in Seq(Path) BY HandlerFacts
<1>2. UNCHANGED <<uploads, pending, expired, lock, fileVars>>
  BY DEF Connect, UploadLen, UploadPeek, UploadStat, UploadCreateFails, ReadFails, ClearPeek,
         CloseConn, tableVars
<1>3. CASE \/ Connect(c) \/ UploadPeek(c) \/ UploadStat(c) \/ UploadCreateFails(c) \/ CloseConn(c)
  <2>1. Answer(c) \/ \E pc \in {"stat", "create", "closed"} : Goto(c, pc)
    BY <1>3 DEF Connect, UploadPeek, UploadStat, UploadCreateFails, CloseConn, Answer
  <2>2. h'[c].pc \notin Renewed BY <1>1, <2>1, AnswerFacts, GotoFacts
  <2>3. \A d \in Conn \ {c} : h'[d] = h[d] BY <1>1, <2>1, AnswerFacts, GotoFacts
  <2> QED BY <1>2, <2>2, <2>3, MoveStored
<1>4. CASE \E p \in Home[c], n \in Size : UploadLen(c, p, n)
  <2>1. PICK p \in Home[c], n \in Size : UploadLen(c, p, n) BY <1>4
  <2> DEFINE r == [Idle EXCEPT !.pc = "peek", !.path = p, !.size = n]
  <2>2. h' = [h EXCEPT ![c] = r] BY <2>1 DEF UploadLen
  <2>3. r.pc = "peek" BY DEF Idle
  <2> HIDE DEF r
  <2>4. h'[c].pc = "peek" /\ \A d \in Conn \ {c} : h'[d] = h[d] BY <1>1, <2>2, <2>3
  <2> QED BY <1>2, <2>4, MoveStored
<1>5. CASE ReadFails(c)
  <2> DEFINE keys == Only(order, DOMAIN pending \ expired)
             r == [h[c] EXCEPT !.pc = "clear", !.keys = keys]
  <2>1. h' = [h EXCEPT ![c] = r] BY <1>5 DEF ReadFails
  <2>2. order \in Seq(Path) BY DEF BasicInv, TypeOK, TableTyped
  <2>3. keys \in Seq(Path) BY <2>2, OnlyFacts
  <2> HIDE DEF keys
  <2>4. h'[c].pc = "clear" BY <1>1, <2>1, <2>3, KeysFacts
  <2>5. \A d \in Conn \ {c} : h'[d] = h[d] BY <1>1, <2>1, <2>3, KeysFacts
  <2> QED BY <1>2, <2>4, <2>5, MoveStored
<1>6. CASE ClearPeek(c)
  <2>1. h[c].keys # <<>> /\ (Goto(c, "clearRemove") \/ NextKey(c)) BY <1>6 DEF ClearPeek
  <2>2. h'[c].pc \in {"clear", "clearRemove"} BY <1>1, <2>1, GotoFacts, NextKeyFacts
  <2>3. \A d \in Conn \ {c} : h'[d] = h[d] BY <1>1, <2>1, GotoFacts, NextKeyFacts
  <2> QED BY <1>2, <2>2, <2>3, MoveStored
<1> QED BY <1>3, <1>4, <1>5, <1>6

LEMMA GetStored ==
  ASSUME BasicInv, StoredInv, NEW c \in Conn, NEW p \in Path, NEW pc \in {"readd", "remove"},
         NEW n \in 0..MaxBlocks, Get(c, p, pc, n)
  PROVE  StoredInv'
<1> DEFINE r == [Idle EXCEPT !.pc = pc, !.path = p, !.id = pending[p], !.size = n]
<1>1. h \in [Conn -> Handler] BY HandlerFacts
<1>2. h' = [h EXCEPT ![c] = r] /\ UNCHANGED <<uploads, pending, expired, lock, fileVars>>
  BY DEF Get
<1>3. r.pc = pc BY DEF Idle
<1> HIDE DEF r
<1>4. h'[c] = r /\ \A d \in Conn \ {c} : h'[d] = h[d] BY <1>1, <1>2
<1>5. h'[c].pc \notin Renewed BY <1>3, <1>4 DEF Renewed
<1> QED BY <1>2, <1>4, <1>5, MoveStored

LEMMA LockStored ==
  ASSUME BasicInv, StoredInv, NEW c \in Conn, BlockLock(c) \/ BlockWriteFails(c)
  PROVE  StoredInv'
<1> USE DEF Renewed, Serving
<1>1. h \in [Conn -> Handler] BY HandlerFacts
<1>2. h[c].pc \in {"lock", "write"} /\ UNCHANGED <<uploads, pending, expired, lock, fileVars>>
  BY DEF BlockLock, BlockWriteFails, tableVars
<1>3. CASE Answer(c)
  <2>1. h'[c].pc = "read" /\ \A d \in Conn \ {c} : h'[d] = h[d] BY <1>1, <1>3, AnswerFacts
  <2> QED BY <1>2, <2>1, MoveStored
<1>4. ASSUME NEW pc \in {"remove", "write"}, Goto(c, pc) PROVE StoredInv'
  <2>1. \A d \in Conn \ {c} : h'[d] = h[d] BY <1>1, <1>4, GotoFacts
  <2>2. h'[c].pc = pc /\ h'[c].path = h[c].path /\ h'[c].id = h[c].id BY <1>1, <1>4, GotoFacts
  <2> QED BY <1>2, <2>1, <2>2, MoveStored
<1> QED BY <1>3, <1>4 DEF BlockLock, BlockWriteFails

LEMMA AddsStored ==
  ASSUME BasicInv, StoredInv, OwnHomes, NeverFull, NEW c \in Conn, UploadAdd(c) \/ BlockAdd(c)
  PROVE  StoredInv'
<1> USE DEF fileVars
<1>1. PICK p, i : p = h[c].path /\ i = h[c].id OBVIOUS
<1>2. /\ h[c].pc \in {"add", "readd"} /\ AddEntry(p, i, c) /\ UNCHANGED <<uploads, fileVars>>
      /\ Answer(c) \/ (h[c].pc = "readd" /\ Goto(c, "lock"))
  BY <1>1 DEF UploadAdd, BlockAdd
<1>3. i \in DOMAIN uploads /\ uploads[i].path = p /\ uploads[i].conn = c
  BY <1>1, <1>2 DEF BasicInv, Remembers, Serving
<1>4. p \in Home[c] /\ p \in Path BY <1>3, OwnPath
<1>5. Adds(p, i, c) BY <1>2, <1>3, <1>4, AddFacts
<1>6. /\ DOMAIN pending' = DOMAIN pending \cup {p} /\ lock' = None
      /\ \A q \in DOMAIN pending' :
           \/ q = p /\ pending'[q] = i
           \/ q # p /\ q \in DOMAIN pending /\ pending'[q] = pending[q]
      /\ expired' = (expired \ {p}) \cap DOMAIN pending'
  BY <1>4, <1>5, Room DEF Adds
<1>7. h \in [Conn -> Handler] BY HandlerFacts
<1>8. \A d \in Conn \ {c} : h'[d] = h[d] BY <1>2, <1>7, GotoFacts, AnswerFacts
<1>9. h'[c].pc = "read" \/ (h'[c].pc = "lock" /\ h'[c].path = p /\ h'[c].id = i)
  BY <1>1, <1>2, <1>7, GotoFacts, AnswerFacts
<1>10. Served(c)' BY <1>6, <1>9 DEF Served, Renewed, Serving
<1>11. ASSUME NEW d \in Conn \ {c} PROVE Served(d)'
  <2>1. Served(d) /\ h'[d] = h[d] BY <1>8 DEF StoredInv
  <2>2. h[d].pc \in Renewed => h[d].path # p BY <1>4, Apart DEF Renewed, Serving
  <2> QED BY <1>2, <1>6, <2>1, <2>2, ServedSame DEF Served
<1>12. \A j \in DOMAIN uploads' : Blocks(j)' BY <1>2 DEF StoredInv, Blocks
<1> QED BY <1>10, <1>11, <1>12 DEF StoredInv

\* The entry at p leaves: the handlers that go on have another one.
LEMMA RemoveStored ==
  ASSUME BasicInv, StoredInv, NEW p, NEW by, Removes(p, by), UNCHANGED <<uploads, fileVars>>,
         \A d \in Conn :
           \/ h'[d] = h[d] /\ (h[d].pc \in Renewed => h[d].path # p)
           \/ h'[d].pc \notin Renewed
  PROVE  StoredInv'
<1> USE DEF fileVars
<1>1. \A j \in DOMAIN uploads' : Blocks(j)' BY DEF StoredInv, Blocks
<1>2. ASSUME NEW d \in Conn PROVE Served(d)'
  <2>1. Served(d) BY DEF StoredInv
  <2>2. CASE h'[d].pc \notin Renewed BY <2>2 DEF Served
  <2>3. CASE h'[d] = h[d] /\ (h[d].pc \in Renewed => h[d].path # p)
    <3>1. ASSUME h[d].pc \in Renewed
          PROVE  /\ h[d].path \in DOMAIN pending' \ expired'
                 /\ pending'[h[d].path] = pending[h[d].path]
                 /\ lock' # None => uploads'[lock'.id].path # h[d].path
      <4>1. CASE p \in DOMAIN pending
        <5>1. uploads[pending[p]].path = p BY <4>1, TableFacts
        <5> QED BY <2>1, <2>3, <3>1, <4>1, <5>1 DEF Removes, Served
      <4>2. CASE p \notin DOMAIN pending
        BY <2>1, <2>3, <3>1, <4>2 DEF Removes, Served, tableVars
      <4> QED BY <4>1, <4>2
    <3> QED BY <2>1, <2>3, <3>1, ServedSame
  <2> QED BY <2>2, <2>3
<1> QED BY <1>1, <1>2 DEF StoredInv

LEMMA RemovesStored ==
  ASSUME BasicInv, StoredInv, OwnHomes,
         \/ \E c \in Conn : RemoveAndAnswer(c) \/ ClearRemove(c)
         \/ \E p \in Path : Sweep(p)
  PROVE  StoredInv'
<1>1. \A c, d \in Conn :
        (c # d /\ h[d].pc \in Renewed) => \A p \in Home[c] : h[d].path # p
  BY Apart DEF Renewed, Serving
<1>2. ASSUME NEW c \in Conn, RemoveAndAnswer(c) PROVE StoredInv'
  <2>1. /\ h[c].pc \in {"remove", "ack"} /\ RemoveEntry(h[c].path, c) /\ Answer(c)
        /\ UNCHANGED <<uploads, fileVars>>
    BY <1>2 DEF RemoveAndAnswer
  <2>2. h \in [Conn -> Handler] BY HandlerFacts
  <2>3. h'[c].pc \notin Renewed BY <2>1, <2>2, AnswerFacts DEF Renewed, Serving
  <2>4. \A d \in Conn \ {c} : h'[d] = h[d] BY <2>1, <2>2, AnswerFacts
  <2>5. Removes(h[c].path, c) BY <2>1, RemoveFacts
  <2>6. h[c].path \in Home[c]
    <3>1. /\ h[c].id \in DOMAIN uploads /\ uploads[h[c].id].conn = c
          /\ uploads[h[c].id].path = h[c].path
      BY <2>1 DEF BasicInv, Remembers, Serving
    <3> QED BY <3>1, OwnPath
  <2> QED BY <1>1, <2>1, <2>3, <2>4, <2>5, <2>6, RemoveStored
<1>3. ASSUME NEW c \in Conn, ClearRemove(c) PROVE StoredInv'
  <2>1. /\ h[c].pc = "clearRemove" /\ RemoveEntry(Head(h[c].keys), c) /\ NextKey(c)
        /\ UNCHANGED <<uploads, fileVars>>
    BY <1>3 DEF ClearRemove
  <2>2. h[c].keys # <<>> /\ Head(h[c].keys) \in Home[c] BY <2>1, HandlerFacts DEF Remembers
  <2>3. h'[c].pc \notin Renewed BY <2>1, <2>2, NextKeyFacts DEF Renewed, Serving
  <2>4. \A d \in Conn \ {c} : h'[d] = h[d] BY <2>1, <2>2, NextKeyFacts
  <2>5. Removes(Head(h[c].keys), c) BY <2>1, RemoveFacts
  <2> QED BY <1>1, <2>1, <2>2, <2>3, <2>4, <2>5, RemoveStored
<1>4. ASSUME NEW p \in Path, Sweep(p) PROVE StoredInv'
  <2>1. p \in expired /\ RemoveEntry(p, Sweeper) /\ UNCHANGED <<h, uploads, fileVars>>
    BY <1>4 DEF Sweep
  <2>2. Removes(p, Sweeper) BY <2>1, RemoveFacts
  <2>3. \A d \in Conn : h[d].pc \in Renewed => h[d].path # p BY <2>1 DEF StoredInv, Served
  <2> QED BY <2>1, <2>2, <2>3, RemoveStored
<1> QED BY <1>2, <1>3, <1>4

\* An entry does not expire while a handler is at work on it.
LEMMA ExpireStored ==
  ASSUME BasicInv, StoredInv, ~MayStall, NEW p \in Path, Expire(p)
  PROVE  StoredInv'
<1> USE DEF fileVars
<1>1. /\ expired' = expired \cup {p} /\ UNCHANGED <<h, uploads, pending, lock, fileVars>>
      /\ \A d \in Conn : h[d].pc \in Renewed => h[d].path # p
  BY DEF Expire, Renewed, Serving
<1>2. \A j \in DOMAIN uploads' : Blocks(j)' BY <1>1 DEF StoredInv, Blocks
<1>3. \A d \in Conn : Served(d)' BY <1>1 DEF StoredInv, Served
<1> QED BY <1>2, <1>3 DEF StoredInv

LEMMA StillStored ==
  ASSUME StoredInv, UNCHANGED <<h, uploads, pending, expired, lock, fileVars>>
  PROVE  StoredInv'
BY DEF StoredInv, Served, Blocks, fileVars

LEMMA EvictStored == ASSUME BasicInv, StoredInv, evictPendingUpload PROVE StoredInv'
<1>1. PICK i : i = lock.id OBVIOUS
<1>2. /\ lock # None /\ Cleanup(i, TRUE) /\ lock' = None /\ UNCHANGED <<h, pending, expired>>
  BY <1>1 DEF evictPendingUpload
<1>3. i \in DOMAIN uploads BY <1>1, <1>2, TableFacts
<1>4. Cleans(i, TRUE) BY <1>2, <1>3, CleanupFacts
<1>5. /\ DOMAIN uploads' = DOMAIN uploads /\ data' = data
      /\ \A j \in DOMAIN uploads \ {i} : uploads'[j] = uploads[j]
      /\ \A j \in DOMAIN uploads :
           /\ uploads'[j].inode = uploads[j].inode
           /\ uploads'[j].BytesReceived = uploads[j].BytesReceived
  BY <1>4 DEF Cleans
<1>6. \A x \in Path \ {uploads[i].path} : dir'[x] = dir[x]
  <2>1. dir \in [Path -> Ids \cup {None, Folder}] BY DEF BasicInv, TypeOK, FilesTyped
  <2> QED BY <1>4, <2>1 DEF Cleans
<1>7. ASSUME NEW d \in Conn PROVE Served(d)'
  <2>1. Served(d) BY DEF StoredInv
  <2>2. ASSUME h[d].pc \in Renewed
        PROVE  /\ uploads'[h[d].id] = uploads[h[d].id] /\ dir'[h[d].path] = dir[h[d].path]
    <3>1. /\ h[d].id \in DOMAIN uploads /\ uploads[h[d].id].path = h[d].path
      BY <2>2 DEF BasicInv, Remembers, Renewed, Serving
    <3>2. h[d].path # uploads[i].path BY <1>1, <1>2, <2>1, <2>2 DEF Served
    <3>3. h[d].path \in Path BY <3>1, OwnPath
    <3> QED BY <1>5, <1>6, <3>1, <3>2, <3>3
  <2> QED BY <1>2, <2>1, <2>2, ServedSame DEF Served
<1>8. \A j \in DOMAIN uploads' : Blocks(j)' BY <1>5 DEF StoredInv, Blocks
<1> QED BY <1>7, <1>8 DEF StoredInv

\* The file of a complete upload is closed, and it is the one at the path.
LEMMA FinishStored ==
  ASSUME BasicInv, KeptInv, StoredInv, OwnHomes, NEW c \in Conn, BlockFinish(c)
  PROVE  StoredInv'
<1>1. PICK i : i = h[c].id OBVIOUS
<1>2. /\ h[c].pc = "finish" /\ Cleanup(i, FALSE) /\ Goto(c, "ack")
      /\ UNCHANGED <<pending, expired, lock>>
  BY <1>1 DEF BlockFinish, tableVars
<1>3. i \in DOMAIN uploads /\ uploads[i].path = h[c].path
  BY <1>1, <1>2 DEF BasicInv, Remembers, Serving
<1>4. Cleans(i, FALSE) BY <1>2, <1>3, CleanupFacts
<1>5. /\ DOMAIN uploads' = DOMAIN uploads /\ data' = data /\ dir' = dir
      /\ \A j \in DOMAIN uploads \ {i} : uploads'[j] = uploads[j]
      /\ \A j \in DOMAIN uploads :
           /\ uploads'[j].inode = uploads[j].inode /\ uploads'[j].path = uploads[j].path
           /\ uploads'[j].BytesReceived = uploads[j].BytesReceived
           /\ uploads'[j].FileSize = uploads[j].FileSize
  BY <1>4 DEF Cleans
<1>6. h \in [Conn -> Handler] BY HandlerFacts
<1>7. h'[c].pc = "ack" /\ h'[c].path = h[c].path /\ h'[c].id = i BY <1>1, <1>2, <1>6, GotoFacts
<1>8. \A d \in Conn \ {c} : h'[d] = h[d] BY <1>2, <1>6, GotoFacts
<1>9. lock # None => lock.id \in DOMAIN uploads BY TableFacts
<1>10. Served(c)'
  <2>1. Served(c) /\ h[c].pc \in Renewed BY <1>2 DEF StoredInv, Renewed, Serving
  <2>2. dir[uploads[i].path] = uploads[i].inode /\ uploads[i].inode = i
    BY <1>1, <1>2, <1>3, <2>1 DEF KeptInv, OpenKept, Served, StoredInv, Blocks
  <2> QED BY <1>1, <1>2, <1>3, <1>5, <1>7, <1>9, <2>1, <2>2 DEF Served
<1>11. ASSUME NEW d \in Conn \ {c} PROVE Served(d)'
  <2>1. Served(d) /\ h'[d] = h[d] BY <1>8 DEF StoredInv
  <2>2. h[d].pc \in Renewed => h[d].id \in DOMAIN uploads /\ h[d].id # i
    BY <1>1, <1>2, Apart DEF BasicInv, Remembers, Renewed, Serving
  <2> QED BY <1>2, <1>5, <1>9, <2>1, <2>2, ServedSame DEF Served
<1>12. \A j \in DOMAIN uploads' : Blocks(j)' BY <1>5 DEF StoredInv, Blocks
<1> QED BY <1>10, <1>11, <1>12 DEF StoredInv

LEMMA CreateStored ==
  ASSUME BasicInv, KeptInv, StoredInv, OwnHomes, NEW c \in Conn, UploadCreate(c)
  PROVE  StoredInv'
<1>1. PICK p, i : p = h[c].path /\ i = Len(uploads) + 1 OBVIOUS
<1>2. Creates(c, p, i) BY <1>1, CreateUpload
<1>3. /\ h[c].pc = "create" /\ p \in Home[c] /\ p \in Path /\ i \in Ids
      /\ i \notin DOMAIN uploads /\ DOMAIN uploads' = DOMAIN uploads \cup {i}
      /\ \A j \in DOMAIN uploads : uploads'[j] = uploads[j]
      /\ uploads'[i].BytesReceived = 0
  BY <1>2 DEF Creates
<1>4. \A d \in Conn \ {c} : h'[d] = h[d] BY CreateHandler
<1>5. h'[c].pc \in {"read", "add"} BY CreateHandler
<1>6. UNCHANGED <<pending, expired, lock>> BY DEF UploadCreate, tableVars
<1>7. dir[p] = None BY <1>1, <1>3 DEF KeptInv, HandlerKept
<1>8. /\ uploads'[i].inode = i /\ dir' = [dir EXCEPT ![p] = i] /\ data' = [data EXCEPT ![i] = <<>>]
  BY <1>2, <1>7 DEF Creates
<1>9. /\ \A x \in Path \ {p} : dir'[x] = dir[x]
      /\ data'[i] = <<>> /\ \A j \in Ids \ {i} : data'[j] = data[j]
  <2>1. dir \in [Path -> Ids \cup {None, Folder}] /\ data \in [Ids -> Seq(0..MaxUploads)]
    BY DEF BasicInv, TypeOK, FilesTyped
  <2> QED BY <1>3, <1>8, <2>1
<1>10. Blocks(i)'
  <2>1. <<>> = Filled(0, i) BY DEF Filled
  <2> QED BY <1>3, <1>8, <1>9, <2>1 DEF Blocks
<1>11. ASSUME NEW j \in DOMAIN uploads PROVE Blocks(j)'
  <2>1. j \in Ids /\ j # i BY <1>3, UploadFacts DEF BasicInv
  <2> QED BY <1>3, <1>9, <2>1 DEF StoredInv, Blocks
<1>12. Served(c)' BY <1>5 DEF Served, Renewed, Serving
<1>13. ASSUME NEW d \in Conn \ {c} PROVE Served(d)'
  <2>1. Served(d) /\ h'[d] = h[d] BY <1>4 DEF StoredInv
  <2>2. ASSUME h[d].pc \in Renewed
        PROVE  /\ h[d].id \in DOMAIN uploads /\ h[d].path \in Path /\ h[d].path # p
    <3>1. h[d].id \in DOMAIN uploads /\ uploads[h[d].id].path = h[d].path
      BY <2>2 DEF BasicInv, Remembers, Renewed, Serving
    <3>2. h[d].path # p BY <1>3, <2>2, Apart DEF Renewed, Serving
    <3> QED BY <3>1, <3>2, OwnPath
  <2>3. lock # None => lock.id \in DOMAIN uploads BY TableFacts
  <2> QED BY <1>3, <1>6, <1>9, <2>1, <2>2, <2>3, ServedSame DEF Served
<1> QED BY <1>3, <1>10, <1>11, <1>12, <1>13 DEF StoredInv

\* Blocks written after the ones that are there.
LEMMA WrittenNext ==
  ASSUME NEW b \in Nat, NEW n \in Nat, NEW i
  PROVE  Written(Filled(b, i), b, n, i) = Filled(b + n, i)
<1> DEFINE s == Filled(b, i)
<1>1. Len(s) = b /\ DOMAIN s = 1..b /\ \A k \in 1..b : s[k] = i BY DEF Filled
<1> HIDE DEF s
<1>2. (IF Len(s) > b + n THEN Len(s) ELSE b + n) = b + n BY <1>1
<1>3. \A k \in 1..b + n :
        (IF k \in b + 1 .. b + n THEN i ELSE IF k \in DOMAIN s THEN s[k] ELSE 0) = i
  BY <1>1
<1>4. Written(s, b, n, i) = Filled(b + n, i) BY <1>2, <1>3 DEF Written, Filled
<1> QED BY <1>4 DEF s

\* What a write does to the blocks of the files.
LEMMA WrittenData ==
  ASSUME BasicInv, \A j \in DOMAIN uploads : Blocks(j), NEW c \in Conn, BlockWrite(c)
  PROVE  /\ data'[h[c].id] = Filled(uploads'[h[c].id].BytesReceived, h[c].id)
         /\ \A j \in Ids \ {h[c].id} : data'[j] = data[j]
<1>1. PICK i : i = h[c].id OBVIOUS
<1>2. Writes(c, i) BY <1>1, WriteFacts
<1> DEFINE b == uploads[i].BytesReceived
           n == h[c].size
<1>3. i \in DOMAIN uploads /\ uploads'[i].BytesReceived = b + n BY <1>2 DEF Writes
<1>4. i \in Ids /\ b \in Nat /\ n \in Nat BY <1>3, UploadFacts, HandlerFacts DEF BasicInv
<1>5. uploads[i].inode = i /\ data[i] = Filled(b, i) BY <1>3 DEF Blocks
<1>6. data' = [data EXCEPT ![i] = Written(data[i], b, n, i)] BY <1>2, <1>5 DEF Writes
<1> HIDE DEF b, n
<1>7. data \in [Ids -> Seq(0..MaxUploads)] BY DEF BasicInv, TypeOK, FilesTyped
<1>8. Written(data[i], b, n, i) = Filled(b + n, i) BY <1>4, <1>5, WrittenNext
<1> QED BY <1>1, <1>3, <1>4, <1>6, <1>7, <1>8

LEMMA WriteStored ==
  ASSUME BasicInv, StoredInv, OwnHomes, NEW c \in Conn, BlockWrite(c)
  PROVE  StoredInv'
<1>1. PICK i : i = h[c].id OBVIOUS
<1>2. Writes(c, i) BY <1>1, WriteFacts
<1>3. /\ h[c].pc = "write" /\ i \in DOMAIN uploads /\ DOMAIN uploads' = DOMAIN uploads
      /\ \A j \in DOMAIN uploads \ {i} : uploads'[j] = uploads[j]
      /\ \A j \in DOMAIN uploads : uploads'[j].path = uploads[j].path
      /\ uploads'[i].inode = uploads[i].inode /\ uploads'[i].open
      /\ uploads'[i].FileSize = uploads[i].FileSize
      /\ uploads'[i].BytesReceived = uploads[i].BytesReceived + h[c].size
      /\ UNCHANGED <<pending, expired, lock, dir>>
  BY <1>2 DEF Writes, tableVars
<1>4. \A d \in Conn \ {c} : h'[d] = h[d] BY <1>2 DEF Writes
<1>5. \/ h'[c].pc = "read"
      \/ /\ h'[c].pc = "finish" /\ h'[c].id = i /\ h'[c].path = h[c].path
         /\ uploads'[i].BytesReceived = uploads[i].FileSize
  BY <1>2 DEF Writes
<1>6. /\ i \in Ids /\ uploads[i].BytesReceived \in Nat /\ h[c].size \in Nat
      /\ \A j \in DOMAIN uploads : j \in Ids
  BY <1>3, UploadFacts, HandlerFacts DEF BasicInv
<1>7. data'[i] = Filled(uploads'[i].BytesReceived, i) /\ \A j \in Ids \ {i} : data'[j] = data[j]
  BY <1>1, WrittenData DEF StoredInv
<1>8. ASSUME NEW j \in DOMAIN uploads PROVE Blocks(j)'
  <2>1. CASE j = i BY <1>3, <1>7, <2>1 DEF StoredInv, Blocks
  <2>2. CASE j # i BY <1>3, <1>6, <1>7, <2>2 DEF StoredInv, Blocks
  <2> QED BY <2>1, <2>2
<1>9. lock # None => lock.id \in DOMAIN uploads BY TableFacts
<1>10. Served(c)'
  <2>1. Served(c) /\ h[c].pc \in Renewed BY <1>3 DEF StoredInv, Renewed, Serving
  <2> QED BY <1>1, <1>3, <1>5, <1>9, <2>1 DEF Served, Renewed, Serving
<1>11. ASSUME NEW d \in Conn \ {c} PROVE Served(d)'
  <2>1. Served(d) /\ h'[d] = h[d] BY <1>4 DEF StoredInv
  <2>2. h[d].pc \in Renewed => h[d].id \in DOMAIN uploads /\ h[d].id # i
    BY <1>1, <1>3, Apart DEF BasicInv, Remembers, Renewed, Serving
  <2> QED BY <1>3, <1>9, <2>1, <2>2, ServedSame DEF Served
<1> QED BY <1>3, <1>8, <1>10, <1>11 DEF StoredInv

LEMMA FileOpsStored ==
  ASSUME BasicInv, StoredInv, MayMeddle = "no", NEW c \in Conn, NEW p \in Path, NEW q \in Path,
         Rename(c, p, q) \/ Delete(c, p) \/ CreateFolder(c, p)
  PROVE  StoredInv'
<1>1. /\ UNCHANGED <<h, uploads, pending, expired, lock, data>> /\ ~BeingUploaded(p)
      /\ dir'[q] = dir[q] \/ ~BeingUploaded(q)
  <2>1. dir \in [Path -> Ids \cup {None, Folder}] BY DEF BasicInv, TypeOK, FilesTyped
  <2> QED BY <2>1 DEF Rename, Delete, CreateFolder, Touchable, tableVars
<1>2. \A x \in Path : ~BeingUploaded(x) \/ dir'[x] = dir[x]
  <2>1. dir \in [Path -> Ids \cup {None, Folder}] BY DEF BasicInv, TypeOK, FilesTyped
  <2>2. \A x \in Path \ {p, q} : dir'[x] = dir[x] BY <2>1 DEF Rename, Delete, CreateFolder
  <2> QED BY <1>1, <2>2
<1>3. ASSUME NEW d \in Conn PROVE Served(d)'
  <2>1. Served(d) BY DEF StoredInv
  <2>2. h[d].pc \in Renewed => dir'[h[d].path] = dir[h[d].path]
    <3> SUFFICES ASSUME h[d].pc \in Renewed PROVE dir'[h[d].path] = dir[h[d].path] OBVIOUS
    <3>1. h[d].path \in DOMAIN pending BY <2>1 DEF Served
    <3>2. h[d].path \in Path BY <3>1, TableFacts
    <3> QED BY <1>2, <3>1, <3>2 DEF BeingUploaded
  <2> QED BY <1>1, <2>1, <2>2, ServedSame DEF Served
<1>4. \A j \in DOMAIN uploads' : Blocks(j)' BY <1>1 DEF StoredInv, Blocks
<1> QED BY <1>3, <1>4 DEF StoredInv

LEMMA NextStored ==
  ASSUME Orderly, BasicInv, KeptInv, StoredInv, [Next]_vars
  PROVE  StoredInv'
<1>1. OwnHomes /\ MayMeddle = "no" /\ ~MayStall /\ NeverFull BY DEF Orderly, Undisturbed
<1>2. ASSUME NEW c \in Conn, Work(c) PROVE StoredInv'
  BY <1>1, <1>2, AnswersStored, CreateStored, AddsStored, LockStored, WriteStored, FinishStored,
     RemovesStored DEF Work
<1>3. ASSUME NEW c \in Conn, Message(c) PROVE StoredInv'
  <2>1. CASE \E p \in Home[c], n \in Size : UploadLen(c, p, n) BY <2>1, AnswersStored
  <2>2. CASE \E p \in Path : CancelGet(c, p)
    <3>1. PICK p \in Path : Get(c, p, "remove", 0) BY <2>2 DEF CancelGet
    <3>2. 0 \in 0..MaxBlocks BY FileUploadsAssumption
    <3> QED BY <3>1, <3>2, GetStored
  <2>3. CASE \E p \in Path, n \in 1..MaxBlocks : BlockGet(c, p, n)
    <3>1. PICK p \in Path, n \in 1..MaxBlocks : Get(c, p, "readd", n) BY <2>3 DEF BlockGet
    <3>2. n \in 0..MaxBlocks BY FileUploadsAssumption
    <3> QED BY <3>1, <3>2, GetStored
  <2>4. CASE \E p \in Path : Delete(c, p) \/ CreateFolder(c, p) BY <1>1, <2>4, FileOpsStored
  <2>5. CASE \E p, q \in Path : Rename(c, p, q) BY <1>1, <2>5, FileOpsStored
  <2> QED BY <1>3, <2>1, <2>2, <2>3, <2>4, <2>5 DEF Message
<1>4. ASSUME ShutdownSignal \/ Exit \/ \E c \in Conn : CloseOnShutdown(c) PROVE StoredInv'
  BY <1>4, StillStored DEF ShutdownSignal, Exit, CloseOnShutdown, tableVars
<1>5. CASE UNCHANGED vars BY <1>5, StillStored DEF vars, tableVars
<1>6. CASE Next
  BY <1>1, <1>2, <1>3, <1>4, <1>6, AnswersStored, ExpireStored, RemovesStored, EvictStored
     DEF Next
<1> QED BY <1>5, <1>6

LEMMA Stored == Orderly => (Spec => [](BasicInv /\ KeptInv /\ StoredInv))
<1> SUFFICES ASSUME Orderly PROVE Spec => [](BasicInv /\ KeptInv /\ StoredInv) OBVIOUS
<1>1. Undisturbed BY DEF Orderly
<1>2. Init => BasicInv /\ KeptInv /\ StoredInv BY InitBasic, InitKept, InitStored
<1>3. BasicInv /\ KeptInv /\ StoredInv /\ [Next]_vars => (BasicInv /\ KeptInv /\ StoredInv)'
  BY <1>1, NextBasic, NextKept, NextStored
<1> QED BY <1>2, <1>3, PTL DEF Spec

\* The last block of an upload is answered with success only when the file at the
\* path holds this upload, all of it and nothing else.
THEOREM SuccessIsTrue == Orderly => (Spec => SuccessMeansStored)
<1> SUFFICES ASSUME Orderly PROVE Spec => SuccessMeansStored OBVIOUS
<1> DEFINE A == \A c \in Conn :
                  (h[c].pc = "ack" /\ h'[c].pc = "read") =>
                    LET u == uploads[h[c].id]
                    IN /\ dir[u.path] = u.inode
                       /\ data[u.inode] = [k \in 1..u.FileSize |-> h[c].id]
<1>1. Spec => [](BasicInv /\ KeptInv /\ StoredInv) BY Stored
<1>2. BasicInv /\ StoredInv => A
  <2> SUFFICES ASSUME BasicInv, StoredInv, NEW c \in Conn, h[c].pc = "ack"
               PROVE  LET u == uploads[h[c].id]
                      IN /\ dir[u.path] = u.inode
                         /\ data[u.inode] = [k \in 1..u.FileSize |-> h[c].id]
    OBVIOUS
  <2>1. PICK i : i = h[c].id OBVIOUS
  <2>2. i \in DOMAIN uploads /\ uploads[i].path = h[c].path
    BY <2>1 DEF BasicInv, Remembers, Serving
  <2>3. uploads[i].BytesReceived = uploads[i].FileSize /\ dir[h[c].path] = i
    BY <2>1 DEF StoredInv, Served, Renewed, Serving
  <2>4. uploads[i].inode = i /\ data[i] = Filled(uploads[i].FileSize, i)
    BY <2>2, <2>3 DEF StoredInv, Blocks
  <2> QED BY <2>1, <2>2, <2>3, <2>4 DEF Filled
<1>3. BasicInv /\ KeptInv /\ StoredInv => [A]_vars BY <1>2
<1> HIDE DEF A
<1>4. Spec => [][A]_vars BY <1>1, <1>3, PTL
<1> QED BY <1>4, PTL DEF A, SuccessMeansStored

-----------------------------------------------------------------------------
(* The uploads implement FileStore, whatever the delays and the capacity.  *)

Complete(i) == uploads[i].BytesReceived = uploads[i].FileSize

\* A file is that of the upload that created it, which is under way or got all
\* its blocks; and no two paths have the same file.
OneFile(p) ==
  dir[p] \in Ids =>
    /\ dir[p] \in DOMAIN uploads
    /\ uploads[dir[p]].open \/ Complete(dir[p])
    /\ \A q \in Path : dir[q] = dir[p] => q = p

\* What is about to be closed and kept is complete.
Finishes(c) == h[c].pc = "finish" => Complete(h[c].id)

StoreInv ==
  /\ \A i \in DOMAIN uploads : Blocks(i)
  /\ \A c \in Conn : Finishes(c)
  /\ \A p \in Path : OneFile(p)

\* What is at a path where dir has d.
FileOf(d, u, b) ==
  IF d \in Ids THEN [by |-> d, whole |-> ~u[d].open /\ b[d] = Filled(u[d].FileSize, d)] ELSE d

LEMMA FileAtIs ==
  /\ fileAt = [p \in Path |-> FileOf(dir[p], uploads, data)]
  /\ fileAt' = [p \in Path |-> FileOf(dir'[p], uploads', data')]
BY DEF fileAt, FileOf, Filled

\* The file of an upload is whole when the upload is over.
LEMMA FileOfUpload ==
  ASSUME NEW d \in Ids, NEW u, NEW b, u[d].open \/ b[d] = Filled(u[d].FileSize, d)
  PROVE  FileOf(d, u, b) = [by |-> d, whole |-> ~u[d].open]
<1>1. (~u[d].open /\ b[d] = Filled(u[d].FileSize, d)) <=> ~u[d].open OBVIOUS
<1>2. (~u[d].open /\ b[d] = Filled(u[d].FileSize, d)) = ~u[d].open BY <1>1
<1> QED BY <1>2, Zenon DEF FileOf

\* It is the same while the upload neither ends nor is written to.
LEMMA FileOfSame ==
  ASSUME NEW d, NEW u, NEW b, NEW v, NEW e,
         d \in Ids => /\ e[d] = b[d] /\ v[d].FileSize = u[d].FileSize
                      /\ v[d].open <=> u[d].open
  PROVE  FileOf(d, v, e) = FileOf(d, u, b)
<1>1. CASE d \notin Ids BY <1>1 DEF FileOf
<1>2. CASE d \in Ids
  <2>1. (~v[d].open /\ e[d] = Filled(v[d].FileSize, d)) <=> (~u[d].open /\ b[d] = Filled(u[d].FileSize, d))
    BY <1>2
  <2>2. (~v[d].open /\ e[d] = Filled(v[d].FileSize, d)) = (~u[d].open /\ b[d] = Filled(u[d].FileSize, d))
    BY <2>1
  <2> QED BY <1>2, <2>2, Zenon DEF FileOf
<1> QED BY <1>1, <1>2

LEMMA NoFile ==
  /\ None \notin Ids /\ Folder \notin Ids /\ None # Folder
  /\ \A i \in Ids, w \in BOOLEAN : [by |-> i, whole |-> w] \notin {None, Folder}
BY FileUploadsAssumption DEF Ids

\* The file at a path, in a state of the invariant.
LEMMA FileAtPath ==
  ASSUME BasicInv, StoreInv, NEW p \in Path
  PROVE  /\ dir[p] \in Ids => fileAt[p] = [by |-> dir[p], whole |-> ~uploads[dir[p]].open]
         /\ dir[p] \notin Ids => fileAt[p] = dir[p]
         /\ fileAt[p] = None <=> dir[p] = None
         /\ fileAt[p] = Folder <=> dir[p] = Folder
<1>1. fileAt[p] = FileOf(dir[p], uploads, data) BY FileAtIs
<1>2. CASE dir[p] \in Ids
  <2>1. PICK d \in Ids : d = dir[p] BY <1>2
  <2>2. /\ d \in DOMAIN uploads /\ (uploads[d].open \/ Complete(d))
        /\ data[d] = Filled(uploads[d].BytesReceived, d)
    BY <2>1 DEF StoreInv, OneFile, Blocks
  <2>3. uploads[d].open \/ data[d] = Filled(uploads[d].FileSize, d) BY <2>2 DEF Complete
  <2>4. fileAt[p] = [by |-> d, whole |-> ~uploads[d].open] BY <1>1, <2>1, <2>3, FileOfUpload
  <2>5. (~uploads[d].open) \in BOOLEAN OBVIOUS
  <2>6. fileAt[p] \notin {None, Folder} BY <2>4, <2>5, NoFile
  <2> QED BY <1>2, <2>1, <2>4, <2>6, NoFile
<1>3. CASE dir[p] \notin Ids BY <1>1, <1>3 DEF FileOf
<1> QED BY <1>2, <1>3

\* A step that leaves the uploads and the files alone.
LEMMA QuietStore ==
  ASSUME StoreInv, UNCHANGED <<uploads, fileVars>>,
         \A c \in Conn : h'[c].pc = "finish" => (h[c].pc = "finish" /\ h'[c].id = h[c].id)
  PROVE  StoreInv' /\ UNCHANGED Store!vars
<1> USE DEF fileVars
<1>1. \A i \in DOMAIN uploads' : Blocks(i)' BY DEF StoreInv, Blocks
<1>2. \A c \in Conn : Finishes(c)' BY DEF StoreInv, Finishes, Complete
<1>3. \A p \in Path : OneFile(p)' BY DEF StoreInv, OneFile, Complete
<1>4. fileAt' = fileAt BY FileAtIs
<1> QED BY <1>1, <1>2, <1>3, <1>4 DEF StoreInv, Store!vars

\* The handlers' steps that touch neither, by what becomes of the handler.
LEMMA MovesStore ==
  ASSUME BasicInv, StoreInv, NEW c \in Conn, UNCHANGED <<uploads, fileVars>>,
         \/ Answer(c)
         \/ h[c].keys # <<>> /\ NextKey(c)
         \/ \E pc \in {"stat", "create", "lock", "remove", "write", "clearRemove", "closed"} : Goto(c, pc)
  PROVE  StoreInv' /\ UNCHANGED Store!vars
<1>1. h \in [Conn -> Handler] BY HandlerFacts
<1>2. \A d \in Conn \ {c} : h'[d] = h[d] BY <1>1, AnswerFacts, GotoFacts, NextKeyFacts
<1>3. h'[c].pc # "finish" BY <1>1, AnswerFacts, GotoFacts, NextKeyFacts
<1>4. \A d \in Conn : h'[d].pc = "finish" => (h[d].pc = "finish" /\ h'[d].id = h[d].id)
  BY <1>2, <1>3
<1> QED BY <1>4, QuietStore

LEMMA WorkStore ==
  ASSUME BasicInv, StoreInv, NEW c \in Conn,
         \/ Connect(c) \/ UploadPeek(c) \/ UploadStat(c) \/ UploadCreateFails(c) \/ UploadAdd(c)
         \/ BlockAdd(c) \/ BlockLock(c) \/ BlockWriteFails(c) \/ RemoveAndAnswer(c)
         \/ ClearPeek(c) \/ ClearRemove(c) \/ CloseConn(c)
  PROVE  StoreInv' /\ UNCHANGED Store!vars
<1> DEFINE Moves == \/ Answer(c)
                    \/ h[c].keys # <<>> /\ NextKey(c)
                    \/ \E pc \in {"stat", "create", "lock", "remove", "write", "clearRemove", "closed"} :
                         Goto(c, pc)
<1>1. UNCHANGED <<uploads, fileVars>>
  BY DEF Connect, UploadPeek, UploadStat, UploadCreateFails, UploadAdd, BlockAdd, BlockLock,
         BlockWriteFails, RemoveAndAnswer, ClearPeek, ClearRemove, CloseConn
<1>2. CASE ClearRemove(c)
  <2>1. h[c].pc = "clearRemove" /\ NextKey(c) BY <1>2 DEF ClearRemove
  <2>2. h[c].keys # <<>> BY <2>1 DEF BasicInv, Remembers
  <2> QED BY <1>1, <2>1, <2>2, MovesStore
<1>3. CASE ~ClearRemove(c)
  <2>1. Moves
    BY <1>3 DEF Connect, UploadPeek, UploadStat, UploadCreateFails, UploadAdd, BlockAdd, BlockLock,
                BlockWriteFails, RemoveAndAnswer, ClearPeek, CloseConn, Answer
  <2> QED BY <1>1, <2>1, MovesStore
<1> QED BY <1>2, <1>3

LEMMA MessageStore ==
  ASSUME BasicInv, StoreInv, NEW c \in Conn,
         \/ \E p \in Home[c], n \in Size : UploadLen(c, p, n)
         \/ \E p \in Path, pc \in {"readd", "remove"}, n \in 0..MaxBlocks : Get(c, p, pc, n)
         \/ ReadFails(c)
  PROVE  StoreInv' /\ UNCHANGED Store!vars
<1>1. h \in [Conn -> Handler] /\ UNCHANGED <<uploads, fileVars>>
  BY HandlerFacts DEF UploadLen, Get, ReadFails
<1>2. \E r : r.pc # "finish" /\ h' = [h EXCEPT ![c] = r]
  <2>1. CASE \E p \in Home[c], n \in Size : UploadLen(c, p, n)
    <3>1. PICK p \in Home[c], n \in Size : UploadLen(c, p, n) BY <2>1
    <3> DEFINE r == [Idle EXCEPT !.pc = "peek", !.path = p, !.size = n]
    <3>2. h' = [h EXCEPT ![c] = r] /\ r.pc = "peek" BY <3>1 DEF UploadLen, Idle
    <3> QED BY <3>2
  <2>2. CASE \E p \in Path, pc \in {"readd", "remove"}, n \in 0..MaxBlocks : Get(c, p, pc, n)
    <3>1. PICK p \in Path, pc \in {"readd", "remove"}, n \in 0..MaxBlocks : Get(c, p, pc, n) BY <2>2
    <3> DEFINE r == [Idle EXCEPT !.pc = pc, !.path = p, !.id = pending[p], !.size = n]
    <3>2. h' = [h EXCEPT ![c] = r] /\ r.pc = pc BY <3>1 DEF Get, Idle
    <3> QED BY <3>2
  <2>3. CASE ReadFails(c)
    <3> DEFINE keys == Only(order, DOMAIN pending \ expired)
               r == [h[c] EXCEPT !.pc = "clear", !.keys = keys]
    <3>1. h' = [h EXCEPT ![c] = r] BY <2>3 DEF ReadFails
    <3>2. h[c] \in Handler BY <1>1
    <3> HIDE DEF keys
    <3>3. r.pc = "clear" BY <3>2 DEF Handler
    <3> HIDE DEF r
    <3> QED BY <3>1, <3>3
  <2> QED BY <2>1, <2>2, <2>3
<1>3. \A d \in Conn : h'[d].pc = "finish" => (h[d].pc = "finish" /\ h'[d].id = h[d].id)
  BY <1>1, <1>2
<1> QED BY <1>1, <1>3, QuietStore

\* A file is created where there is none: the store begins an upload.
LEMMA CreateStore ==
  ASSUME BasicInv, KeptInv, StoreInv, NEW c \in Conn, UploadCreate(c)
  PROVE  StoreInv' /\ Store!Begin(h[c].path) /\ h[c].path \in Path
<1>1. PICK p, i : p = h[c].path /\ i = Len(uploads) + 1 OBVIOUS
<1>2. Creates(c, p, i) BY <1>1, CreateUpload
<1>3. /\ h[c].pc = "create" /\ p \in Path /\ i \in Ids
      /\ i \notin DOMAIN uploads /\ DOMAIN uploads' = DOMAIN uploads \cup {i}
      /\ \A j \in DOMAIN uploads : uploads'[j] = uploads[j]
      /\ uploads'[i].BytesReceived = 0 /\ uploads'[i].FileSize = h[c].size
      /\ uploads'[i].open <=> h[c].size > 0
  BY <1>2 DEF Creates
<1>4. /\ h'[c].pc \in {"read", "add"}
      /\ \A d \in Conn \ {c} : h'[d] = h[d]
  BY CreateHandler
<1>5. dir[p] = None BY <1>1, <1>3 DEF KeptInv, HandlerKept
<1>6. /\ uploads'[i].inode = i /\ dir' = [dir EXCEPT ![p] = i] /\ data' = [data EXCEPT ![i] = <<>>]
  BY <1>2, <1>5 DEF Creates
<1>7. /\ \A x \in Path \ {p} : dir'[x] = dir[x]
      /\ dir'[p] = i /\ data'[i] = <<>> /\ \A j \in Ids \ {i} : data'[j] = data[j]
  <2>1. dir \in [Path -> Ids \cup {None, Folder}] /\ data \in [Ids -> Seq(0..MaxUploads)]
    BY DEF BasicInv, TypeOK, FilesTyped
  <2> QED BY <1>3, <1>6, <2>1
<1>8. uploads'[i].open \/ uploads'[i].BytesReceived = uploads'[i].FileSize
  <2>1. h[c].size \in 0..MaxBlocks BY HandlerFacts
  <2>2. h[c].size > 0 \/ h[c].size = 0 BY <2>1
  <2> QED BY <1>3, <2>2
<1>9. Blocks(i)'
  <2>1. <<>> = Filled(0, i) BY DEF Filled
  <2> QED BY <1>3, <1>6, <1>7, <2>1 DEF Blocks
<1>10. ASSUME NEW j \in DOMAIN uploads PROVE Blocks(j)'
  <2>1. j \in Ids /\ j # i BY <1>3, UploadFacts DEF BasicInv
  <2> QED BY <1>3, <1>7, <2>1 DEF StoreInv, Blocks
<1>11. ASSUME NEW d \in Conn PROVE Finishes(d)'
  <2>1. Finishes(d) /\ (h[d].pc = "finish" => h[d].id \in DOMAIN uploads)
    BY DEF StoreInv, BasicInv, Remembers, Serving
  <2> QED BY <1>3, <1>4, <2>1 DEF Finishes, Complete
<1>12. ASSUME NEW x \in Path \ {p} PROVE OneFile(x)' /\ dir[x] # i
  <2>1. OneFile(x) BY DEF StoreInv
  <2>2. dir[x] # i BY <1>3, <2>1 DEF OneFile
  <2> QED BY <1>3, <1>7, <2>1, <2>2 DEF OneFile, Complete
<1>13. OneFile(p)'
  <2>1. \A q \in Path : dir'[q] = i => q = p BY <1>7, <1>12
  <2> QED BY <1>3, <1>7, <1>8, <2>1 DEF OneFile, Complete
<1>14. StoreInv' BY <1>3, <1>9, <1>10, <1>11, <1>12, <1>13 DEF StoreInv
<1>15. Store!Begin(p)
  <2>1. fileAt[p] = None BY <1>3, <1>5, FileAtPath
  <2> DEFINE w == ~uploads'[i].open
             r == [by |-> i, whole |-> w]
  <2>2. w \in BOOLEAN OBVIOUS
  <2>3. FileOf(i, uploads', data') = r
    <3>1. data'[i] = Filled(uploads'[i].BytesReceived, i) BY <1>6, <1>9 DEF Blocks
    <3>2. uploads'[i].open \/ data'[i] = Filled(uploads'[i].FileSize, i) BY <1>8, <3>1
    <3> QED BY <1>3, <3>2, FileOfUpload
  <2> HIDE DEF w
  <2>4. \A x \in Path \ {p} : FileOf(dir'[x], uploads', data') = FileOf(dir[x], uploads, data)
    <3> SUFFICES ASSUME NEW x \in Path \ {p}
                 PROVE  FileOf(dir'[x], uploads', data') = FileOf(dir[x], uploads, data)
      OBVIOUS
    <3>1. OneFile(x) /\ dir'[x] = dir[x] /\ dir[x] # i BY <1>7, <1>12 DEF StoreInv
    <3> QED BY <1>3, <1>7, <3>1, FileOfSame DEF OneFile
  <2> HIDE DEF r
  <2>5. fileAt' = [fileAt EXCEPT ![p] = r] BY <1>3, <1>7, <2>3, <2>4, FileAtIs
  <2>6. i \in Ids \ DOMAIN uploads /\ DOMAIN uploads' = DOMAIN uploads \cup {i} BY <1>3
  <2> QED BY <2>1, <2>2, <2>5, <2>6 DEF Store!Begin, r
<1> QED BY <1>1, <1>3, <1>14, <1>15

\* A block goes to a file that is under way and stays so.
LEMMA WriteStore ==
  ASSUME BasicInv, StoreInv, OwnHomes, NEW c \in Conn, BlockWrite(c)
  PROVE  StoreInv' /\ UNCHANGED Store!vars
<1>1. PICK i : i = h[c].id OBVIOUS
<1>2. Writes(c, i) BY <1>1, WriteFacts
<1>3. /\ h[c].pc = "write" /\ i \in DOMAIN uploads /\ DOMAIN uploads' = DOMAIN uploads
      /\ \A j \in DOMAIN uploads \ {i} : uploads'[j] = uploads[j]
      /\ uploads'[i].inode = uploads[i].inode /\ uploads[i].open /\ uploads'[i].open
      /\ uploads'[i].FileSize = uploads[i].FileSize
      /\ uploads'[i].BytesReceived = uploads[i].BytesReceived + h[c].size
      /\ dir' = dir
  BY <1>2 DEF Writes
<1>4. \A d \in Conn \ {c} : h'[d] = h[d] BY <1>2 DEF Writes
<1>5. \/ h'[c].pc = "read"
      \/ h'[c].pc = "finish" /\ h'[c].id = i /\ uploads'[i].BytesReceived = uploads[i].FileSize
  BY <1>2 DEF Writes
<1>6. \A j \in DOMAIN uploads : j \in Ids BY UploadFacts DEF BasicInv
<1>7. data'[i] = Filled(uploads'[i].BytesReceived, i) /\ \A j \in Ids \ {i} : data'[j] = data[j]
  BY <1>1, <1>3, WrittenData DEF StoreInv
<1>8. ASSUME NEW j \in DOMAIN uploads PROVE Blocks(j)'
  <2>1. CASE j = i BY <1>3, <1>7, <2>1 DEF StoreInv, Blocks
  <2>2. CASE j # i BY <1>3, <1>6, <1>7, <2>2 DEF StoreInv, Blocks
  <2> QED BY <2>1, <2>2
<1>9. Finishes(c)' BY <1>3, <1>5 DEF Finishes, Complete
<1>10. ASSUME NEW d \in Conn \ {c} PROVE Finishes(d)'
  <2>1. Finishes(d) /\ h'[d] = h[d] BY <1>4 DEF StoreInv
  <2>2. h[d].pc = "finish" => h[d].id \in DOMAIN uploads /\ h[d].id # i
    BY <1>1, <1>3, Apart DEF BasicInv, Remembers, Serving
  <2> QED BY <1>3, <2>1, <2>2 DEF Finishes, Complete
<1>11. ASSUME NEW x \in Path PROVE OneFile(x)'
  <2>1. OneFile(x) BY DEF StoreInv
  <2> QED BY <1>3, <2>1 DEF OneFile, Complete
<1>12. fileAt' = fileAt
  <2> SUFFICES ASSUME NEW x \in Path
               PROVE  FileOf(dir'[x], uploads', data') = FileOf(dir[x], uploads, data)
    BY FileAtIs
  <2>1. OneFile(x) BY DEF StoreInv
  <2>2. CASE dir[x] = i
    <3>1. i \in Ids BY <1>3, <1>6
    <3>2. FileOf(i, uploads', data') = [by |-> i, whole |-> ~uploads'[i].open]
      BY <1>3, <3>1, FileOfUpload
    <3>3. FileOf(i, uploads, data) = [by |-> i, whole |-> ~uploads[i].open]
      BY <1>3, <3>1, FileOfUpload
    <3>4. (~uploads'[i].open) = (~uploads[i].open) BY <1>3
    <3> QED BY <1>3, <2>2, <3>2, <3>3, <3>4, Zenon
  <2>3. CASE dir[x] # i BY <1>3, <1>7, <2>1, <2>3, FileOfSame DEF OneFile
  <2> QED BY <2>2, <2>3
<1> QED BY <1>3, <1>8, <1>9, <1>10, <1>11, <1>12 DEF StoreInv, Store!vars

\* What is open is at its path, and nowhere else.
LEMMA OpenAtPath ==
  ASSUME BasicInv, KeptInv, StoreInv, NEW i \in DOMAIN uploads, uploads[i].open
  PROVE  /\ uploads[i].path \in Path /\ dir[uploads[i].path] = i /\ i \in Ids
         /\ \A x \in Path : dir[x] = i => x = uploads[i].path
<1>1. uploads[i].path \in Path /\ uploads[i].inode = i /\ uploads[i].inode \in Ids
  BY OwnPath DEF StoreInv, Blocks
<1>2. dir[uploads[i].path] = i BY <1>1 DEF KeptInv, OpenKept
<1> QED BY <1>1, <1>2 DEF StoreInv, OneFile

\* A clean-up that finds its upload closed does nothing.
LEMMA CleansClosed ==
  ASSUME BasicInv, NEW i \in DOMAIN uploads, NEW removeFile, ~uploads[i].open, Cleanup(i, removeFile)
  PROVE  UNCHANGED <<uploads, fileVars>>
BY DEF Cleanup

LEMMA MadeWhole ==
  \A r, i, v, w : r = [by |-> i, whole |-> v] => [r EXCEPT !.whole = w] = [by |-> i, whole |-> w]
OBVIOUS

\* A complete upload is closed: its file is whole.
LEMMA FinishStore ==
  ASSUME BasicInv, KeptInv, StoreInv, NEW c \in Conn, BlockFinish(c)
  PROVE  StoreInv' /\ (UNCHANGED Store!vars \/ \E p \in Path : Store!Finish(p))
<1>1. PICK i : i = h[c].id OBVIOUS
<1>2. /\ h[c].pc = "finish" /\ Cleanup(i, FALSE) /\ Goto(c, "ack")
  BY <1>1 DEF BlockFinish
<1>3. i \in DOMAIN uploads BY <1>1, <1>2 DEF BasicInv, Remembers, Serving
<1>4. h \in [Conn -> Handler] BY HandlerFacts
<1>5. /\ h'[c].pc = "ack"
      /\ \A d \in Conn \ {c} : h'[d] = h[d]
  BY <1>2, <1>4, GotoFacts
<1>6. CASE ~uploads[i].open
  <2>1. UNCHANGED <<uploads, fileVars>> BY <1>2, <1>3, <1>6, CleansClosed
  <2>2. \A d \in Conn : h'[d].pc = "finish" => (h[d].pc = "finish" /\ h'[d].id = h[d].id) BY <1>5
  <2> QED BY <2>1, <2>2, QuietStore
<1>7. CASE uploads[i].open
  <2>1. PICK p : p = uploads[i].path OBVIOUS
  <2>2. /\ p \in Path /\ dir[p] = i /\ i \in Ids
        /\ \A x \in Path : dir[x] = i => x = p
    BY <1>3, <1>7, <2>1, OpenAtPath
  <2>3. Cleans(i, FALSE) BY <1>2, <1>3, CleanupFacts
  <2>4. /\ DOMAIN uploads' = DOMAIN uploads /\ data' = data /\ dir' = dir
        /\ \A j \in DOMAIN uploads \ {i} : uploads'[j] = uploads[j]
        /\ ~uploads'[i].open /\ uploads'[i].inode = uploads[i].inode
        /\ uploads'[i].BytesReceived = uploads[i].BytesReceived
        /\ uploads'[i].FileSize = uploads[i].FileSize
    BY <2>3 DEF Cleans
  <2>5. Complete(i) BY <1>1, <1>2 DEF StoreInv, Finishes
  <2>6. \A j \in DOMAIN uploads' : Blocks(j)' BY <2>4 DEF StoreInv, Blocks
  <2>7. ASSUME NEW d \in Conn PROVE Finishes(d)'
    <3>1. Finishes(d) /\ (h[d].pc = "finish" => h[d].id \in DOMAIN uploads)
      BY DEF StoreInv, BasicInv, Remembers, Serving
    <3> QED BY <1>5, <2>4, <3>1 DEF Finishes, Complete
  <2>8. ASSUME NEW x \in Path PROVE OneFile(x)'
    <3>1. OneFile(x) BY DEF StoreInv
    <3> QED BY <2>4, <2>5, <3>1 DEF OneFile, Complete
  <2>9. StoreInv' BY <2>6, <2>7, <2>8 DEF StoreInv
  <2>10. fileAt[p] = [by |-> i, whole |-> FALSE]
    <3>1. fileAt[p] = [by |-> i, whole |-> ~uploads[i].open] BY <2>2, FileAtPath
    <3>2. (~uploads[i].open) = FALSE BY <1>7
    <3> QED BY <3>1, <3>2, Zenon
  <2>11. FileOf(dir'[p], uploads', data') = [by |-> i, whole |-> TRUE]
    <3>1. data'[i] = Filled(uploads'[i].FileSize, i)
      BY <1>3, <2>4, <2>5 DEF StoreInv, Blocks, Complete
    <3>2. FileOf(i, uploads', data') = [by |-> i, whole |-> ~uploads'[i].open]
      BY <2>2, <3>1, FileOfUpload
    <3>3. (~uploads'[i].open) = TRUE BY <2>4
    <3> QED BY <2>2, <2>4, <3>2, <3>3, Zenon
  <2>12. \A x \in Path \ {p} : FileOf(dir'[x], uploads', data') = FileOf(dir[x], uploads, data)
    <3> SUFFICES ASSUME NEW x \in Path \ {p}
                 PROVE  FileOf(dir'[x], uploads', data') = FileOf(dir[x], uploads, data)
      OBVIOUS
    <3>1. OneFile(x) /\ dir[x] # i BY <2>2 DEF StoreInv
    <3> QED BY <2>4, <3>1, FileOfSame DEF OneFile
  <2>13. fileAt' = [fileAt EXCEPT ![p].whole = TRUE]
    <3>1. PICK v, w : v = FALSE /\ w = TRUE OBVIOUS
    <3>2. fileAt[p] = [by |-> i, whole |-> v] BY <2>10, <3>1, Zenon
    <3>3. [fileAt[p] EXCEPT !.whole = w] = [by |-> i, whole |-> w] BY <3>2, MadeWhole
    <3>4. FileOf(dir'[p], uploads', data') = [by |-> i, whole |-> w] BY <2>11, <3>1, Zenon
    <3>5. fileAt' = [fileAt EXCEPT ![p] = [by |-> i, whole |-> w]]
      BY <2>2, <2>12, <3>4, FileAtIs
    <3>6. fileAt' = [fileAt EXCEPT ![p].whole = w] BY <2>2, <3>3, <3>5, FileAtIs
    <3> QED BY <3>1, <3>6
  <2>14. Store!Finish(p)
    <3>1. fileAt[p] \notin {None, Folder} BY <2>2, <2>10, NoFile
    <3> QED BY <2>4, <2>10, <2>13, <3>1 DEF Store!Finish, Store!Partial
  <2> QED BY <2>2, <2>9, <2>14
<1> QED BY <1>6, <1>7

\* An upload that ends otherwise takes its own file away.
LEMMA EvictStore ==
  ASSUME BasicInv, KeptInv, StoreInv, evictPendingUpload
  PROVE  StoreInv' /\ (UNCHANGED Store!vars \/ \E p \in Path : Store!Discard(p))
<1>1. PICK i : i = lock.id OBVIOUS
<1>2. lock # None /\ Cleanup(i, TRUE) /\ h' = h BY <1>1 DEF evictPendingUpload
<1>3. i \in DOMAIN uploads BY <1>1, <1>2, TableFacts
<1>4. CASE ~uploads[i].open
  <2>1. UNCHANGED <<uploads, fileVars>> BY <1>2, <1>3, <1>4, CleansClosed
  <2> QED BY <1>2, <2>1, QuietStore
<1>5. CASE uploads[i].open
  <2>1. PICK p : p = uploads[i].path OBVIOUS
  <2>2. /\ p \in Path /\ dir[p] = i /\ i \in Ids
        /\ \A x \in Path : dir[x] = i => x = p
    BY <1>3, <1>5, <2>1, OpenAtPath
  <2>3. Cleans(i, TRUE) BY <1>2, <1>3, CleanupFacts
  <2>4. /\ DOMAIN uploads' = DOMAIN uploads /\ data' = data /\ dir' = [dir EXCEPT ![p] = None]
        /\ \A j \in DOMAIN uploads \ {i} : uploads'[j] = uploads[j]
        /\ uploads'[i].inode = uploads[i].inode
        /\ uploads'[i].BytesReceived = uploads[i].BytesReceived
        /\ uploads'[i].FileSize = uploads[i].FileSize
    BY <1>5, <2>1, <2>3 DEF Cleans
  <2>5. /\ \A x \in Path \ {p} : dir'[x] = dir[x]
        /\ dir'[p] = None
    <3>1. dir \in [Path -> Ids \cup {None, Folder}] BY DEF BasicInv, TypeOK, FilesTyped
    <3> QED BY <2>2, <2>4, <3>1
  <2>6. \A j \in DOMAIN uploads' : Blocks(j)' BY <2>4 DEF StoreInv, Blocks
  <2>7. ASSUME NEW d \in Conn PROVE Finishes(d)'
    <3>1. Finishes(d) /\ (h[d].pc = "finish" => h[d].id \in DOMAIN uploads)
      BY DEF StoreInv, BasicInv, Remembers, Serving
    <3> QED BY <1>2, <2>4, <3>1 DEF Finishes, Complete
  <2>8. ASSUME NEW x \in Path PROVE OneFile(x)'
    <3>1. CASE x = p BY <2>5, <3>1, NoFile DEF OneFile
    <3>2. CASE x # p
      <4>1. OneFile(x) /\ dir'[x] = dir[x] /\ dir[x] # i BY <2>2, <2>5, <3>2 DEF StoreInv
      <4>2. \A y \in Path : dir'[y] = dir[y] \/ dir'[y] \notin Ids BY <2>5, NoFile
      <4> QED BY <2>4, <4>1, <4>2 DEF OneFile, Complete
    <3> QED BY <3>1, <3>2
  <2>9. StoreInv' BY <2>6, <2>7, <2>8 DEF StoreInv
  <2>10. fileAt[p] = [by |-> i, whole |-> FALSE]
    <3>1. fileAt[p] = [by |-> i, whole |-> ~uploads[i].open] BY <2>2, FileAtPath
    <3>2. (~uploads[i].open) = FALSE BY <1>5
    <3> QED BY <3>1, <3>2, Zenon
  <2>11. FileOf(dir'[p], uploads', data') = None BY <2>5, NoFile DEF FileOf
  <2>12. \A x \in Path \ {p} : FileOf(dir'[x], uploads', data') = FileOf(dir[x], uploads, data)
    <3> SUFFICES ASSUME NEW x \in Path \ {p}
                 PROVE  FileOf(dir'[x], uploads', data') = FileOf(dir[x], uploads, data)
      OBVIOUS
    <3>1. OneFile(x) /\ dir[x] # i /\ dir'[x] = dir[x] BY <2>2, <2>5 DEF StoreInv
    <3> QED BY <2>4, <3>1, FileOfSame DEF OneFile
  <2>13. fileAt' = [fileAt EXCEPT ![p] = None] BY <2>2, <2>11, <2>12, FileAtIs
  <2>14. Store!Discard(p)
    <3>1. fileAt[p] \notin {None, Folder} BY <2>2, <2>10, NoFile
    <3> QED BY <2>4, <2>10, <2>13, <3>1 DEF Store!Discard, Store!Partial
  <2> QED BY <2>2, <2>9, <2>14
<1> QED BY <1>4, <1>5

\* What clients may move or delete is not being uploaded.
LEMMA NotPartial ==
  ASSUME BasicInv, KeptInv, StoreInv, MayMeddle = "no", NEW p \in Path, Touchable(p)
  PROVE  Store!Movable(p)
<1>1. p \in FileOps /\ ~BeingUploaded(p) BY DEF Touchable
<1>2. CASE dir[p] \in Ids
  <2>1. PICK i : i = dir[p] OBVIOUS
  <2>2. i \in DOMAIN uploads BY <1>2, <2>1 DEF StoreInv, OneFile
  <2>3. ASSUME uploads[i].open PROVE FALSE
    <3>1. p = uploads[i].path BY <2>1, <2>2, <2>3, OpenAtPath
    <3>2. uploads[i].conn \in Conn BY <2>2, OwnPath
    <3>3. AtHand(i) => h[uploads[i].conn].path = p
      BY <3>1, <3>2 DEF AtHand, BasicInv, Remembers, Serving
    <3>4. InTable(i) \/ Leaving(i) \/ AtHand(i) BY <2>2, <2>3 DEF KeptInv, OpenKept
    <3> QED BY <1>1, <3>1, <3>2, <3>3, <3>4 DEF InTable, Leaving, AtHand, BeingUploaded
  <2>4. fileAt[p] = [by |-> i, whole |-> TRUE]
    <3>1. fileAt[p] = [by |-> i, whole |-> ~uploads[i].open] BY <1>2, <2>1, FileAtPath
    <3>2. (~uploads[i].open) = TRUE BY <2>3
    <3> QED BY <3>1, <3>2, Zenon
  <2> QED BY <1>1, <2>4 DEF Store!Movable, Store!Partial
<1>3. CASE dir[p] \notin Ids
  <2>1. dir[p] \in {None, Folder} BY <1>3 DEF BasicInv, TypeOK, FilesTyped
  <2>2. fileAt[p] \in {None, Folder} BY <1>3, <2>1, FileAtPath
  <2> QED BY <1>1, <2>2 DEF Store!Movable, Store!Partial
<1> QED BY <1>2, <1>3

\* Clients move, delete and create files and folders; the uploads stay.
LEMMA FileOpsStore ==
  ASSUME BasicInv, KeptInv, StoreInv, MayMeddle = "no", NEW c \in Conn, NEW p \in Path, NEW q \in Path
  PROVE  /\ Rename(c, p, q) => StoreInv' /\ Store!Rename(p, q) /\ p # q
         /\ Delete(c, p) => StoreInv' /\ Store!Delete(p)
         /\ CreateFolder(c, p) => StoreInv' /\ Store!CreateFolder(p)
<1>1. dir \in [Path -> Ids \cup {None, Folder}] BY DEF BasicInv, TypeOK, FilesTyped
<1>2. ASSUME UNCHANGED <<h, uploads, data>>, \A x \in Path : dir'[x] \in Ids =>
                \E y \in Path : dir[y] = dir'[x] /\ \A z \in Path : dir'[z] = dir[y] => z = x
      PROVE  StoreInv'
  <2>1. \A j \in DOMAIN uploads' : Blocks(j)' BY <1>2 DEF StoreInv, Blocks
  <2>2. \A d \in Conn : Finishes(d)' BY <1>2 DEF StoreInv, Finishes, Complete
  <2>3. ASSUME NEW x \in Path, dir'[x] \in Ids PROVE OneFile(x)'
    <3>1. PICK y \in Path : dir[y] = dir'[x] /\ \A z \in Path : dir'[z] = dir[y] => z = x
      BY <1>2, <2>3
    <3>2. OneFile(y) BY DEF StoreInv
    <3> QED BY <1>2, <2>3, <3>1, <3>2 DEF OneFile, Complete
  <2>4. \A x \in Path : OneFile(x)' BY <2>3 DEF OneFile
  <2> QED BY <2>1, <2>2, <2>4 DEF StoreInv
<1>3. \A x, y \in Path : (dir[x] \in Ids /\ dir[x] = dir[y]) => x = y BY DEF StoreInv, OneFile
<1>4. ASSUME UNCHANGED <<uploads, data>>, NEW x \in Path, NEW y \in Path, dir'[x] = dir[y]
      PROVE  fileAt'[x] = fileAt[y]
  BY <1>4, FileAtIs
<1>5. ASSUME UNCHANGED <<uploads, data>>, NEW x \in Path, dir'[x] \in {None, Folder}
      PROVE  fileAt'[x] = dir'[x]
  <2>1. fileAt'[x] = FileOf(dir'[x], uploads', data') BY FileAtIs
  <2> QED BY <1>5, <2>1, NoFile DEF FileOf
<1>6. fileAt = [x \in Path |-> fileAt[x]] /\ fileAt' = [x \in Path |-> fileAt'[x]] BY FileAtIs
<1>7. ASSUME Rename(c, p, q) PROVE StoreInv' /\ Store!Rename(p, q) /\ p # q
  <2>1. /\ Touchable(p) /\ Touchable(q) /\ dir[p] # None /\ p # q
        /\ dir[q] = None \/ (dir[p] = Folder <=> dir[q] = Folder)
        /\ dir' = [dir EXCEPT ![q] = dir[p], ![p] = None]
        /\ UNCHANGED <<h, uploads, data>>
    BY <1>7 DEF Rename
  <2>2. /\ dir'[q] = dir[p] /\ dir'[p] = None
        /\ \A x \in Path \ {p, q} : dir'[x] = dir[x]
    BY <1>1, <2>1
  <2>3. StoreInv'
    <3> SUFFICES ASSUME NEW x \in Path, dir'[x] \in Ids
                 PROVE  \E y \in Path : dir[y] = dir'[x] /\ \A z \in Path : dir'[z] = dir[y] => z = x
      BY <1>2, <2>1
    <3>1. x # p BY <2>2, NoFile
    <3>2. CASE x = q
      <4>1. \A z \in Path : dir'[z] = dir[p] => z = q BY <1>3, <2>2, <3>2, NoFile
      <4> QED BY <2>2, <3>2, <4>1
    <3>3. CASE x # q
      <4>1. dir'[x] = dir[x] BY <2>2, <3>1, <3>3
      <4>2. \A z \in Path : dir'[z] = dir[x] => z = x BY <1>3, <2>2, <3>1, <3>3, <4>1, NoFile
      <4> QED BY <4>1, <4>2
    <3> QED BY <3>2, <3>3
  <2>4. Store!Movable(p) /\ Store!Movable(q) BY <2>1, NotPartial
  <2>5. fileAt[p] # None /\ (fileAt[q] = None \/ (fileAt[p] = Folder <=> fileAt[q] = Folder))
    BY <2>1, FileAtPath
  <2>6. fileAt'[q] = fileAt[p] /\ fileAt'[p] = None /\ \A x \in Path \ {p, q} : fileAt'[x] = fileAt[x]
    BY <1>4, <1>5, <2>1, <2>2
  <2>7. fileAt' = [fileAt EXCEPT ![q] = fileAt[p], ![p] = None] BY <1>6, <2>1, <2>6
  <2> QED BY <2>1, <2>3, <2>4, <2>5, <2>7 DEF Store!Rename
<1>8. ASSUME Delete(c, p) \/ CreateFolder(c, p)
      PROVE  /\ StoreInv' /\ Store!Movable(p) /\ UNCHANGED <<h, uploads, data>>
             /\ dir'[p] \in {None, Folder}
             /\ fileAt' = [fileAt EXCEPT ![p] = dir'[p]]
  <2>1. PICK d \in {None, Folder} : dir' = [dir EXCEPT ![p] = d] BY <1>8 DEF Delete, CreateFolder
  <2>2. Touchable(p) /\ UNCHANGED <<h, uploads, data>> BY <1>8 DEF Delete, CreateFolder
  <2>3. /\ dir'[p] \in {None, Folder}
        /\ \A x \in Path \ {p} : dir'[x] = dir[x]
    BY <1>1, <2>1
  <2>4. StoreInv'
    <3> SUFFICES ASSUME NEW x \in Path, dir'[x] \in Ids
                 PROVE  \E y \in Path : dir[y] = dir'[x] /\ \A z \in Path : dir'[z] = dir[y] => z = x
      BY <1>2, <2>2
    <3>1. x # p /\ dir'[x] = dir[x] BY <2>3, NoFile
    <3>2. \A z \in Path : dir'[z] = dir[x] => z = x BY <1>3, <2>3, <3>1, NoFile
    <3> QED BY <3>1, <3>2
  <2>5. Store!Movable(p) BY <2>2, NotPartial
  <2>6. fileAt'[p] = dir'[p] /\ \A x \in Path \ {p} : fileAt'[x] = fileAt[x]
    BY <1>4, <1>5, <2>2, <2>3
  <2>7. fileAt' = [fileAt EXCEPT ![p] = dir'[p]] BY <1>6, <2>6
  <2> QED BY <2>2, <2>3, <2>4, <2>5, <2>7
<1>9. ASSUME Delete(c, p) PROVE StoreInv' /\ Store!Delete(p)
  <2>1. dir[p] # None /\ dir'[p] = None BY <1>1, <1>9 DEF Delete
  <2>2. fileAt[p] # None BY <2>1, FileAtPath
  <2> QED BY <1>8, <1>9, <2>1, <2>2 DEF Store!Delete
<1>10. ASSUME CreateFolder(c, p) PROVE StoreInv' /\ Store!CreateFolder(p)
  <2>1. dir[p] = None /\ dir'[p] = Folder BY <1>1, <1>10 DEF CreateFolder
  <2>2. fileAt[p] = None BY <2>1, FileAtPath
  <2> QED BY <1>8, <1>10, <2>1, <2>2 DEF Store!CreateFolder
<1> QED BY <1>7, <1>9, <1>10

LEMMA InitStore == Init => StoreInv /\ Store!Init
<1> SUFFICES ASSUME Init PROVE StoreInv /\ Store!Init OBVIOUS
<1>1. /\ DOMAIN uploads = {} /\ dir = [p \in Path |-> None]
      /\ \A c \in Conn : h[c].pc = "none"
  BY DEF Init, Idle
<1>2. StoreInv BY <1>1, NoFile DEF StoreInv, OneFile, Finishes
<1>3. fileAt = [p \in Path |-> None]
  <2>1. \A p \in Path : FileOf(dir[p], uploads, data) = None BY <1>1, NoFile DEF FileOf
  <2> QED BY <2>1, FileAtIs
<1> QED BY <1>1, <1>2, <1>3 DEF Store!Init

LEMMA NextStore ==
  ASSUME Undisturbed, BasicInv, KeptInv, StoreInv, [Next]_vars
  PROVE  StoreInv' /\ [Store!Next]_(Store!vars)
<1>1. OwnHomes /\ MayMeddle = "no" BY DEF Undisturbed
<1> DEFINE Still == UNCHANGED Store!vars
           Result == StoreInv' /\ (Store!Next \/ Still)
<1> SUFFICES Result OBVIOUS
<1>2. \A p \in Path : Store!Begin(p) \/ Store!Finish(p) \/ Store!Discard(p) \/ Store!Delete(p)
                     \/ Store!CreateFolder(p) => Store!Next
  BY DEF Store!Next
<1>3. \A p, q \in Path : Store!Rename(p, q) /\ p # q => Store!Next BY DEF Store!Next
<1> HIDE DEF Still
<1>4. ASSUME NEW c \in Conn, Work(c) PROVE Result
  <2>1. CASE UploadCreate(c) BY <1>2, <2>1, CreateStore
  <2>2. CASE BlockWrite(c) BY <1>1, <2>2, WriteStore DEF Still
  <2>3. CASE BlockFinish(c) BY <1>2, <2>3, FinishStore DEF Still
  <2>4. CASE ~(UploadCreate(c) \/ BlockWrite(c) \/ BlockFinish(c))
    <3>1. StoreInv' /\ Still BY <1>4, <2>4, WorkStore DEF Work, Still
    <3> QED BY <3>1
  <2> QED BY <2>1, <2>2, <2>3, <2>4
<1>5. ASSUME NEW c \in Conn, Message(c) PROVE Result
  <2>1. CASE \E p \in Home[c], n \in Size : UploadLen(c, p, n) BY <2>1, MessageStore DEF Still
  <2>2. CASE \E p \in Path : CancelGet(c, p)
    <3>1. PICK p \in Path : Get(c, p, "remove", 0) BY <2>2 DEF CancelGet
    <3>2. 0 \in 0..MaxBlocks BY FileUploadsAssumption
    <3> QED BY <3>1, <3>2, MessageStore DEF Still
  <2>3. CASE \E p \in Path, n \in 1..MaxBlocks : BlockGet(c, p, n)
    <3>1. PICK p \in Path, n \in 1..MaxBlocks : Get(c, p, "readd", n) BY <2>3 DEF BlockGet
    <3>2. n \in 0..MaxBlocks BY FileUploadsAssumption
    <3> QED BY <3>1, <3>2, MessageStore DEF Still
  <2>4. CASE \E p \in Path : Delete(c, p) \/ CreateFolder(c, p)
    <3>1. PICK p \in Path : Delete(c, p) \/ CreateFolder(c, p) BY <2>4
    <3>2. StoreInv' /\ (Store!Delete(p) \/ Store!CreateFolder(p)) BY <1>1, <3>1, FileOpsStore
    <3> QED BY <1>2, <3>2
  <2>5. CASE \E p, q \in Path : Rename(c, p, q)
    <3>1. PICK p \in Path, q \in Path : Rename(c, p, q) BY <2>5
    <3>2. StoreInv' /\ Store!Rename(p, q) /\ p # q BY <1>1, <3>1, FileOpsStore
    <3> QED BY <1>3, <3>2
  <2> QED BY <1>5, <2>1, <2>2, <2>3, <2>4, <2>5 DEF Message
<1>6. ASSUME UNCHANGED <<h, uploads, fileVars>> PROVE Result
  <2>1. \A d \in Conn : h'[d].pc = "finish" => (h[d].pc = "finish" /\ h'[d].id = h[d].id) BY <1>6
  <2> QED BY <1>6, <2>1, QuietStore DEF Still
<1>7. ASSUME \/ ShutdownSignal \/ Exit \/ \E c \in Conn : CloseOnShutdown(c)
             \/ \E p \in Path : Expire(p) \/ Sweep(p)
      PROVE  Result
  BY <1>6, <1>7 DEF ShutdownSignal, Exit, CloseOnShutdown, Expire, Sweep
<1>8. ASSUME NEW c \in Conn, Connect(c) \/ ReadFails(c) PROVE Result
  BY <1>8, WorkStore, MessageStore DEF Still
<1>9. CASE evictPendingUpload BY <1>2, <1>9, EvictStore DEF Still
<1>10. CASE UNCHANGED vars BY <1>6, <1>10 DEF vars
<1> QED BY <1>4, <1>5, <1>7, <1>8, <1>9, <1>10 DEF Next

\* The uploads implement FileStore: every file is that of one upload, and is whole
\* or on its way to be whole or gone; nothing else changes a file that is whole.
\* For any capacity and any delays, as long as clients upload to paths of their
\* own and leave the paths of uploads alone.
THEOREM ImplementsStore == Undisturbed => (Spec => StoreRefined)
<1> SUFFICES ASSUME Undisturbed PROVE Spec => StoreRefined OBVIOUS
<1>1. Spec => [](BasicInv /\ KeptInv) BY Kept
<1>2. Init => StoreInv /\ Store!Init BY InitStore
<1>3. BasicInv /\ KeptInv /\ StoreInv /\ [Next]_vars => StoreInv' /\ [Store!Next]_(Store!vars)
  BY NextStore
<1> QED BY <1>1, <1>2, <1>3, PTL DEF Spec, StoreRefined, Store!Spec

-----------------------------------------------------------------------------
(* The mutexes.  A clean-up waits for the mutex of its upload with the     *)
(* lock of the table held: what it waits for must not need that lock.      *)

\* Who holds the mutex of an upload is about to write to it, and does not wait in
\* a clean-up of its own.
Writing(i) == h[uploads[i].conn].pc = "write" /\ h[uploads[i].conn].id = i

WaitInv ==
  /\ \A i \in held : Writing(i)
  /\ lock # None /\ lock.by \in Conn => h[lock.by].pc # "write"

\* A handler that neither has nor takes a mutex.
LEMMA MoveWaits ==
  ASSUME BasicInv, WaitInv, NEW c \in Conn, h[c].pc # "write", h'[c].pc # "write",
         \A d \in Conn \ {c} : h'[d] = h[d], UNCHANGED held, Grows,
         lock' \in {lock, None} \/ lock'.by = c
  PROVE  WaitInv'
<1>1. ASSUME NEW i \in held PROVE Writing(i)'
  <2>1. i \in DOMAIN uploads BY DEF BasicInv, TypeOK, UploadsTyped
  <2>2. uploads[i].conn \in Conn /\ uploads'[i].conn = uploads[i].conn BY <2>1, OwnPath DEF Grows
  <2>3. Writing(i) BY DEF WaitInv
  <2> QED BY <2>2, <2>3 DEF Writing
<1>2. lock' # None /\ lock'.by \in Conn => h'[lock'.by].pc # "write" BY DEF WaitInv
<1> QED BY <1>1, <1>2 DEF WaitInv

\* A step of no handler.
LEMMA StillWaits ==
  ASSUME BasicInv, WaitInv, UNCHANGED <<h, held>>, Grows,
         lock' \in {lock, None} \/ lock'.by = Sweeper
  PROVE  WaitInv'
<1>1. ASSUME NEW i \in held PROVE Writing(i)'
  <2>1. i \in DOMAIN uploads BY DEF BasicInv, TypeOK, UploadsTyped
  <2>2. uploads'[i].conn = uploads[i].conn BY <2>1 DEF Grows
  <2>3. Writing(i) BY DEF WaitInv
  <2> QED BY <2>2, <2>3 DEF Writing
<1>2. Sweeper \notin Conn BY FileUploadsAssumption
<1> QED BY <1>1, <1>2 DEF WaitInv

LEMMA WorkWaits ==
  ASSUME BasicInv, WaitInv, NEW c \in Conn,
         \/ Connect(c) \/ UploadPeek(c) \/ UploadStat(c) \/ UploadCreateFails(c) \/ UploadAdd(c)
         \/ BlockAdd(c) \/ RemoveAndAnswer(c) \/ BlockFinish(c)
         \/ ClearPeek(c) \/ ClearRemove(c) \/ CloseConn(c)
  PROVE  WaitInv'
<1>1. h \in [Conn -> Handler] BY HandlerFacts
<1>2. h[c].pc # "write" /\ UNCHANGED held
  BY DEF Connect, UploadPeek, UploadStat, UploadCreateFails, UploadAdd, BlockAdd,
         RemoveAndAnswer, BlockFinish, ClearPeek, ClearRemove, CloseConn
<1>3. \/ Answer(c)
      \/ h[c].keys # <<>> /\ NextKey(c)
      \/ \E pc \in {"stat", "create", "lock", "clearRemove", "closed", "ack"} : Goto(c, pc)
  <2>1. h[c].pc = "clearRemove" => h[c].keys # <<>> BY DEF BasicInv, Remembers
  <2> QED BY <2>1
    DEF Connect, UploadPeek, UploadStat, UploadCreateFails, UploadAdd, BlockAdd, Answer,
        RemoveAndAnswer, BlockFinish, ClearPeek, ClearRemove, CloseConn
<1>4. /\ h'[c].pc # "write"
      /\ \A d \in Conn \ {c} : h'[d] = h[d]
  BY <1>1, <1>3, AnswerFacts, GotoFacts, NextKeyFacts
<1>5. lock' \in {lock, None} \/ lock'.by = c
  <2>1. CASE \/ Connect(c) \/ UploadPeek(c) \/ UploadStat(c) \/ UploadCreateFails(c)
             \/ BlockFinish(c) \/ ClearPeek(c) \/ CloseConn(c)
    BY <2>1 DEF Connect, UploadPeek, UploadStat, UploadCreateFails, BlockFinish, ClearPeek,
                CloseConn, tableVars
  <2>2. CASE UploadAdd(c) \/ BlockAdd(c)
    <3>1. AddEntry(h[c].path, h[c].id, c) BY <2>2 DEF UploadAdd, BlockAdd
    <3>2. \E x : lock' = lock \/ lock' = [by |-> c, id |-> x] BY <3>1 DEF AddEntry
    <3> QED BY <3>2
  <2>3. CASE RemoveAndAnswer(c) \/ ClearRemove(c)
    BY <2>3 DEF RemoveAndAnswer, ClearRemove, RemoveEntry, tableVars
  <2> QED BY <2>1, <2>2, <2>3
<1>6. Grows
  <2>1. CASE BlockFinish(c)
    <3>1. /\ h[c].pc = "finish" /\ Cleanup(h[c].id, FALSE) /\ h[c].id \notin held
      BY <2>1 DEF BlockFinish
    <3>2. h[c].id \in DOMAIN uploads BY <3>1 DEF BasicInv, Remembers, Serving
    <3>3. Cleans(h[c].id, FALSE) BY <3>1, <3>2, CleanupFacts
    <3> QED BY <1>2, <3>1, <3>2, <3>3, CleanupBasic
  <2>2. CASE ~BlockFinish(c)
    <3>1. UNCHANGED uploads
      BY <2>2 DEF Connect, UploadPeek, UploadStat, UploadCreateFails, UploadAdd, BlockAdd,
                  RemoveAndAnswer, ClearPeek, ClearRemove, CloseConn
    <3> QED BY <3>1, SameUploads DEF BasicInv
  <2> QED BY <2>1, <2>2
<1> QED BY <1>2, <1>4, <1>5, <1>6, MoveWaits

LEMMA CreateWaits == ASSUME BasicInv, WaitInv, NEW c \in Conn, UploadCreate(c) PROVE WaitInv'
<1>1. PICK p, i : p = h[c].path /\ i = Len(uploads) + 1 OBVIOUS
<1>2. Creates(c, p, i) BY <1>1, CreateUpload
<1>3. /\ h'[c].pc \in {"read", "add"}
      /\ \A d \in Conn \ {c} : h'[d] = h[d]
  BY CreateHandler
<1>4. Grows
  <2>1. Len(uploads) \in Nat BY HandlerFacts
  <2> QED BY <1>1, <1>2, <2>1 DEF Grows, Creates
<1>5. h[c].pc = "create" /\ UNCHANGED <<held, lock>> BY DEF UploadCreate, tableVars
<1> QED BY <1>3, <1>4, <1>5, MoveWaits

LEMMA MessageWaits ==
  ASSUME BasicInv, WaitInv, NEW c \in Conn,
         \/ \E p \in Home[c], n \in Size : UploadLen(c, p, n)
         \/ \E p \in Path, pc \in {"readd", "remove"}, n \in 0..MaxBlocks : Get(c, p, pc, n)
         \/ ReadFails(c)
  PROVE  WaitInv'
<1>1. /\ h \in [Conn -> Handler] /\ h[c].pc = "read" /\ UNCHANGED <<uploads, held, lock>>
  BY HandlerFacts DEF UploadLen, Get, ReadFails, tableVars
<1>2. \E r : r.pc # "write" /\ h' = [h EXCEPT ![c] = r]
  <2>1. CASE \E p \in Home[c], n \in Size : UploadLen(c, p, n)
    <3>1. PICK p \in Home[c], n \in Size : UploadLen(c, p, n) BY <2>1
    <3> DEFINE r == [Idle EXCEPT !.pc = "peek", !.path = p, !.size = n]
    <3>2. h' = [h EXCEPT ![c] = r] /\ r.pc = "peek" BY <3>1 DEF UploadLen, Idle
    <3> QED BY <3>2
  <2>2. CASE \E p \in Path, pc \in {"readd", "remove"}, n \in 0..MaxBlocks : Get(c, p, pc, n)
    <3>1. PICK p \in Path, pc \in {"readd", "remove"}, n \in 0..MaxBlocks : Get(c, p, pc, n) BY <2>2
    <3> DEFINE r == [Idle EXCEPT !.pc = pc, !.path = p, !.id = pending[p], !.size = n]
    <3>2. h' = [h EXCEPT ![c] = r] /\ r.pc = pc BY <3>1 DEF Get, Idle
    <3> QED BY <3>2
  <2>3. CASE ReadFails(c)
    <3> DEFINE keys == Only(order, DOMAIN pending \ expired)
               r == [h[c] EXCEPT !.pc = "clear", !.keys = keys]
    <3>1. h' = [h EXCEPT ![c] = r] BY <2>3 DEF ReadFails
    <3>2. h[c] \in Handler BY <1>1
    <3> HIDE DEF keys
    <3>3. r.pc = "clear" BY <3>2 DEF Handler
    <3> HIDE DEF r
    <3> QED BY <3>1, <3>3
  <2> QED BY <2>1, <2>2, <2>3
<1>3. /\ h'[c].pc # "write"
      /\ \A d \in Conn \ {c} : h'[d] = h[d]
  BY <1>1, <1>2
<1>4. Grows BY <1>1, SameUploads DEF BasicInv
<1> QED BY <1>1, <1>3, <1>4, MoveWaits

\* A handler takes the mutex of its upload when it is free, to write.
LEMMA LockWaits == ASSUME BasicInv, WaitInv, NEW c \in Conn, BlockLock(c) PROVE WaitInv'
<1>1. PICK i : i = h[c].id OBVIOUS
<1>2. /\ Runs(c) /\ h[c].pc = "lock" /\ i \notin held /\ UNCHANGED <<uploads, lock>>
  BY <1>1 DEF BlockLock, tableVars
<1>3. h \in [Conn -> Handler] BY HandlerFacts
<1>4. Grows BY <1>2, SameUploads DEF BasicInv
<1>5. ASSUME held' = held, Answer(c) \/ Goto(c, "remove") PROVE WaitInv'
  <2>1. /\ h'[c].pc # "write"
        /\ \A d \in Conn \ {c} : h'[d] = h[d]
    BY <1>3, <1>5, AnswerFacts, GotoFacts
  <2> QED BY <1>2, <1>4, <1>5, <2>1, MoveWaits
<1>6. ASSUME held' = held \cup {i}, Goto(c, "write") PROVE WaitInv'
  <2>1. /\ h'[c].pc = "write" /\ h'[c].id = i
        /\ \A d \in Conn \ {c} : h'[d] = h[d]
    BY <1>1, <1>3, <1>6, GotoFacts
  <2>2. i \in DOMAIN uploads /\ uploads[i].conn = c BY <1>1, <1>2 DEF BasicInv, Remembers, Serving
  <2>3. ASSUME NEW j \in held PROVE Writing(j)'
    <3>1. j \in DOMAIN uploads BY DEF BasicInv, TypeOK, UploadsTyped
    <3>2. Writing(j) /\ uploads[j].conn \in Conn BY <3>1, OwnPath DEF WaitInv
    <3>3. uploads[j].conn # c BY <1>2, <3>2 DEF Writing
    <3> QED BY <1>2, <2>1, <3>2, <3>3 DEF Writing
  <2>4. Writing(i)' BY <1>2, <2>1, <2>2 DEF Writing
  <2>5. lock # None /\ lock.by \in Conn => h'[lock.by].pc # "write"
    <3>1. lock # None => lock.by # c BY <1>2 DEF Runs
    <3> QED BY <2>1, <3>1 DEF WaitInv
  <2> QED BY <1>2, <1>6, <2>3, <2>4, <2>5 DEF WaitInv
<1> QED BY <1>1, <1>5, <1>6 DEF BlockLock

\* ... and gives it back with the write.
LEMMA WriteWaits ==
  ASSUME BasicInv, WaitInv, NEW c \in Conn, BlockWrite(c) \/ BlockWriteFails(c)
  PROVE  WaitInv'
<1>1. PICK i : i = h[c].id OBVIOUS
<1>2. /\ h[c].pc = "write" /\ held' = held \ {i} /\ lock' = lock
      /\ \A j \in DOMAIN uploads : uploads'[j].conn = uploads[j].conn
      /\ h'[c].pc # "write"
      /\ \A d \in Conn \ {c} : h'[d] = h[d]
  <2>1. CASE BlockWrite(c)
    <3>1. Writes(c, i) BY <1>1, <2>1, WriteFacts
    <3> QED BY <3>1 DEF Writes, tableVars
  <2>2. CASE BlockWriteFails(c)
    <3>1. /\ h[c].pc = "write" /\ Goto(c, "remove") /\ held' = held \ {i}
          /\ UNCHANGED <<uploads, lock>>
      BY <1>1, <2>2 DEF BlockWriteFails, tableVars
    <3>2. h \in [Conn -> Handler] BY HandlerFacts
    <3> QED BY <3>1, <3>2, GotoFacts
  <2> QED BY <2>1, <2>2
<1>3. ASSUME NEW j \in held \ {i} PROVE Writing(j)'
  <2>1. j \in DOMAIN uploads BY DEF BasicInv, TypeOK, UploadsTyped
  <2>2. Writing(j) /\ uploads[j].conn \in Conn BY <2>1, OwnPath DEF WaitInv
  <2>3. uploads[j].conn # c BY <1>1, <2>2 DEF Writing
  <2> QED BY <1>2, <2>1, <2>2, <2>3 DEF Writing
<1> QED BY <1>2, <1>3 DEF WaitInv

LEMMA NextWaits == BasicInv /\ WaitInv /\ [Next]_vars => WaitInv'
<1> SUFFICES ASSUME BasicInv, WaitInv, [Next]_vars PROVE WaitInv' OBVIOUS
<1>1. ASSUME NEW c \in Conn, Work(c) PROVE WaitInv'
  BY <1>1, WorkWaits, CreateWaits, LockWaits, WriteWaits DEF Work
<1>2. ASSUME UNCHANGED <<h, held, uploads, lock>> PROVE WaitInv'
  <2>1. Grows BY <1>2, SameUploads DEF BasicInv
  <2> QED BY <1>2, <2>1, StillWaits
<1>3. ASSUME NEW c \in Conn, Message(c) PROVE WaitInv'
  <2>1. CASE \E p \in Home[c], n \in Size : UploadLen(c, p, n) BY <2>1, MessageWaits
  <2>2. CASE \E p \in Path : CancelGet(c, p)
    <3>1. PICK p \in Path : Get(c, p, "remove", 0) BY <2>2 DEF CancelGet
    <3>2. 0 \in 0..MaxBlocks BY FileUploadsAssumption
    <3> QED BY <3>1, <3>2, MessageWaits
  <2>3. CASE \E p \in Path, n \in 1..MaxBlocks : BlockGet(c, p, n)
    <3>1. PICK p \in Path, n \in 1..MaxBlocks : Get(c, p, "readd", n) BY <2>3 DEF BlockGet
    <3>2. n \in 0..MaxBlocks BY FileUploadsAssumption
    <3> QED BY <3>1, <3>2, MessageWaits
  <2>4. CASE \/ \E p \in Path : Delete(c, p) \/ CreateFolder(c, p)
             \/ \E p, q \in Path : Rename(c, p, q)
    BY <1>2, <2>4 DEF Delete, CreateFolder, Rename, tableVars
  <2> QED BY <1>3, <2>1, <2>2, <2>3, <2>4 DEF Message
<1>4. ASSUME ShutdownSignal \/ Exit \/ \E c \in Conn : CloseOnShutdown(c) PROVE WaitInv'
  BY <1>2, <1>4 DEF ShutdownSignal, Exit, CloseOnShutdown, tableVars
<1>5. ASSUME NEW p \in Path, Expire(p) PROVE WaitInv' BY <1>2, <1>5 DEF Expire
<1>6. ASSUME NEW p \in Path, Sweep(p) PROVE WaitInv'
  <2>1. UNCHANGED <<h, held, uploads>> /\ RemoveEntry(p, Sweeper) BY <1>6 DEF Sweep
  <2>2. lock' = lock \/ lock'.by = Sweeper BY <2>1 DEF RemoveEntry, tableVars
  <2>3. Grows BY <2>1, SameUploads DEF BasicInv
  <2> QED BY <2>1, <2>2, <2>3, StillWaits
<1>7. CASE evictPendingUpload
  <2>1. /\ lock # None /\ lock.id \notin held /\ Cleanup(lock.id, TRUE) /\ lock' = None
        /\ UNCHANGED <<h, held>>
    BY <1>7 DEF evictPendingUpload
  <2>2. lock.id \in DOMAIN uploads BY <2>1, TableFacts
  <2>3. Cleans(lock.id, TRUE) BY <2>1, <2>2, CleanupFacts
  <2>4. Grows BY <2>1, <2>2, <2>3, CleanupBasic
  <2> QED BY <2>1, <2>4, StillWaits
<1>8. CASE UNCHANGED vars BY <1>2, <1>8 DEF vars, tableVars
<1>9. CASE Next
  BY <1>1, <1>3, <1>4, <1>5, <1>6, <1>7, <1>9, WorkWaits, MessageWaits DEF Next
<1> QED BY <1>8, <1>9

\* Whoever holds the mutex of an upload is a handler that can go on at once.
NoCircularWait ==
  \A i \in held : phase # "exited" => \E c \in Conn : h[c].id = i /\ h[c].pc = "write" /\ Runs(c)

\* No deadlock between the lock of the table and the mutexes of the uploads, which
\* a clean-up takes one inside the other: a clean-up that waits for a mutex with the
\* table locked gets it.  Whatever the clients do, and for any delays.
THEOREM NeverDeadlocks == Spec => []NoCircularWait
<1>1. Init => WaitInv BY DEF Init, WaitInv
<1>2. BasicInv /\ WaitInv => NoCircularWait
  <2> SUFFICES ASSUME BasicInv, WaitInv, NEW i \in held, phase # "exited"
               PROVE  \E c \in Conn : h[c].id = i /\ h[c].pc = "write" /\ Runs(c)
    BY DEF NoCircularWait
  <2>1. i \in DOMAIN uploads BY DEF BasicInv, TypeOK, UploadsTyped
  <2>2. uploads[i].conn \in Conn /\ Writing(i) BY <2>1, OwnPath DEF WaitInv
  <2>3. Runs(uploads[i].conn) BY <2>2 DEF Runs, WaitInv, Writing
  <2> QED BY <2>2, <2>3 DEF Writing
<1>3. Spec => []BasicInv BY Basic
<1> QED BY <1>1, <1>2, <1>3, NextWaits, PTL DEF Spec
=============================================================================
