-------------------------- MODULE HostsEditingProofs --------------------------
(***************************************************************************)
(* The life cycle over the text of the hosts file implements the one that  *)
(* knows of the file only what its block and its edits are: what is proved *)
(* of the latter holds of the former.  What only the text shows is proved  *)
(* from what hosts.rs does to any text with at most one block in it: strip *)
(* leaves the user's lines, apply adds the block to them, and both again   *)
(* changes nothing.                                                        *)
(***************************************************************************)
EXTENDS HostsEditing, DaemonLifecycleProofs, CommonLemmas, FiniteSetTheorems

-----------------------------------------------------------------------------
(* The text of the file and what is known of it.                           *)

LEMMA FileStepIsStep ==
  ASSUME NEW p \in Procs, StageText(p) \/ InstallText(p) \/ CutShort(p)
  PROVE  Next
<1>1. CASE StageText(p)
  <2>1. (p \in Daemons /\ StageEnable(p)) \/ StageDisable(p)
    BY <1>1 DEF StageText
  <2>2. QED
    BY <2>1 DEF Next, DaemonNext, DaemonStep
<1>2. CASE InstallText(p)
  <2>1. (p \in Daemons /\ InstallEnable(p)) \/ InstallDisable(p)
    BY <1>2 DEF InstallText
  <2>2. QED
    BY <2>1 DEF Next, DaemonNext, DaemonStep, BatchStep
<1>3. CASE CutShort(p)
  <2>1. (p \in Daemons /\ EnableFails(p)) \/ DisableFails(p) \/ Kill(p)
    BY <1>3 DEF CutShort
  <2>2. QED
    BY <2>1 DEF Next, DaemonNext, DaemonStep, BatchStep
<1>4. QED
  BY <1>1, <1>2, <1>3

LEMMA ElsewhereIsStep == Elsewhere => Next
<1>1. ASSUME NEW d \in Daemons,
             \/ Start(d) \/ BootFails(d) \/ FlushEnable(d) \/ EnableFails(d)
             \/ CheckResolver(d) \/ ReloadResolver(d) \/ Recheck(d)
             \/ BindControl(d) \/ BindControlFails(d) \/ BindListener(d)
             \/ BindListenerFails(d) \/ Shutdown(d) \/ PostStop(d) \/ Interrupt(d)
             \/ InterruptUnarmed(d)
      PROVE  Next
  BY <1>1 DEF Next, DaemonNext, DaemonStep
<1>2. ASSUME NEW p \in Procs, FlushDisable(p) \/ DisableFails(p) \/ Kill(p)
      PROVE  Next
  BY <1>2 DEF Next, BatchStep
<1>3. ForeignBinds \/ ForeignLeaves => Next
  BY DEF Next
<1>4. QED
  BY <1>1, <1>2, <1>3 DEF Elsewhere

(* Whatever happens to the text, the processes and what is known of the    *)
(* file take a step of the life cycle, or none: a copy that is cut short   *)
(* is a batch that fails, or a kill (privilege.rs:227).                    *)
THEOREM TextImplementsLifecycle == TextSpec => Spec
<1>1. TextInit => Init
  BY DEF TextInit
<1>2. TextNext => Next
  BY FileStepIsStep, ElsewhereIsStep DEF TextNext, EditText, Next
<1>3. UNCHANGED <<vars, textVars>> => UNCHANGED vars
  OBVIOUS
<1>4. QED
  BY <1>1, <1>2, <1>3, PTL DEF TextSpec, Spec

(* A lone daemon that serves is redirected to, also where copies of the    *)
(* hosts file may be cut short (main.rs:595-647, privilege.rs:227).    *)
THEOREM TextServingIsRedirected ==
  ASSUME \A p, q \in Procs : p = q
  PROVE  TextSpec => []ServingIsRedirected
  BY TextImplementsLifecycle, LoneDaemonIsRedirected

-----------------------------------------------------------------------------
(* The lines of a text.                                                    *)

Plain == Words \cup Terminators
Symbols == Plain \cup {BEGIN, END}

LEMMA Alphabet ==
  /\ BEGIN \in Symbols /\ END \in Symbols /\ BEGIN # END /\ "\n" # "\r"
  /\ Terminators = {"\n", "\r"} /\ "\n" \in Plain /\ "\r" \in Plain /\ Plain \subseteq Symbols
  /\ BEGIN \notin Plain /\ END \notin Plain
BY HostsAssumption DEF Plain, Symbols, Terminators, BEGIN, END

(* What each symbol of a text adds to its lines.                           *)
Marked(t) ==
  [k \in DOMAIN t |-> IF t[k] \in Terminators THEN <<>>
                      ELSE IF k = 1 \/ t[k - 1] \in Terminators THEN <<"\n", t[k]>> ELSE <<t[k]>>]

LEMMA LinesMarked == ASSUME NEW t PROVE Lines(t) = FlattenSeq(Marked(t))
<1> DEFINE starts == {k \in DOMAIN t : k = 1 \/ t[k - 1] \in Terminators}
           f == [k \in DOMAIN t |->
                  IF t[k] \in Terminators THEN <<>>
                  ELSE IF k \in starts THEN <<"\n", t[k]>> ELSE <<t[k]>>]
<1>1. Lines(t) = FlattenSeq(f)
  BY DEF Lines
<1>2. f = Marked(t)
  BY DEF Marked
<1>3. QED
  BY <1>1, <1>2

LEMMA MarkedTyped ==
  ASSUME NEW t \in Seq(Symbols)
  PROVE  Marked(t) \in Seq(Seq(Symbols)) /\ Len(Marked(t)) = Len(t) /\ DOMAIN Marked(t) = 1..Len(t)
<1>1. ASSUME NEW k \in 1..Len(t) PROVE Marked(t)[k] \in Seq(Symbols)
  <2> DEFINE x == t[k]
             bare == <<x>>
             led == <<"\n", x>>
  <2>1. x \in Symbols /\ "\n" \in Symbols
    BY Alphabet
  <2>2. <<>> \in Seq(Symbols) /\ bare \in Seq(Symbols) /\ led \in Seq(Symbols)
    <3> HIDE DEF x
    <3>1. QED
      BY <2>1
  <2>3. Marked(t)[k] = IF x \in Terminators THEN <<>>
                       ELSE IF k = 1 \/ t[k - 1] \in Terminators THEN led ELSE bare
    BY DEF Marked
  <2> HIDE DEF x, bare, led
  <2>4. QED
    BY <2>2, <2>3
<1>2. DOMAIN t = 1..Len(t) /\ Len(t) \in Nat
  OBVIOUS
<1> DEFINE m == Marked(t)
<1>3. m = [k \in 1..Len(t) |-> m[k]]
  BY <1>2 DEF Marked
<1> HIDE DEF m
<1>4. m \in Seq(Seq(Symbols)) /\ Len(m) = Len(t) /\ DOMAIN m = 1..Len(t)
  <2> DEFINE R == Seq(Symbols)
             n == Len(t)
  <2>1. \A k \in 1..n : m[k] \in R
    BY <1>1 DEF m
  <2>2. n \in Nat /\ m = [k \in 1..n |-> m[k]]
    BY <1>2, <1>3
  <2> HIDE DEF R, n
  <2>3. m \in Seq(R) /\ Len(m) = n /\ DOMAIN m = 1..n
    BY <2>1, <2>2
  <2>4. QED
    BY <2>3 DEF R, n
<1>5. QED
  BY <1>4 DEF m

LEMMA LinesTyped ==
  ASSUME NEW t \in Seq(Symbols)
  PROVE  Lines(t) \in Seq(Symbols)
<1> DEFINE m == Marked(t)
<1>1. m \in Seq(Seq(Symbols)) /\ <<>> \in Seq(Symbols)
  BY MarkedTyped
<1> HIDE DEF m
<1>2. FlattenSeq(m) \in Seq(Symbols)
  BY <1>1, FlattenStep
<1>3. QED
  BY <1>2, LinesMarked DEF m

(* Two texts with a line's end between them have the lines of both.        *)
LEMMA LinesConcat ==
  ASSUME NEW a \in Seq(Symbols), NEW b \in Seq(Symbols),
         \/ a = <<>> \/ b = <<>>
         \/ a[Len(a)] \in Terminators \/ b[1] \in Terminators
  PROVE  Lines(a \o b) = Lines(a) \o Lines(b)
<1> DEFINE t == a \o b
           n == Len(a)
           ma == Marked(a)
           mb == Marked(b)
           mt == Marked(t)
<1>1. /\ t \in Seq(Symbols) /\ n \in Nat /\ Len(b) \in Nat /\ Len(t) = n + Len(b)
      /\ DOMAIN a = 1..n /\ DOMAIN b = 1..Len(b) /\ DOMAIN t = 1..(n + Len(b))
      /\ \A k \in 1..(n + Len(b)) : t[k] = IF k <= n THEN a[k] ELSE b[k - n]
  BY ConcatProperties
<1> HIDE DEF t
<1>2. /\ ma \in Seq(Seq(Symbols)) /\ mb \in Seq(Seq(Symbols)) /\ mt \in Seq(Seq(Symbols))
      /\ Len(ma) = n /\ Len(mb) = Len(b) /\ Len(mt) = n + Len(b)
  BY <1>1, MarkedTyped
<1>3. ASSUME NEW k \in 1..n
      PROVE  mt[k] = ma[k]
  <2>1. k \in DOMAIN t /\ k \in DOMAIN a /\ t[k] = a[k]
    BY <1>1
  <2>2. k # 1 => t[k - 1] = a[k - 1]
    BY <1>1
  <2>3. QED
    BY <2>1, <2>2 DEF Marked
<1>4. ASSUME NEW k \in (n + 1)..(n + Len(b))
      PROVE  mt[k] = mb[k - n]
  <2>1. k \in DOMAIN t /\ k - n \in DOMAIN b /\ t[k] = b[k - n]
    BY <1>1
  <2>2. CASE k = n + 1
    <3>1. k - n = 1 /\ b # <<>>
      BY <1>1, <2>1, <2>2
    <3>2. k # 1 => a # <<>> /\ t[k - 1] = a[Len(a)]
      BY <1>1, <2>2
    <3>3. b[1] \in Terminators \/ k = 1 \/ t[k - 1] \in Terminators
      BY <3>1, <3>2
    <3>4. QED
      BY <2>1, <3>1, <3>3 DEF Marked
  <2>3. CASE k # n + 1
    <3>1. k # 1 /\ k - n # 1 /\ k - 1 \in 1..(n + Len(b)) /\ ~(k - 1 <= n) /\ (k - 1) - n = (k - n) - 1
      BY <1>1, <2>3
    <3>2. t[k - 1] = b[(k - n) - 1]
      BY <1>1, <3>1
    <3>3. QED
      BY <2>1, <3>1, <3>2 DEF Marked
  <2>4. QED
    BY <2>2, <2>3
<1> HIDE DEF ma, mb, mt, n
<1>5. mt = ma \o mb
  <2> DEFINE R == Seq(Symbols)
             l == Len(b)
             c == ma \o mb
  <2>1. ma \in Seq(R) /\ mb \in Seq(R) /\ mt \in Seq(R) /\ Len(ma) = n /\ Len(mb) = l /\ Len(mt) = n + l
        /\ n \in Nat /\ l \in Nat
    BY <1>1, <1>2
  <2> HIDE DEF R, l
  <2>2. /\ c \in Seq(R) /\ Len(c) = n + l
        /\ \A k \in 1..(n + l) : c[k] = IF k <= n THEN ma[k] ELSE mb[k - n]
    BY <2>1, ConcatProperties
  <2> HIDE DEF c
  <2>3. ASSUME NEW k \in 1..(n + l) PROVE mt[k] = c[k]
    <3>1. CASE k <= n
      BY <1>3, <2>1, <2>2, <3>1
    <3>2. CASE ~(k <= n)
      <4>1. k \in (n + 1)..(n + l)
        BY <2>1, <3>2
      <4>2. mt[k] = mb[k - n]
        BY <1>4, <4>1 DEF l
      <4>3. QED
        BY <2>2, <3>2, <4>2
    <3>3. QED
      BY <3>1, <3>2
  <2>4. mt = c
    BY <2>1, <2>2, <2>3, SeqEqual
  <2>5. QED
    BY <2>4 DEF c
<1>6. FlattenSeq(ma \o mb) = FlattenSeq(ma) \o FlattenSeq(mb)
  BY <1>2, FlattenConcat
<1>7. QED
  BY <1>5, <1>6, LinesMarked DEF t, ma, mb, mt

(* Line ends alone are no lines.                                           *)
LEMMA EndsAlone ==
  ASSUME NEW b \in Seq(Symbols), \A k \in 1..Len(b) : b[k] \in Terminators
  PROVE  Lines(b) = <<>>
<1> DEFINE m == Marked(b)
           g == [k \in 0..Len(b) |-> <<>>]
<1>1. m \in Seq(Seq(Symbols)) /\ Len(m) = Len(b) /\ Len(b) \in Nat
  BY MarkedTyped
<1>2. \A k \in 1..Len(b) : m[k] = <<>>
  BY DEF Marked
<1> HIDE DEF m
<1>3. <<>> \o <<>> = <<>>
  OBVIOUS
<1>4. Flattening(m, g)
  <2>1. g[0] = <<>>
    BY <1>1
  <2>2. ASSUME NEW i \in 1..Len(m) PROVE g[i] = g[i - 1] \o m[i]
    <3>1. i \in 0..Len(b) /\ i - 1 \in 0..Len(b)
      BY <1>1
    <3>2. g[i] = <<>> /\ g[i - 1] = <<>> /\ m[i] = <<>>
      BY <1>1, <1>2, <3>1
    <3>3. QED
      BY <1>3, <3>2
  <2>3. QED
    BY <2>1, <2>2 DEF Flattening
<1>5. g[Len(m)] = <<>>
  BY <1>1
<1> HIDE DEF g
<1>6. FlattenSeq(m) = <<>>
  BY <1>1, <1>4, <1>5, FlattenUnique
<1>7. QED
  BY <1>6, LinesMarked DEF m

(* Line ends at either end of a text add nothing to its lines.             *)
LEMMA LinesWithin ==
  ASSUME NEW t \in Seq(Symbols), NEW n \in 0..Len(t)
  PROVE  /\ (\A k \in (n + 1)..Len(t) : t[k] \in Terminators) => Lines(SubSeq(t, 1, n)) = Lines(t)
         /\ (\A k \in 1..n : t[k] \in Terminators) => Lines(SubSeq(t, n + 1, Len(t))) = Lines(t)
<1> DEFINE l == Len(t)
           a == SubSeq(t, 1, n)
           b == SubSeq(t, n + 1, l)
<1>1. /\ a \in Seq(Symbols) /\ Len(a) = n /\ \A k \in 1..n : a[k] = t[k]
      /\ b \in Seq(Symbols) /\ Len(b) = l - n /\ \A k \in 1..(l - n) : b[k] = t[n + k]
      /\ t = a \o b
  BY CutInTwo
<1>2. l \in Nat /\ n \in Nat /\ n <= l
  OBVIOUS
<1> HIDE DEF a, b, l
<1>3. ASSUME \A k \in (n + 1)..l : t[k] \in Terminators PROVE Lines(a) = Lines(t)
  <2>1. \A k \in 1..Len(b) : b[k] \in Terminators
    <3>1. ASSUME NEW k \in 1..Len(b) PROVE b[k] \in Terminators
      <4>1. n + k \in (n + 1)..l /\ b[k] = t[n + k]
        BY <1>1, <1>2
      <4>2. QED
        BY <1>3, <4>1
    <3>2. QED
      BY <3>1
  <2>2. Lines(b) = <<>>
    BY <1>1, <2>1, EndsAlone
  <2>3. b = <<>> \/ b[1] \in Terminators
    BY <1>1, <2>1
  <2>4. Lines(t) = Lines(a) \o Lines(b)
    BY <1>1, <2>3, LinesConcat
  <2>5. Lines(a) \o <<>> = Lines(a)
    BY <1>1, LinesTyped, ConcatEmptySeq
  <2>6. QED
    BY <2>2, <2>4, <2>5
<1>4. ASSUME \A k \in 1..n : t[k] \in Terminators PROVE Lines(b) = Lines(t)
  <2>1. \A k \in 1..Len(a) : a[k] \in Terminators
    BY <1>1, <1>4
  <2>2. Lines(a) = <<>>
    BY <1>1, <2>1, EndsAlone
  <2>3. a = <<>> \/ a[Len(a)] \in Terminators
    BY <1>1, <1>2, <2>1
  <2>4. Lines(t) = Lines(a) \o Lines(b)
    BY <1>1, <2>3, LinesConcat
  <2>5. <<>> \o Lines(b) = Lines(b)
    BY <1>1, LinesTyped, ConcatEmptySeq
  <2>6. QED
    BY <2>2, <2>4, <2>5
<1>5. QED
  BY <1>3, <1>4 DEF a, b, l

-----------------------------------------------------------------------------
(* What the operators of hosts.rs find in a text.                          *)

LEMMA FirstIs ==
  ASSUME NEW t \in Seq(Symbols), NEW x
  PROVE  \/ First(x, t) = 0 /\ \A k \in 1..Len(t) : t[k] # x
         \/ /\ First(x, t) \in 1..Len(t) /\ t[First(x, t)] = x
            /\ \A k \in 1..Len(t) : t[k] = x => First(x, t) <= k
<1> DEFINE I == {i \in 1..Len(t) : t[i] = x}
<1>1. First(x, t) = IF I # {} THEN Min(I) ELSE 0
  BY DEF First, SelectInSeq
<1>2. I \subseteq Nat
  OBVIOUS
<1>3. CASE I = {}
  BY <1>1, <1>3
<1>4. CASE I # {}
  <2> DEFINE n == Min(I)
  <2>1. n \in I /\ \A i \in I : n <= i
    <3> HIDE DEF I
    <3>1. QED
      BY <1>2, <1>4, MinOf
  <2>2. First(x, t) = n
    BY <1>1, <1>4
  <2> HIDE DEF n
  <2>3. QED
    BY <2>1, <2>2
<1>5. QED
  BY <1>3, <1>4

LEMMA TrimEndIs ==
  ASSUME NEW t \in Seq(Symbols)
  PROVE  \E n \in 0..Len(t) : /\ TrimEnd(t) = SubSeq(t, 1, n)
                              /\ \A k \in (n + 1)..Len(t) : t[k] \in Terminators
                              /\ n = 0 \/ t[n] \notin Terminators
<1> DEFINE I == {i \in 1..Len(t) : t[i] \notin Terminators}
           n == IF I # {} THEN Max(I) ELSE 0
<1>1. TrimEnd(t) = SubSeq(t, 1, n)
  BY DEF TrimEnd, SelectLastInSeq
<1>2. I \subseteq Nat /\ Len(t) \in Nat /\ \A i \in I : i <= Len(t)
  OBVIOUS
<1>3. CASE I = {}
  <2>1. n = 0
    BY <1>3
  <2>2. \A k \in (0 + 1)..Len(t) : t[k] \in Terminators
    BY <1>3
  <2>3. QED
    BY <1>1, <1>2, <2>1, <2>2
<1>4. CASE I # {}
  <2>1. Max(I) \in I /\ \A i \in I : i <= Max(I)
    <3> HIDE DEF I
    <3>1. QED
      BY <1>2, <1>4, MaxOf
  <2>2. n = Max(I)
    BY <1>4
  <2>3. n \in I /\ \A i \in I : i <= n
    BY <2>1, <2>2
  <2> HIDE DEF n
  <2>4. n \in 1..Len(t) /\ t[n] \notin Terminators
    BY <2>3
  <2>5. ASSUME NEW k \in (n + 1)..Len(t) PROVE t[k] \in Terminators
    <3>1. k \in 1..Len(t) /\ ~(k <= n)
      BY <1>2, <2>4
    <3>2. QED
      BY <2>3, <3>1
  <2>6. n \in 0..Len(t)
    BY <1>2, <2>4
  <2>7. QED
    BY <1>1, <2>4, <2>5, <2>6
<1>5. QED
  BY <1>3, <1>4

LEMMA FrontCut ==
  ASSUME NEW t \in Seq(Symbols), t # <<>>
  PROVE  /\ Front(t) = SubSeq(t, 1, Len(t) - 1) /\ Len(t) - 1 \in 0..Len(t)
         /\ Front(t) \in Seq(Symbols) /\ Len(Front(t)) = Len(t) - 1
         /\ \A k \in 1..(Len(t) - 1) : Front(t)[k] = t[k]
BY FrontOf DEF Front

LEMMA ChompIs ==
  ASSUME NEW t \in Seq(Symbols)
  PROVE  \E n \in 0..Len(t) : /\ Chomp(t) = SubSeq(t, 1, n)
                              /\ \A k \in (n + 1)..Len(t) : t[k] \in Terminators
<1> DEFINE l == Len(t)
<1>1. l \in Nat /\ l \in 0..l
  OBVIOUS
<1>2. CASE ~EndsIn(t, "\n")
  <2>1. Chomp(t) = t
    BY <1>2 DEF Chomp
  <2>2. SubSeq(t, 1, l) = t
    OBVIOUS
  <2>3. \A k \in (l + 1)..l : t[k] \in Terminators
    BY <1>1
  <2>4. QED
    BY <1>1, <2>1, <2>2, <2>3
<1>3. CASE EndsIn(t, "\n") /\ ~EndsIn(Front(t), "\r")
  <2>1. t # <<>> /\ t[l] = "\n" /\ Chomp(t) = Front(t)
    BY <1>3 DEF Chomp, EndsIn, Last
  <2>2. Front(t) = SubSeq(t, 1, l - 1) /\ l - 1 \in 0..l
    BY <2>1, FrontCut
  <2>3. \A k \in ((l - 1) + 1)..l : k = l
    BY <1>1
  <2>4. \A k \in ((l - 1) + 1)..l : t[k] \in Terminators
    BY <2>1, <2>3, Alphabet
  <2>5. QED
    BY <2>1, <2>2, <2>4
<1>4. CASE EndsIn(t, "\n") /\ EndsIn(Front(t), "\r")
  <2> DEFINE f == Front(t)
  <2>1. t # <<>> /\ t[l] = "\n" /\ Chomp(t) = Front(f) /\ f # <<>> /\ f[Len(f)] = "\r"
    BY <1>4 DEF Chomp, EndsIn, Last
  <2>2. f \in Seq(Symbols) /\ Len(f) = l - 1 /\ \A k \in 1..(l - 1) : f[k] = t[k]
    BY <2>1, FrontCut
  <2> HIDE DEF f
  <2>3. /\ Front(f) \in Seq(Symbols) /\ Len(Front(f)) = l - 2
        /\ \A k \in 1..(l - 2) : Front(f)[k] = t[k]
    <3>1. Front(f) \in Seq(Symbols) /\ Len(Front(f)) = Len(f) - 1 /\ \A k \in 1..(Len(f) - 1) : Front(f)[k] = f[k]
      BY <2>1, <2>2, FrontCut
    <3>2. Len(f) - 1 = l - 2 /\ \A k \in 1..(l - 2) : k \in 1..(l - 1)
      BY <1>1, <2>2
    <3>3. QED
      BY <2>2, <3>1, <3>2
  <2>4. l - 2 \in 0..l
    BY <1>1, <2>1, <2>2
  <2>5. Front(f) = SubSeq(t, 1, l - 2)
    <3> DEFINE a == SubSeq(t, 1, l - 2)
               b == Front(f)
    <3>1. a \in Seq(Symbols) /\ Len(a) = l - 2 /\ \A k \in 1..(l - 2) : a[k] = t[k]
      BY <2>4, CutInTwo
    <3> HIDE DEF a
    <3>2. b \in Seq(Symbols) /\ Len(b) = l - 2 /\ \A k \in 1..(l - 2) : b[k] = t[k]
      BY <2>3
    <3> HIDE DEF b
    <3>3. a = b
      BY <3>1, <3>2, SeqEqual
    <3>4. QED
      BY <3>3 DEF a, b
  <2>6. t[l - 1] = "\r"
    <3>1. l - 1 \in 1..(l - 1)
      BY <1>1, <2>1, <2>2, <2>4
    <3>2. QED
      BY <2>1, <2>2, <3>1
  <2>7. \A k \in ((l - 2) + 1)..l : k = l \/ k = l - 1
    BY <1>1
  <2>8. \A k \in ((l - 2) + 1)..l : t[k] \in Terminators
    BY <2>1, <2>6, <2>7, Alphabet
  <2>9. QED
    BY <2>1, <2>4, <2>5, <2>8
<1>5. QED
  BY <1>2, <1>3, <1>4

LEMMA LedBy ==
  ASSUME NEW t \in Seq(Symbols)
  PROVE  /\ IsPrefix(<<"\n">>, t) <=> t # <<>> /\ t[1] = "\n"
         /\ IsPrefix(<<"\r", "\n">>, t) <=> Len(t) >= 2 /\ t[1] = "\r" /\ t[2] = "\n"
<1>1. \A n \in 0..Len(t) : SubSeq(t, 1, n) \in Seq(Symbols) /\ Len(SubSeq(t, 1, n)) = n
                           /\ \A k \in 1..n : SubSeq(t, 1, n)[k] = t[k]
  BY CutInTwo
<1>2. Len(t) \in Nat /\ (t = <<>> <=> Len(t) = 0)
  OBVIOUS
<1> DEFINE one == <<"\n">>
           two == <<"\r", "\n">>
<1>3. /\ one \in Seq(Symbols) /\ Len(one) = 1 /\ one[1] = "\n"
      /\ two \in Seq(Symbols) /\ Len(two) = 2 /\ two[1] = "\r" /\ two[2] = "\n"
      /\ SubSeq(one, 1, 1) = one /\ SubSeq(two, 1, 2) = two
  <2>1. /\ one \in Seq(Symbols) /\ Len(one) = 1 /\ one[1] = "\n"
        /\ two \in Seq(Symbols) /\ Len(two) = 2 /\ two[1] = "\r" /\ two[2] = "\n"
    BY Alphabet
  <2>2. \A s \in Seq(Symbols) : SubSeq(s, 1, Len(s)) = s
    OBVIOUS
  <2> HIDE DEF one, two
  <2>3. SubSeq(one, 1, Len(one)) = one /\ SubSeq(two, 1, Len(two)) = two
    BY <2>1, <2>2
  <2>4. QED
    BY <2>1, <2>3
<1>4. IsPrefix(one, t) <=> Len(t) >= 1 /\ one = SubSeq(t, 1, 1)
  <2> HIDE DEF one, two
  <2>1. QED
    BY <1>2, <1>3 DEF IsPrefix
<1>5. IsPrefix(two, t) <=> Len(t) >= 2 /\ two = SubSeq(t, 1, 2)
  <2> HIDE DEF one, two
  <2>1. QED
    BY <1>2, <1>3 DEF IsPrefix
<1>6. Len(t) >= 1 => (one = SubSeq(t, 1, 1) <=> t[1] = "\n")
  <2> SUFFICES ASSUME Len(t) >= 1 PROVE one = SubSeq(t, 1, 1) <=> t[1] = "\n"
    OBVIOUS
  <2> DEFINE a == SubSeq(t, 1, 1)
  <2>1. a \in Seq(Symbols) /\ Len(a) = 1 /\ a[1] = t[1]
    <3>1. 1 \in 0..Len(t) /\ 1 \in 1..1
      BY <1>2
    <3>2. QED
      BY <1>1, <3>1
  <2> HIDE DEF a, one
  <2>2. t[1] = "\n" => \A k \in 1..1 : one[k] = a[k]
    BY <1>3, <2>1
  <2>3. t[1] = "\n" => one = a
    BY <1>3, <2>1, <2>2, SeqEqual
  <2>4. QED
    BY <1>3, <2>1, <2>3 DEF a
<1>7. Len(t) >= 2 => (two = SubSeq(t, 1, 2) <=> t[1] = "\r" /\ t[2] = "\n")
  <2> SUFFICES ASSUME Len(t) >= 2 PROVE two = SubSeq(t, 1, 2) <=> t[1] = "\r" /\ t[2] = "\n"
    OBVIOUS
  <2> DEFINE a == SubSeq(t, 1, 2)
  <2>1. a \in Seq(Symbols) /\ Len(a) = 2 /\ a[1] = t[1] /\ a[2] = t[2]
    <3>1. 2 \in 0..Len(t) /\ 1 \in 1..2 /\ 2 \in 1..2
      BY <1>2
    <3>2. QED
      BY <1>1, <3>1
  <2> HIDE DEF a, two
  <2>2. t[1] = "\r" /\ t[2] = "\n" => \A k \in 1..2 : two[k] = a[k]
    <3>1. \A k \in 1..2 : k = 1 \/ k = 2
      OBVIOUS
    <3>2. QED
      BY <1>3, <2>1, <3>1
  <2>3. t[1] = "\r" /\ t[2] = "\n" => two = a
    BY <1>3, <2>1, <2>2, SeqEqual
  <2>4. QED
    BY <1>3, <2>1, <2>3 DEF a
<1>8. QED
  BY <1>2, <1>4, <1>5, <1>6, <1>7

LEMMA UnledIs ==
  ASSUME NEW t \in Seq(Symbols)
  PROVE  \E n \in 0..Len(t) : /\ Unled(t) = SubSeq(t, n + 1, Len(t))
                              /\ \A k \in 1..n : t[k] \in Terminators
<1>1. Len(t) \in Nat /\ (t = <<>> <=> Len(t) = 0)
  OBVIOUS
<1>2. CASE IsPrefix(<<"\n">>, t)
  <2>1. t # <<>> /\ t[1] = "\n"
    BY <1>2, LedBy
  <2>2. ~IsPrefix(<<"\r", "\n">>, t)
    BY <2>1, LedBy, Alphabet
  <2>3. Unled(t) = SubSeq(t, 2, Len(t))
    BY <1>2, <2>2 DEF Unled
  <2>4. 1 \in 0..Len(t) /\ 1 + 1 = 2 /\ \A k \in 1..1 : t[k] \in Terminators
    BY <1>1, <2>1, Alphabet
  <2>5. QED
    BY <2>3, <2>4
<1>3. CASE IsPrefix(<<"\r", "\n">>, t)
  <2>1. Len(t) >= 2 /\ t[1] = "\r" /\ t[2] = "\n"
    BY <1>3, LedBy
  <2>2. ~IsPrefix(<<"\n">>, t)
    BY <2>1, LedBy, Alphabet
  <2>3. Unled(t) = SubSeq(t, 3, Len(t))
    BY <1>3, <2>2 DEF Unled
  <2>4. 2 \in 0..Len(t) /\ 2 + 1 = 3 /\ \A k \in 1..2 : k = 1 \/ k = 2
    BY <1>1, <2>1
  <2>5. QED
    BY <2>1, <2>3, <2>4, Alphabet
<1>4. CASE ~IsPrefix(<<"\n">>, t) /\ ~IsPrefix(<<"\r", "\n">>, t)
  <2>1. Unled(t) = t
    BY <1>4 DEF Unled
  <2>2. SubSeq(t, 0 + 1, Len(t)) = t
    OBVIOUS
  <2>3. 0 \in 0..Len(t) /\ \A k \in 1..0 : t[k] \in Terminators
    BY <1>1
  <2>4. QED
    BY <2>1, <2>2, <2>3
<1>5. QED
  BY <1>2, <1>3, <1>4

-----------------------------------------------------------------------------
(* A text with our block in it once, or the first part of one.             *)

Unique(t) ==
  \A x \in {BEGIN, END} : \A i, j \in 1..Len(t) : t[i] = x /\ t[j] = x => i = j
Nested(t) ==
  \A j \in 1..Len(t) : t[j] = END => \E i \in 1..(j - 1) : t[i] = BEGIN
Shaped(t) == t \in Seq(Symbols) /\ Unique(t) /\ Nested(t)

LEMMA PlainIsShaped ==
  ASSUME NEW t \in Seq(Plain)
  PROVE  Shaped(t) /\ ~is_applied(t)
<1>1. t \in Seq(Symbols)
  BY Alphabet, SeqMonotonic
<1>2. \A k \in 1..Len(t) : t[k] # BEGIN /\ t[k] # END
  <2>1. \A k \in 1..Len(t) : t[k] \in Plain
    OBVIOUS
  <2>2. QED
    BY <2>1, Alphabet
<1>3. QED
  BY <1>1, <1>2 DEF Shaped, Unique, Nested, is_applied, Contains

LEMMA ShapedPrefix ==
  ASSUME NEW t, Shaped(t), NEW n \in 0..Len(t)
  PROVE  Shaped(SubSeq(t, 1, n))
<1> DEFINE a == SubSeq(t, 1, n)
<1>1. t \in Seq(Symbols) /\ Len(t) \in Nat
  BY DEF Shaped
<1>2. a \in Seq(Symbols) /\ Len(a) = n /\ \A k \in 1..n : k \in 1..Len(t) /\ a[k] = t[k]
  BY <1>1, CutInTwo
<1> HIDE DEF a
<1>3. Unique(a)
  BY <1>2 DEF Shaped, Unique
<1>4. Nested(a)
  <2> SUFFICES ASSUME NEW j \in 1..Len(a), a[j] = END PROVE \E i \in 1..(j - 1) : a[i] = BEGIN
    BY DEF Nested
  <2>1. j \in 1..Len(t) /\ t[j] = END
    BY <1>2
  <2>2. PICK i \in 1..(j - 1) : t[i] = BEGIN
    BY <2>1 DEF Shaped, Nested
  <2>3. i \in 1..n
    BY <1>1, <1>2
  <2>4. QED
    BY <1>2, <2>2, <2>3
<1>5. QED
  BY <1>2, <1>3, <1>4 DEF Shaped, a

(* Where the block of a text is, and that all else is the user's.          *)
LEMMA BlockParts ==
  ASSUME NEW t, Shaped(t), is_applied(t)
  PROVE  /\ First(BEGIN, t) \in 1..Len(t) /\ t[First(BEGIN, t)] = BEGIN
         /\ BlockEnd(t) \in First(BEGIN, t)..Len(t)
         /\ First(END, t) # 0 => BlockEnd(t) = First(END, t) /\ t[BlockEnd(t)] = END
                                 /\ First(BEGIN, t) < BlockEnd(t)
         /\ First(END, t) = 0 => BlockEnd(t) = Len(t) /\ t[BlockEnd(t)] # END
         /\ \A k \in 1..Len(t) :
              k # First(BEGIN, t) /\ (k # BlockEnd(t) \/ First(END, t) = 0) => t[k] \in Plain
<1> DEFINE b == First(BEGIN, t)
           e == First(END, t)
<1>1. t \in Seq(Symbols) /\ Len(t) \in Nat
  BY DEF Shaped
<1>2. b \in 1..Len(t) /\ t[b] = BEGIN
  <2>1. \E k \in 1..Len(t) : t[k] = BEGIN
    BY DEF is_applied, Contains
  <2>2. QED
    BY <1>1, <2>1, FirstIs
<1>3. \/ e = 0 /\ \A k \in 1..Len(t) : t[k] # END
      \/ e \in 1..Len(t) /\ t[e] = END
  BY <1>1, FirstIs
<1>4. BlockEnd(t) = IF e = 0 THEN Len(t) ELSE e
  BY DEF BlockEnd
<1>5. \A k \in 1..Len(t) : t[k] = BEGIN => k = b
  BY <1>2 DEF Shaped, Unique
<1> HIDE DEF b, e
<1>6. e # 0 => b < e
  <2> SUFFICES ASSUME e # 0 PROVE b < e
    OBVIOUS
  <2>1. e \in 1..Len(t) /\ t[e] = END
    BY <1>3
  <2>2. PICK i \in 1..(e - 1) : t[i] = BEGIN
    BY <2>1 DEF Shaped, Nested
  <2>3. i \in 1..Len(t)
    BY <1>1, <2>1
  <2>4. i = b
    BY <1>5, <2>2, <2>3
  <2>5. QED
    BY <2>1, <2>4
<1>7. \A k \in 1..Len(t) : t[k] = END => k = e
  BY <1>3 DEF Shaped, Unique
<1>8. \A k \in 1..Len(t) : t[k] \in Symbols
  BY <1>1
<1>9. \A k \in 1..Len(t) : k # b /\ k # e => t[k] \in Plain
  BY <1>5, <1>7, <1>8, Alphabet DEF Symbols
<1>10. \A k \in 1..Len(t) : k # b /\ e = 0 => t[k] \in Plain
  BY <1>9
<1>11. e = 0 => \A k \in 1..Len(t) : t[k] # END
  BY <1>3
<1>12. BlockEnd(t) \in b..Len(t)
  BY <1>1, <1>2, <1>3, <1>4, <1>6
<1>13. Len(t) \in 1..Len(t)
  BY <1>1, <1>2
<1>14. e = 0 => t[BlockEnd(t)] # END
  BY <1>4, <1>11, <1>13
<1>15. e # 0 => t[BlockEnd(t)] = END
  BY <1>3, <1>4
<1>16. QED
  BY <1>2, <1>4, <1>6, <1>9, <1>10, <1>12, <1>14, <1>15 DEF b, e

LEMMA UnappliedIsPlain ==
  ASSUME NEW t, Shaped(t), ~is_applied(t)
  PROVE  t \in Seq(Plain)
<1>1. t \in Seq(Symbols) /\ \A k \in 1..Len(t) : t[k] # BEGIN
  BY DEF Shaped, is_applied, Contains
<1>2. ASSUME NEW j \in 1..Len(t), t[j] = END PROVE FALSE
  <2>1. PICK i \in 1..(j - 1) : t[i] = BEGIN
    BY <1>2 DEF Shaped, Nested
  <2>2. i \in 1..Len(t)
    BY <1>1
  <2>3. QED
    BY <1>1, <2>1, <2>2
<1>3. \A k \in 1..Len(t) : t[k] \in Plain
  <2>1. \A k \in 1..Len(t) : t[k] \in Symbols
    BY <1>1
  <2>2. QED
    BY <1>1, <1>2, <2>1 DEF Symbols
<1>4. QED
  BY <1>1, <1>3

LEMMA PartIsPlain ==
  ASSUME NEW t \in Seq(Plain), NEW n \in 0..Len(t)
  PROVE  SubSeq(t, 1, n) \in Seq(Plain) /\ SubSeq(t, n + 1, Len(t)) \in Seq(Plain)
BY CutInTwo

LEMMA AroundIsPlain ==
  ASSUME NEW t, Shaped(t), is_applied(t)
  PROVE  /\ Before(t) \in Seq(Plain) /\ Len(Before(t)) = First(BEGIN, t) - 1
         /\ After(t) \in Seq(Plain)
         /\ First(END, t) = 0 => After(t) = <<>>
<1> DEFINE b == First(BEGIN, t)
           e == BlockEnd(t)
           l == Len(t)
           x == Before(t)
           y == After(t)
<1>1. t \in Seq(Symbols) /\ l \in Nat
  BY DEF Shaped
<1>2. b \in 1..l /\ e \in b..l /\ (First(END, t) = 0 => e = l)
  BY BlockParts
<1>3. \A k \in 1..l : k # b /\ (k # e \/ First(END, t) = 0) => t[k] \in Plain
  BY BlockParts
<1>4. First(END, t) # 0 => b < e
  BY BlockParts
<1>5. x = SubSeq(t, 1, b - 1) /\ y = SubSeq(t, e + 1, l)
  BY DEF Before, After
<1> HIDE DEF b, e, l, x, y
<1>6. x \in Seq(Symbols) /\ Len(x) = b - 1 /\ \A k \in 1..(b - 1) : x[k] = t[k]
  <2>1. b - 1 \in 0..Len(t)
    BY <1>1, <1>2 DEF l
  <2>2. QED
    BY <1>1, <1>5, <2>1, CutInTwo
<1>7. y \in Seq(Symbols) /\ Len(y) = l - e /\ \A k \in 1..(l - e) : y[k] = t[e + k]
  <2>1. e \in 0..Len(t)
    BY <1>1, <1>2 DEF l
  <2>2. QED
    BY <1>1, <1>5, <2>1, CutInTwo DEF l
<1>8. x \in Seq(Plain)
  <2>1. ASSUME NEW k \in 1..(b - 1) PROVE x[k] \in Plain
    <3>1. k \in 1..l /\ k # b /\ (k # e \/ First(END, t) = 0)
      BY <1>1, <1>2, <1>4
    <3>2. QED
      BY <1>3, <1>6, <3>1
  <2>2. QED
    BY <1>6, <2>1
<1>9. y \in Seq(Plain)
  <2>1. ASSUME NEW k \in 1..(l - e) PROVE y[k] \in Plain
    <3>1. e + k \in 1..l /\ e + k # b /\ (e + k # e \/ First(END, t) = 0)
      BY <1>1, <1>2
    <3>2. QED
      BY <1>3, <1>7, <3>1
  <2>2. QED
    BY <1>7, <2>1
<1>10. First(END, t) = 0 => y = <<>>
  BY <1>1, <1>2, <1>7
<1>11. QED
  BY <1>6, <1>8, <1>9, <1>10 DEF x, y, b

LEMMA EnsuredIs ==
  ASSUME NEW t \in Seq(Plain)
  PROVE  /\ ensure_trailing_newline(t) \in Seq(Plain)
         /\ Lines(ensure_trailing_newline(t)) = Lines(t)
<1> DEFINE nl == <<"\n">>
<1>1. nl \in Seq(Plain) /\ nl \in Seq(Symbols) /\ Len(nl) = 1 /\ nl[1] = "\n" /\ t \in Seq(Symbols)
      /\ nl # <<>>
  <2>1. "\n" \in Plain /\ "\n" \in Symbols
    BY Alphabet
  <2>2. QED
    BY <2>1, Alphabet, SeqMonotonic
<1>2. ensure_trailing_newline(t) = t \/ ensure_trailing_newline(t) = t \o nl
  BY DEF ensure_trailing_newline
<1> HIDE DEF nl
<1>3. \A k \in 1..Len(nl) : nl[k] \in Terminators
  BY <1>1, Alphabet
<1>4. Lines(t \o nl) = Lines(t) \o Lines(nl)
  BY <1>1, Alphabet, LinesConcat
<1>5. Lines(nl) = <<>> /\ Lines(t) \o <<>> = Lines(t)
  BY <1>1, <1>3, EndsAlone, LinesTyped, ConcatEmptySeq
<1>6. t \o nl \in Seq(Plain)
  BY <1>1
<1>7. QED
  BY <1>2, <1>4, <1>5, <1>6

(* strip leaves the user's own lines, all of them and nothing else.        *)
LEMMA Stripped ==
  ASSUME NEW t, Shaped(t)
  PROVE  strip(t) \in Seq(Plain) /\ Lines(strip(t)) = OwnLines(t)
<1>1. CASE ~is_applied(t)
  BY <1>1, UnappliedIsPlain DEF strip, OwnLines
<1>2. CASE is_applied(t)
  <2> DEFINE x == Before(t)
             y == After(t)
             head == Chomp(x)
             tail == Unled(y)
             nl == <<"\n">>
  <2>1. x \in Seq(Plain) /\ y \in Seq(Plain) /\ x \in Seq(Symbols) /\ y \in Seq(Symbols)
    <3>1. x \in Seq(Plain) /\ y \in Seq(Plain)
      BY <1>2, AroundIsPlain
    <3> HIDE DEF x, y
    <3>2. QED
      BY <3>1, Alphabet, SeqMonotonic
  <2>2. OwnLines(t) = Lines(x) \o Lines(y)
    BY <1>2 DEF OwnLines
  <2>3. strip(t) = CASE head = <<>> -> tail
                     [] head # <<>> /\ tail = <<>> -> ensure_trailing_newline(head)
                     [] OTHER -> head \o nl \o tail
    BY <1>2 DEF strip
  <2> HIDE DEF x, y, head, tail
  <2>4. head \in Seq(Plain) /\ Lines(head) = Lines(x)
    <3>1. PICK n \in 0..Len(x) : head = SubSeq(x, 1, n) /\ \A k \in (n + 1)..Len(x) : x[k] \in Terminators
      BY <2>1, ChompIs DEF head
    <3>2. QED
      BY <2>1, <3>1, PartIsPlain, LinesWithin
  <2>5. tail \in Seq(Plain) /\ Lines(tail) = Lines(y)
    <3>1. PICK n \in 0..Len(y) : tail = SubSeq(y, n + 1, Len(y)) /\ \A k \in 1..n : y[k] \in Terminators
      BY <2>1, UnledIs DEF tail
    <3>2. QED
      BY <2>1, <3>1, PartIsPlain, LinesWithin
  <2>6. head \in Seq(Symbols) /\ tail \in Seq(Symbols)
    BY <2>4, <2>5, Alphabet, SeqMonotonic
  <2>7. Lines(head) \in Seq(Symbols) /\ Lines(tail) \in Seq(Symbols) /\ Lines(<<>>) = <<>>
    <3>1. Lines(<<>>) = <<>>
      <4>1. <<>> \in Seq(Symbols) /\ \A k \in 1..Len(<<>>) : <<>>[k] \in Terminators
        OBVIOUS
      <4>2. QED
        BY <4>1, EndsAlone
    <3>2. QED
      BY <2>6, <3>1, LinesTyped
  <2>8. CASE head = <<>>
    <3>1. strip(t) = tail
      BY <2>3, <2>8
    <3>2. Lines(head) \o Lines(tail) = Lines(tail)
      BY <2>7, <2>8, ConcatEmptySeq
    <3>3. QED
      BY <2>2, <2>4, <2>5, <3>1, <3>2
  <2>9. CASE head # <<>> /\ tail = <<>>
    <3>1. strip(t) = ensure_trailing_newline(head)
      BY <2>3, <2>9
    <3>2. Lines(head) \o Lines(tail) = Lines(head)
      BY <2>7, <2>9, ConcatEmptySeq
    <3>3. QED
      BY <2>2, <2>4, <2>5, <3>1, <3>2, EnsuredIs
  <2>10. CASE head # <<>> /\ tail # <<>>
    <3> DEFINE led == head \o nl
    <3>1. strip(t) = led \o tail
      BY <2>3, <2>10
    <3>2. nl \in Seq(Plain) /\ Len(nl) = 1 /\ nl[1] \in Terminators /\ nl # <<>>
          /\ \A k \in 1..Len(nl) : nl[k] \in Terminators
      BY Alphabet
    <3> HIDE DEF nl
    <3>3. nl \in Seq(Symbols)
      BY <3>2, Alphabet, SeqMonotonic
    <3>4. Lines(led) = Lines(head)
      <4>1. Lines(led) = Lines(head) \o Lines(nl)
        BY <2>6, <3>2, <3>3, LinesConcat
      <4>2. Lines(nl) = <<>>
        BY <3>2, <3>3, EndsAlone
      <4>3. QED
        BY <2>7, <4>1, <4>2, ConcatEmptySeq
    <3>5. led \in Seq(Plain) /\ led \in Seq(Symbols) /\ led[Len(led)] = nl[1]
      <4>1. led \in Seq(Plain) /\ led \in Seq(Symbols)
        BY <2>4, <2>6, <3>2, <3>3
      <4>2. Len(led) = Len(head) + 1 /\ Len(head) \in Nat
        BY <2>4, <3>2, ConcatProperties
      <4>3. led[Len(head) + 1] = nl[1]
        BY <2>4, <3>2, <4>2, ConcatProperties
      <4>4. QED
        BY <4>1, <4>2, <4>3
    <3> HIDE DEF led
    <3>6. Lines(led \o tail) = Lines(led) \o Lines(tail)
      BY <2>6, <3>2, <3>5, LinesConcat
    <3>7. led \o tail \in Seq(Plain)
      BY <2>5, <3>5
    <3>8. QED
      BY <2>2, <2>4, <2>5, <3>1, <3>4, <3>6, <3>7
  <2>11. QED
    BY <2>8, <2>9, <2>10
<1>3. QED
  BY <1>1, <1>2

-----------------------------------------------------------------------------
(* Our block, or the first part of it, between what the user wrote.        *)

Fragment(f) ==
  /\ f \in Seq(Symbols) /\ Len(f) >= 1 /\ f[1] = BEGIN
  /\ \A k \in 2..Len(f) : f[k] \in Plain \/ (k = Len(f) /\ f[k] = END)

LEMMA Around ==
  ASSUME NEW v \in Seq(Plain), NEW f, Fragment(f), NEW w \in Seq(Plain)
  PROVE  /\ Shaped(v \o f \o w) /\ is_applied(v \o f \o w)
         /\ Before(v \o f \o w) = v
         /\ f[Len(f)] = END => After(v \o f \o w) = w
         /\ f[Len(f)] # END => After(v \o f \o w) = <<>>
<1> DEFINE t == v \o f \o w
           n == Len(v)
           m == Len(f)
           l == Len(w)
<1>1. /\ f \in Seq(Symbols) /\ m \in Nat /\ m >= 1 /\ f[1] = BEGIN
      /\ \A k \in 2..m : f[k] \in Plain \/ (k = m /\ f[k] = END)
  BY DEF Fragment
<1>2. /\ v \in Seq(Symbols) /\ w \in Seq(Symbols) /\ n \in Nat /\ l \in Nat
      /\ \A k \in 1..n : v[k] \in Plain
      /\ \A k \in 1..l : w[k] \in Plain
  BY Alphabet, SeqMonotonic
<1>3. /\ t \in Seq(Symbols) /\ Len(t) = n + m + l
      /\ \A k \in 1..n : t[k] = v[k]
      /\ \A k \in 1..m : t[n + k] = f[k]
      /\ \A k \in 1..l : t[n + m + k] = w[k]
  <2> DEFINE a == v \o f
  <2>1. /\ a \in Seq(Symbols) /\ Len(a) = n + m
        /\ \A k \in 1..(n + m) : a[k] = IF k <= n THEN v[k] ELSE f[k - n]
    BY <1>1, <1>2, ConcatAs
  <2> HIDE DEF a
  <2>2. /\ t \in Seq(Symbols) /\ Len(t) = (n + m) + l
        /\ \A k \in 1..((n + m) + l) : t[k] = IF k <= n + m THEN a[k] ELSE w[k - (n + m)]
    <3>1. /\ a \o w \in Seq(Symbols) /\ Len(a \o w) = (n + m) + l
          /\ \A k \in 1..((n + m) + l) : (a \o w)[k] = IF k <= n + m THEN a[k] ELSE w[k - (n + m)]
      <4>1. n + m = Len(a) /\ l = Len(w)
        BY <2>1
      <4> HIDE DEF n, m, l
      <4>2. QED
        BY <1>2, <2>1, <4>1, ConcatAs
    <3>2. t = a \o w
      BY DEF a
    <3>3. QED
      BY <3>1, <3>2
  <2> HIDE DEF t, n, m, l
  <2>3. ASSUME NEW k \in 1..n PROVE t[k] = v[k]
    <3>1. k \in 1..((n + m) + l) /\ k <= n + m /\ k \in 1..(n + m) /\ k <= n
      BY <1>1, <1>2
    <3>2. QED
      BY <2>1, <2>2, <3>1
  <2>4. ASSUME NEW k \in 1..m PROVE t[n + k] = f[k]
    <3>1. n + k \in 1..((n + m) + l) /\ n + k <= n + m /\ n + k \in 1..(n + m) /\ ~(n + k <= n) /\ (n + k) - n = k
      BY <1>1, <1>2
    <3>2. QED
      BY <2>1, <2>2, <3>1
  <2>5. ASSUME NEW k \in 1..l PROVE t[n + m + k] = w[k]
    <3>1. n + m + k \in 1..((n + m) + l) /\ ~(n + m + k <= n + m) /\ (n + m + k) - (n + m) = k
      BY <1>1, <1>2
    <3>2. QED
      BY <2>2, <3>1
  <2>6. QED
    BY <2>2, <2>3, <2>4, <2>5
<1> HIDE DEF t, n, m, l
<1>4. ASSUME NEW k \in 1..Len(t)
      PROVE  \/ k \in 1..n \/ k = n + 1 \/ k - n \in 2..m \/ k - (n + m) \in 1..l
  BY <1>1, <1>2, <1>3
<1>5. ASSUME NEW k \in 1..Len(t), k # n + 1
      PROVE  t[k] \in Plain \/ (k = n + m /\ t[k] = END)
  <2>1. CASE k \in 1..n
    BY <1>2, <1>3, <2>1
  <2>2. CASE k - n \in 2..m
    <3>1. k - n \in 1..m /\ n + (k - n) = k /\ (k - n = m => k = n + m)
      BY <1>1, <1>2, <2>2
    <3>2. t[k] = f[k - n]
      BY <1>3, <3>1
    <3>3. QED
      BY <1>1, <2>2, <3>1, <3>2
  <2>3. CASE k - (n + m) \in 1..l
    <3>1. n + m + (k - (n + m)) = k
      BY <1>1, <1>2
    <3>2. t[k] = w[k - (n + m)]
      BY <1>3, <2>3, <3>1
    <3>3. QED
      BY <1>2, <2>3, <3>2
  <2>4. QED
    BY <1>4, <1>5, <2>1, <2>2, <2>3
<1>6. n + 1 \in 1..Len(t) /\ t[n + 1] = BEGIN
  <2>1. 1 \in 1..m
    BY <1>1
  <2>2. QED
    BY <1>1, <1>2, <1>3, <2>1
<1>7. n + m \in 1..Len(t) /\ t[n + m] = f[m]
  <2>1. m \in 1..m
    BY <1>1
  <2>2. QED
    BY <1>1, <1>2, <1>3, <2>1
<1>8. \A k \in 1..Len(t) : t[k] = BEGIN => k = n + 1
  BY <1>5, Alphabet
<1>9. \A k \in 1..Len(t) : t[k] = END => k = n + m /\ f[m] = END /\ k # n + 1
  BY <1>5, <1>6, <1>7, Alphabet
<1>10. Shaped(t)
  <2>1. Unique(t)
    BY <1>8, <1>9 DEF Unique
  <2>2. Nested(t)
    <3> SUFFICES ASSUME NEW j \in 1..Len(t), t[j] = END PROVE \E i \in 1..(j - 1) : t[i] = BEGIN
      BY DEF Nested
    <3>1. j = n + m /\ j # n + 1
      BY <1>9
    <3>2. n + 1 \in 1..(j - 1)
      BY <1>1, <1>2, <3>1
    <3>3. QED
      BY <1>6, <3>2
  <2>3. QED
    BY <1>3, <2>1, <2>2 DEF Shaped
<1>11. is_applied(t)
  BY <1>6 DEF is_applied, Contains
<1>12. First(BEGIN, t) = n + 1
  <2>1. First(BEGIN, t) \in 1..Len(t) /\ t[First(BEGIN, t)] = BEGIN
    BY <1>10, <1>11, BlockParts
  <2>2. QED
    BY <1>8, <2>1
<1>13. Before(t) = v
  <2> DEFINE a == SubSeq(t, 1, n)
  <2>1. Before(t) = a
    <3>1. (n + 1) - 1 = n
      BY <1>2
    <3>2. QED
      BY <1>12, <3>1 DEF Before
  <2>2. a \in Seq(Symbols) /\ Len(a) = n /\ \A k \in 1..n : a[k] = t[k]
    <3>1. n \in 0..Len(t)
      BY <1>1, <1>2, <1>3
    <3>2. QED
      BY <1>3, <3>1, CutInTwo
  <2> HIDE DEF a
  <2>3. a = v
    <3>1. \A k \in 1..n : a[k] = v[k]
      BY <1>3, <2>2
    <3>2. Len(v) = n
      BY DEF n
    <3>3. QED
      BY <1>2, <2>2, <3>1, <3>2, SeqEqual
  <2>4. QED
    BY <2>1, <2>3
<1>14. ASSUME f[m] = END PROVE After(t) = w
  <2> DEFINE b == SubSeq(t, (n + m) + 1, Len(t))
  <2>1. BlockEnd(t) = n + m
    <3>1. t[n + m] = END
      BY <1>7, <1>14
    <3>2. First(END, t) \in 1..Len(t) /\ t[First(END, t)] = END
      BY <1>3, <1>7, <3>1, FirstIs
    <3>3. First(END, t) = n + m /\ First(END, t) # 0
      BY <1>9, <3>2
    <3>4. QED
      BY <3>3 DEF BlockEnd
  <2>2. After(t) = b
    BY <2>1 DEF After
  <2>3. b \in Seq(Symbols) /\ Len(b) = l /\ \A k \in 1..l : b[k] = t[n + m + k]
    <3>1. n + m \in 0..Len(t) /\ Len(t) - (n + m) = l
      BY <1>1, <1>2, <1>3
    <3>2. b \in Seq(Symbols) /\ Len(b) = Len(t) - (n + m) /\ \A k \in 1..(Len(t) - (n + m)) : b[k] = t[(n + m) + k]
      BY <1>3, <3>1, CutInTwo
    <3>3. QED
      BY <3>1, <3>2
  <2> HIDE DEF b
  <2>4. b = w
    <3>1. \A k \in 1..l : b[k] = w[k]
      BY <1>3, <2>3
    <3>2. Len(w) = l
      BY DEF l
    <3>3. QED
      BY <1>2, <2>3, <3>1, <3>2, SeqEqual
  <2>5. QED
    BY <2>2, <2>4
<1>15. ASSUME f[m] # END PROVE After(t) = <<>>
  <2>1. \A k \in 1..Len(t) : t[k] # END
    BY <1>9, <1>15
  <2>2. First(END, t) = 0
    BY <1>3, <2>1, FirstIs
  <2>3. QED
    BY <1>10, <1>11, <2>2, AroundIsPlain
<1>16. QED
  BY <1>10, <1>11, <1>13, <1>14, <1>15 DEF t, m

LEMMA BlockIsFragment ==
  ASSUME NEW t, Shaped(t), is_applied(t)
  PROVE  LET f == SubSeq(t, First(BEGIN, t), BlockEnd(t))
         IN  Fragment(f) /\ (f[Len(f)] = END <=> First(END, t) # 0)
<1> DEFINE b == First(BEGIN, t)
           e == BlockEnd(t)
           f == SubSeq(t, b, e)
<1>1. t \in Seq(Symbols) /\ Len(t) \in Nat
  BY DEF Shaped
<1>2. /\ b \in 1..Len(t) /\ t[b] = BEGIN /\ e \in b..Len(t)
      /\ \A k \in 1..Len(t) : k # b /\ (k # e \/ First(END, t) = 0) => t[k] \in Plain
  BY BlockParts
<1>3. (First(END, t) # 0 => t[e] = END) /\ (First(END, t) = 0 => t[e] # END)
  BY BlockParts
<1> HIDE DEF b, e
<1>4. b \in Int /\ e \in Int /\ \A k \in b..e : k \in 1..Len(t) /\ t[k] \in Symbols
  <2>1. \A k \in b..e : k \in 1..Len(t)
    BY <1>1, <1>2
  <2>2. QED
    BY <1>1, <1>2, <2>1
<1>5. /\ f \in Seq(Symbols) /\ Len(f) = (e - b) + 1
      /\ \A k \in 1..((e - b) + 1) : f[k] = t[(b + k) - 1]
  <2>1. /\ f \in Seq(Symbols) /\ Len(f) = (IF b <= e THEN e - b + 1 ELSE 0)
        /\ \A i \in 1..(e - b + 1) : f[i] = t[b + i - 1]
    BY <1>4, SubSeqProperties
  <2> HIDE DEF f
  <2>2. Len(f) = (e - b) + 1
    BY <1>1, <1>2, <2>1
  <2>3. ASSUME NEW k \in 1..((e - b) + 1) PROVE f[k] = t[(b + k) - 1]
    <3>1. k \in 1..(e - b + 1) /\ b + k - 1 = (b + k) - 1
      BY <1>4
    <3>2. QED
      BY <2>1, <3>1
  <2>4. QED
    BY <2>1, <2>2, <2>3
<1> HIDE DEF f
<1>6. Len(f) >= 1 /\ f[1] = BEGIN
  <2>1. 1 \in 1..((e - b) + 1) /\ (b + 1) - 1 = b
    BY <1>1, <1>2
  <2>2. QED
    BY <1>2, <1>5, <2>1
<1>7. f[Len(f)] = t[e]
  <2>1. Len(f) \in 1..((e - b) + 1) /\ (b + Len(f)) - 1 = e
    BY <1>1, <1>2, <1>5
  <2>2. QED
    BY <1>5, <2>1
<1>8. ASSUME NEW k \in 2..Len(f) PROVE f[k] \in Plain \/ (k = Len(f) /\ f[k] = END)
  <2> DEFINE i == (b + k) - 1
  <2>1. i \in 1..Len(t) /\ i # b /\ (i = e => k = Len(f)) /\ f[k] = t[i]
    <3>1. k \in 1..((e - b) + 1)
      BY <1>1, <1>2, <1>5
    <3>2. QED
      BY <1>1, <1>2, <1>5, <3>1
  <2> HIDE DEF i
  <2>2. QED
    BY <1>2, <1>3, <1>7, <2>1
<1>9. Fragment(f)
  BY <1>5, <1>6, <1>8 DEF Fragment
<1>10. QED
  BY <1>3, <1>7, <1>9 DEF f, b, e

LEMMA OurBlock == Fragment(Block) /\ Block[Len(Block)] = END
<1> DEFINE rows == [i \in 1..Len(Hosts) |-> <<Hosts[i], "\n">>]
           m == FlattenSeq(rows)
           top == <<BEGIN, "\n">>
           bottom == <<END>>
           R == Seq(Plain)
<1>1. Hosts \in Seq(Words) /\ Len(Hosts) \in Nat
  BY HostsAssumption
<1>2. rows \in Seq(R)
  <2>1. ASSUME NEW i \in 1..Len(Hosts) PROVE rows[i] \in R
    <3> DEFINE h == Hosts[i]
    <3>1. h \in Plain /\ "\n" \in Plain
      BY <1>1, Alphabet DEF Plain
    <3> HIDE DEF h
    <3>2. <<h, "\n">> \in Seq(Plain)
      BY <3>1
    <3>3. QED
      BY <3>2 DEF h
  <2>2. rows = [i \in 1..Len(Hosts) |-> rows[i]]
    OBVIOUS
  <2> HIDE DEF rows, R
  <2>3. QED
    BY <1>1, <2>1, <2>2
<1>3. m \in Seq(Plain)
  <2>1. rows \in Seq(Seq(Plain)) /\ <<>> \in Seq(Plain)
    BY <1>2
  <2> HIDE DEF rows
  <2>2. QED
    BY <2>1, FlattenStep
<1>4. Block = top \o m \o bottom
  BY DEF Block
<1> HIDE DEF m, rows, R
<1>5. m \in Seq(Symbols) /\ \A k \in 1..Len(m) : m[k] \in Plain
  BY <1>3, Alphabet, SeqMonotonic
<1>6. /\ top \in Seq(Symbols) /\ Len(top) = 2 /\ top[1] = BEGIN /\ top[2] \in Plain
      /\ bottom \in Seq(Symbols) /\ Len(bottom) = 1 /\ bottom[1] = END
  BY Alphabet
<1> HIDE DEF top, bottom
<1> DEFINE a == top \o m
           f == a \o bottom
           l == Len(m)
<1> HIDE DEF f
<1>7. l \in Nat
  BY <1>5
<1>8. /\ a \in Seq(Symbols) /\ Len(a) = 2 + l
      /\ \A k \in 1..(2 + l) : a[k] = IF k <= 2 THEN top[k] ELSE m[k - 2]
  <2> DEFINE n == Len(top)
  <2>1. n = 2 /\ n = Len(top) /\ l = Len(m)
    BY <1>6
  <2> HIDE DEF l, n, a
  <2>2. m \in Seq(Symbols) /\ top \in Seq(Symbols)
    BY <1>5, <1>6
  <2>3. /\ top \o m \in Seq(Symbols) /\ Len(top \o m) = n + l
        /\ \A k \in 1..(n + l) : (top \o m)[k] = IF k <= n THEN top[k] ELSE m[k - n]
    <3>1. \A p, q : p = Len(top) /\ q = Len(m) =>
            /\ top \o m \in Seq(Symbols) /\ Len(top \o m) = p + q
            /\ \A k \in 1..(p + q) : (top \o m)[k] = IF k <= p THEN top[k] ELSE m[k - p]
      BY <2>2, ConcatAs
    <3>2. QED
      BY <2>1, <3>1
  <2>4. a = top \o m
    BY DEF a
  <2>5. QED
    BY <2>1, <2>3, <2>4
<1> HIDE DEF a, l
<1>9. /\ f \in Seq(Symbols) /\ Len(f) = (2 + l) + 1
      /\ \A k \in 1..((2 + l) + 1) : f[k] = IF k <= 2 + l THEN a[k] ELSE bottom[k - (2 + l)]
  <2> DEFINE n == 2 + l
             i == Len(bottom)
  <2>1. n = Len(a) /\ i = 1 /\ i = Len(bottom)
    BY <1>6, <1>8
  <2> HIDE DEF n, i
  <2>2. bottom \in Seq(Symbols) /\ a \in Seq(Symbols)
    BY <1>6, <1>8
  <2>3. /\ a \o bottom \in Seq(Symbols) /\ Len(a \o bottom) = n + i
        /\ \A k \in 1..(n + i) : (a \o bottom)[k] = IF k <= n THEN a[k] ELSE bottom[k - n]
    <3>1. \A p, q : p = Len(a) /\ q = Len(bottom) =>
            /\ a \o bottom \in Seq(Symbols) /\ Len(a \o bottom) = p + q
            /\ \A k \in 1..(p + q) : (a \o bottom)[k] = IF k <= p THEN a[k] ELSE bottom[k - p]
      BY <2>2, ConcatAs
    <3>2. QED
      BY <2>1, <3>1
  <2>4. f = a \o bottom
    BY DEF f
  <2>5. QED
    BY <2>1, <2>3, <2>4 DEF n
<1>10. f[Len(f)] = END
  <2>1. Len(f) \in 1..((2 + l) + 1) /\ ~(Len(f) <= 2 + l) /\ Len(f) - (2 + l) = 1
    BY <1>7, <1>9
  <2>2. QED
    BY <1>6, <1>9, <2>1
<1>11. f[1] = BEGIN
  <2>1. 1 \in 1..((2 + l) + 1) /\ 1 <= 2 + l /\ 1 \in 1..(2 + l)
    BY <1>7
  <2>2. QED
    BY <1>6, <1>8, <1>9, <2>1
<1>12. ASSUME NEW k \in 2..Len(f) PROVE f[k] \in Plain \/ (k = Len(f) /\ f[k] = END)
  <2>1. CASE k = 2
    <3>1. 2 \in 1..((2 + l) + 1) /\ 2 <= 2 + l /\ 2 \in 1..(2 + l)
      BY <1>7
    <3>2. QED
      BY <1>6, <1>8, <1>9, <2>1, <3>1
  <2>2. CASE k # 2 /\ k <= 2 + l
    <3>1. k \in 1..((2 + l) + 1) /\ k \in 1..(2 + l) /\ ~(k <= 2) /\ k - 2 \in 1..l
      BY <1>7, <1>9, <2>2
    <3>2. f[k] = m[k - 2]
      BY <1>8, <1>9, <2>2, <3>1
    <3>3. QED
      BY <1>5, <3>1, <3>2 DEF l
  <2>3. CASE ~(k <= 2 + l)
    <3>1. k = Len(f)
      BY <1>7, <1>9, <2>3
    <3>2. QED
      BY <1>10, <3>1
  <2>4. QED
    BY <2>1, <2>2, <2>3
<1>13. Len(f) >= 1
  BY <1>7, <1>9
<1>14. Fragment(f) /\ f[Len(f)] = END
  BY <1>9, <1>10, <1>11, <1>12, <1>13 DEF Fragment
<1>15. QED
  BY <1>4, <1>14 DEF f, a

-----------------------------------------------------------------------------
(* What apply makes of a text, and that it makes it once.                  *)

Trimmed(u) == u \in Seq(Plain) /\ (u = <<>> \/ u[Len(u)] \notin Terminators)
Lead(u) == IF u = <<>> THEN <<>> ELSE u \o <<"\n", "\n">>
Redirected(u) == Lead(u) \o Block \o <<"\n">>

(* A text followed by line ends only.                                      *)
Padded(t, u) ==
  /\ t \in Seq(Plain) /\ Len(u) <= Len(t)
  /\ \A k \in 1..Len(u) : t[k] = u[k]
  /\ \A k \in (Len(u) + 1)..Len(t) : t[k] \in Terminators

LEMMA TrimmedIs ==
  ASSUME NEW t \in Seq(Plain)
  PROVE  Trimmed(TrimEnd(t)) /\ Lines(TrimEnd(t)) = Lines(t)
<1>1. t \in Seq(Symbols) /\ Len(t) \in Nat
  BY Alphabet, SeqMonotonic
<1>2. PICK n \in 0..Len(t) : /\ TrimEnd(t) = SubSeq(t, 1, n)
                             /\ \A k \in (n + 1)..Len(t) : t[k] \in Terminators
                             /\ n = 0 \/ t[n] \notin Terminators
  BY <1>1, TrimEndIs
<1> DEFINE u == SubSeq(t, 1, n)
<1>3. u \in Seq(Plain) /\ Len(u) = n /\ \A k \in 1..n : u[k] = t[k]
  BY CutInTwo
<1>4. Lines(u) = Lines(t)
  BY <1>1, <1>2, LinesWithin
<1> HIDE DEF u
<1>5. u = <<>> \/ u[Len(u)] \notin Terminators
  <2>1. CASE n = 0
    BY <1>3, <2>1
  <2>2. CASE n # 0
    <3>1. n \in 1..n
      BY <1>1, <2>2
    <3>2. QED
      BY <1>2, <1>3, <2>2, <3>1
  <2>3. QED
    BY <2>1, <2>2
<1>6. QED
  BY <1>2, <1>3, <1>4, <1>5 DEF Trimmed, u

LEMMA TrimmedBack ==
  ASSUME NEW u, Trimmed(u), NEW t, Padded(t, u)
  PROVE  TrimEnd(t) = u
<1>1. /\ t \in Seq(Plain) /\ t \in Seq(Symbols) /\ Len(t) \in Nat
      /\ u \in Seq(Plain) /\ Len(u) \in Nat
  BY Alphabet, SeqMonotonic DEF Padded, Trimmed
<1>2. PICK n \in 0..Len(t) : /\ TrimEnd(t) = SubSeq(t, 1, n)
                             /\ \A k \in (n + 1)..Len(t) : t[k] \in Terminators
                             /\ n = 0 \/ t[n] \notin Terminators
  BY <1>1, TrimEndIs
<1>3. n <= Len(u)
  <2> SUFFICES ASSUME Len(u) < n PROVE FALSE
    BY <1>1
  <2>1. n \in (Len(u) + 1)..Len(t) /\ n # 0
    BY <1>1
  <2>2. QED
    BY <1>2, <2>1 DEF Padded
<1>4. Len(u) <= n
  <2> SUFFICES ASSUME n < Len(u) PROVE FALSE
    BY <1>1
  <2> DEFINE l == Len(u)
  <2>1. l \in (n + 1)..Len(t) /\ l \in 1..l /\ u # <<>>
    BY <1>1 DEF Padded
  <2>2. t[l] \in Terminators /\ t[l] = u[l]
    BY <1>2, <2>1 DEF Padded
  <2>3. QED
    BY <2>1, <2>2 DEF Trimmed
<1>5. n = Len(u)
  BY <1>1, <1>3, <1>4
<1> DEFINE s == SubSeq(t, 1, n)
<1>6. s \in Seq(Plain) /\ Len(s) = n /\ \A k \in 1..n : s[k] = t[k]
  BY <1>1, CutInTwo
<1> HIDE DEF s
<1>7. \A k \in 1..Len(u) : s[k] = u[k]
  BY <1>5, <1>6 DEF Padded
<1>8. s = u
  BY <1>1, <1>5, <1>6, <1>7, SeqEqual
<1>9. QED
  BY <1>2, <1>8 DEF s

LEMMA PaddedMore ==
  ASSUME NEW u, NEW t, Padded(t, u), Len(u) \in Nat,
         NEW z \in Seq(Plain), \A k \in 1..Len(z) : z[k] \in Terminators
  PROVE  Padded(t \o z, u)
<1> DEFINE n == Len(t)
           m == Len(z)
           s == t \o z
<1>1. t \in Seq(Plain) /\ n \in Nat /\ m \in Nat
  BY DEF Padded
<1>2. s \in Seq(Plain) /\ Len(s) = n + m
      /\ \A k \in 1..(n + m) : s[k] = IF k <= n THEN t[k] ELSE z[k - n]
  BY <1>1, ConcatAs
<1> HIDE DEF s
<1>3. \A k \in 1..Len(u) : s[k] = u[k]
  <2> SUFFICES ASSUME NEW k \in 1..Len(u) PROVE s[k] = u[k]
    OBVIOUS
  <2>1. k \in 1..(n + m) /\ k <= n
    BY <1>1 DEF Padded
  <2>2. QED
    BY <1>2, <2>1 DEF Padded
<1>4. ASSUME NEW k \in (Len(u) + 1)..Len(s) PROVE s[k] \in Terminators
  <2>1. k \in 1..(n + m)
    BY <1>1, <1>2
  <2>2. CASE k <= n
    <3>1. k \in (Len(u) + 1)..Len(t)
      BY <1>1, <2>2
    <3>2. QED
      BY <1>2, <2>1, <2>2, <3>1 DEF Padded
  <2>3. CASE ~(k <= n)
    <3>1. k - n \in 1..Len(z)
      BY <1>1, <2>1, <2>3
    <3>2. QED
      BY <1>2, <2>1, <2>3, <3>1
  <2>4. QED
    BY <2>2, <2>3
<1>5. Len(u) <= Len(s)
  BY <1>1, <1>2 DEF Padded
<1>6. QED
  BY <1>2, <1>3, <1>4, <1>5 DEF Padded, s

LEMMA ApplyIs ==
  ASSUME NEW t, Shaped(t)
  PROVE  /\ Trimmed(TrimEnd(strip(t))) /\ Lines(TrimEnd(strip(t))) = OwnLines(t)
         /\ apply(t) = Redirected(TrimEnd(strip(t)))
<1> DEFINE u == TrimEnd(strip(t))
<1>1. Trimmed(u) /\ Lines(u) = OwnLines(t)
  BY Stripped, TrimmedIs
<1>2. apply(t) = IF u = <<>> THEN Block \o <<"\n">>
                 ELSE u \o <<"\n", "\n">> \o Block \o <<"\n">>
  BY HostsAssumption DEF apply
<1> HIDE DEF u
<1>3. apply(t) = Redirected(u)
  <2>1. CASE u = <<>>
    <3>1. <<>> \o Block = Block
      BY OurBlock, ConcatEmptySeq DEF Fragment
    <3>2. QED
      BY <1>2, <2>1, <3>1 DEF Redirected, Lead
  <2>2. CASE u # <<>>
    BY <1>2, <2>2 DEF Redirected, Lead
  <2>3. QED
    BY <2>1, <2>2
<1>4. QED
  BY <1>1, <1>3 DEF u

LEMMA LineEnds ==
  /\ <<"\n">> \in Seq(Plain) /\ <<"\n", "\n">> \in Seq(Plain)
  /\ \A k \in 1..Len(<<"\n">>) : <<"\n">>[k] \in Terminators
  /\ \A k \in 1..Len(<<"\n", "\n">>) : <<"\n", "\n">>[k] \in Terminators
  /\ Lines(<<"\n">>) = <<>> /\ Lines(<<"\n", "\n">>) = <<>>
<1> DEFINE one == <<"\n">>
           two == <<"\n", "\n">>
<1>1. one \in Seq(Plain) /\ two \in Seq(Plain)
  BY Alphabet
<1>2. \A k \in 1..Len(one) : one[k] \in Terminators
  BY Alphabet
<1>3. \A k \in 1..Len(two) : two[k] \in Terminators
  BY Alphabet
<1> HIDE DEF one, two
<1>4. one \in Seq(Symbols) /\ two \in Seq(Symbols)
  BY <1>1, Alphabet, SeqMonotonic
<1>5. Lines(one) = <<>> /\ Lines(two) = <<>>
  BY <1>2, <1>3, <1>4, EndsAlone
<1>6. QED
  BY <1>1, <1>2, <1>3, <1>5 DEF one, two

LEMMA LeadIs ==
  ASSUME NEW u, Trimmed(u)
  PROVE  Lead(u) \in Seq(Plain) /\ Padded(Lead(u), u) /\ Lines(Lead(u)) = Lines(u)
<1> DEFINE two == <<"\n", "\n">>
<1>1. u \in Seq(Plain) /\ Len(u) \in Nat /\ u \in Seq(Symbols)
  BY Alphabet, SeqMonotonic DEF Trimmed
<1>2. two \in Seq(Plain) /\ (\A k \in 1..Len(two) : two[k] \in Terminators) /\ Lines(two) = <<>>
      /\ Len(two) = 2
  BY LineEnds
<1>3. Lead(u) = IF u = <<>> THEN <<>> ELSE u \o two
  BY DEF Lead
<1> HIDE DEF two
<1>4. two[1] \in Terminators /\ two \in Seq(Symbols)
  <2>1. 1 \in 1..Len(two)
    BY <1>2
  <2>2. two \in Seq(Symbols)
    BY <1>2, Alphabet, SeqMonotonic
  <2>3. QED
    BY <1>2, <2>1, <2>2
<1>5. Padded(u, u)
  BY <1>1 DEF Padded
<1>6. CASE u = <<>>
  BY <1>1, <1>3, <1>5, <1>6
<1>7. CASE u # <<>>
  <2>1. Padded(u \o two, u)
    BY <1>1, <1>2, <1>5, PaddedMore
  <2>2. Lines(u \o two) = Lines(u) \o Lines(two)
    BY <1>1, <1>4, LinesConcat
  <2>3. Lines(u) \o <<>> = Lines(u)
    BY <1>1, LinesTyped, ConcatEmptySeq
  <2>4. QED
    BY <1>2, <1>3, <1>7, <2>1, <2>2, <2>3 DEF Padded
<1>8. QED
  BY <1>6, <1>7

LEMMA RedirectedIs ==
  ASSUME NEW u, Trimmed(u)
  PROVE  /\ Shaped(Redirected(u)) /\ is_applied(Redirected(u))
         /\ OwnLines(Redirected(u)) = Lines(u)
         /\ Before(Redirected(u)) = Lead(u) /\ After(Redirected(u)) = <<"\n">>
<1> DEFINE v == Lead(u)
           w == <<"\n">>
           t == v \o Block \o w
<1>1. v \in Seq(Plain) /\ Lines(v) = Lines(u) /\ w \in Seq(Plain) /\ Lines(w) = <<>>
  BY LeadIs, LineEnds
<1>2. Redirected(u) = t
  BY DEF Redirected
<1> HIDE DEF v, w
<1>3. Shaped(t) /\ is_applied(t) /\ Before(t) = v /\ After(t) = w
  BY <1>1, OurBlock, Around
<1> HIDE DEF t
<1>4. OwnLines(t) = Lines(v) \o Lines(w)
  BY <1>3 DEF OwnLines
<1>5. Lines(v) \o <<>> = Lines(v)
  <2>1. v \in Seq(Symbols)
    BY <1>1, Alphabet, SeqMonotonic
  <2>2. QED
    BY <2>1, LinesTyped, ConcatEmptySeq
<1>6. QED
  BY <1>1, <1>2, <1>3, <1>4, <1>5 DEF v, w

(* What is stripped from a redirected file is the user's part of it again. *)
LEMMA StripBack ==
  ASSUME NEW u, Trimmed(u)
  PROVE  TrimEnd(strip(Redirected(u))) = u
<1> DEFINE t == Redirected(u)
           v == Lead(u)
           w == <<"\n">>
           head == Chomp(v)
           tail == Unled(w)
<1>1. u \in Seq(Plain) /\ Len(u) \in Nat /\ (u = <<>> <=> Len(u) = 0)
  BY DEF Trimmed
<1>2. v \in Seq(Plain) /\ Padded(v, u) /\ v \in Seq(Symbols) /\ Len(v) \in Nat
  BY LeadIs, Alphabet, SeqMonotonic
<1>3. w \in Seq(Plain) /\ w \in Seq(Symbols) /\ \A k \in 1..Len(w) : w[k] \in Terminators
  BY LineEnds, Alphabet, SeqMonotonic
<1>4. is_applied(t) /\ Before(t) = v /\ After(t) = w
  BY RedirectedIs
<1> HIDE DEF t, v
<1>5. strip(t) = CASE head = <<>> -> tail
                   [] head # <<>> /\ tail = <<>> -> ensure_trailing_newline(head)
                   [] OTHER -> head \o w \o tail
  BY <1>4 DEF strip
<1> HIDE DEF w
<1>6. tail \in Seq(Plain) /\ \A k \in 1..Len(tail) : tail[k] \in Terminators
  <2>1. PICK n \in 0..Len(w) : Unled(w) = SubSeq(w, n + 1, Len(w))
    BY <1>3, UnledIs
  <2> DEFINE s == SubSeq(w, n + 1, Len(w))
  <2>2. s \in Seq(Plain) /\ Len(s) = Len(w) - n /\ \A k \in 1..(Len(w) - n) : s[k] = w[n + k]
    BY <1>3, CutInTwo
  <2> HIDE DEF s
  <2>3. \A k \in 1..(Len(w) - n) : n + k \in 1..Len(w)
    BY <1>3
  <2>4. \A k \in 1..Len(s) : s[k] \in Terminators
    BY <1>3, <2>2, <2>3
  <2>5. QED
    BY <2>1, <2>2, <2>4 DEF s
<1>7. Padded(head, u)
  <2>1. PICK n \in 0..Len(v) : Chomp(v) = SubSeq(v, 1, n) /\ \A k \in (n + 1)..Len(v) : v[k] \in Terminators
    BY <1>2, ChompIs
  <2> DEFINE s == SubSeq(v, 1, n)
             l == Len(u)
  <2>2. s \in Seq(Plain) /\ Len(s) = n /\ \A k \in 1..n : s[k] = v[k]
    BY <1>2, CutInTwo
  <2> HIDE DEF s
  <2>3. l <= n
    <3> SUFFICES ASSUME n < l PROVE FALSE
      BY <1>1
    <3>1. l \in (n + 1)..Len(v) /\ l \in 1..l /\ u # <<>>
      BY <1>1, <1>2 DEF Padded
    <3>2. v[l] \in Terminators /\ v[l] = u[l]
      BY <1>2, <2>1, <3>1 DEF Padded
    <3>3. QED
      BY <3>1, <3>2 DEF Trimmed
  <2>4. \A k \in 1..l : s[k] = u[k]
    <3> SUFFICES ASSUME NEW k \in 1..l PROVE s[k] = u[k]
      OBVIOUS
    <3>1. k \in 1..n
      BY <1>1, <2>3
    <3>2. QED
      BY <1>2, <2>2, <3>1 DEF Padded
  <2>5. \A k \in (l + 1)..n : s[k] \in Terminators
    <3> SUFFICES ASSUME NEW k \in (l + 1)..n PROVE s[k] \in Terminators
      OBVIOUS
    <3>1. k \in 1..n /\ k \in (l + 1)..Len(v)
      BY <1>1, <1>2
    <3>2. QED
      BY <1>2, <2>2, <3>1 DEF Padded
  <2>6. Padded(s, u)
    BY <2>2, <2>3, <2>4, <2>5 DEF Padded
  <2>7. QED
    BY <2>1, <2>6 DEF s
<1> HIDE DEF head, tail
<1>8. Padded(strip(t), u)
  <2>1. CASE head = <<>>
    <3>1. Len(u) = 0 /\ u = <<>>
      BY <1>1, <1>7, <2>1 DEF Padded
    <3>2. \A k \in 1..Len(u) : tail[k] = u[k]
      BY <3>1
    <3>3. Len(u) <= Len(tail) /\ \A k \in (Len(u) + 1)..Len(tail) : k \in 1..Len(tail)
      BY <1>6, <3>1
    <3>4. Padded(tail, u)
      BY <1>6, <3>2, <3>3 DEF Padded
    <3>5. QED
      BY <1>5, <2>1, <3>4
  <2>2. Padded(head \o w, u)
    BY <1>1, <1>3, <1>7, PaddedMore
  <2>3. CASE head # <<>> /\ tail = <<>>
    <3>1. ensure_trailing_newline(head) \in {head, head \o w}
      BY DEF ensure_trailing_newline, w
    <3>2. strip(t) = ensure_trailing_newline(head)
      BY <1>5, <2>3
    <3>3. QED
      BY <1>7, <2>2, <3>1, <3>2
  <2>4. CASE head # <<>> /\ tail # <<>>
    <3>1. Padded(head \o w \o tail, u)
      BY <1>1, <1>6, <2>2, PaddedMore
    <3>2. strip(t) = head \o w \o tail
      BY <1>5, <2>4
    <3>3. QED
      BY <3>1, <3>2
  <2>5. QED
    BY <2>1, <2>3, <2>4
<1>9. QED
  BY <1>8, TrimmedBack DEF t

(* A redirected file is left as it is when it is redirected again.         *)
LEMMA RedirectedIsCurrent ==
  ASSUME NEW u, Trimmed(u)
  PROVE  is_current(Redirected(u))
<1> DEFINE t == Redirected(u)
           w == <<"\n">>
           a == Lead(u) \o Block
<1>1. apply(t) = t
  BY RedirectedIs, StripBack, ApplyIs
<1>2. a \in Seq(Symbols) /\ w \in Seq(Symbols) /\ Len(w) = 1 /\ w[1] = "\n"
  <2>1. Lead(u) \in Seq(Symbols)
    BY LeadIs, Alphabet, SeqMonotonic
  <2>2. Block \in Seq(Symbols)
    BY OurBlock DEF Fragment
  <2>3. QED
    BY <2>1, <2>2, Alphabet
<1>3. t = a \o w
  BY DEF Redirected
<1> HIDE DEF t, a, w
<1>4. t \in Seq(Symbols) /\ Len(t) = Len(a) + 1 /\ Len(a) \in Nat /\ t[Len(a) + 1] = w[1]
  <2> DEFINE n == Len(a)
  <2>1. n \in Nat
    BY <1>2
  <2> HIDE DEF n
  <2>2. \A p, q : p = Len(a) /\ q = Len(w) =>
          /\ a \o w \in Seq(Symbols) /\ Len(a \o w) = p + q
          /\ \A k \in 1..(p + q) : (a \o w)[k] = IF k <= p THEN a[k] ELSE w[k - p]
    <3>1. a \in Seq(Symbols) /\ w \in Seq(Symbols)
      BY <1>2
    <3>2. QED
      BY <3>1, ConcatAs
  <2>3. /\ a \o w \in Seq(Symbols) /\ Len(a \o w) = n + 1
        /\ \A k \in 1..(n + 1) : (a \o w)[k] = IF k <= n THEN a[k] ELSE w[k - n]
    BY <1>2, <2>2 DEF n
  <2>4. n + 1 \in 1..(n + 1) /\ ~(n + 1 <= n) /\ (n + 1) - n = 1
    BY <2>1
  <2>5. (a \o w)[n + 1] = w[1]
    BY <2>3, <2>4
  <2>6. QED
    BY <1>3, <2>1, <2>3, <2>5 DEF n
<1>5. EndsIn(t, "\n")
  <2>1. Last(t) = t[Len(t)] /\ t # <<>>
    BY <1>4, LastOf DEF Last
  <2>2. QED
    BY <1>2, <1>4, <2>1 DEF EndsIn
<1>6. ensure_trailing_newline(t) = t
  BY <1>5 DEF ensure_trailing_newline
<1>7. QED
  BY <1>1, <1>6 DEF is_current, t

(* The user's edit keeps the block, and is what the user's lines are then. *)
LEMMA EditedAround ==
  ASSUME NEW t, Shaped(t), is_applied(t), NEW above \in Seq(Plain), NEW below \in Seq(Plain)
  PROVE  LET s == above \o SubSeq(t, Len(Before(t)) + 1, BlockEnd(t)) \o below
         IN  /\ Shaped(s) /\ is_applied(s)
             /\ First(END, t) # 0 \/ Lines(below) = <<>> =>
                  OwnLines(s) = Lines(above) \o Lines(below)
<1> DEFINE b == First(BEGIN, t)
           f == SubSeq(t, b, BlockEnd(t))
           s == above \o f \o below
<1>1. Fragment(f) /\ (f[Len(f)] = END <=> First(END, t) # 0)
  BY BlockIsFragment
<1>2. Len(Before(t)) + 1 = b
  <2>1. b \in Int /\ Len(Before(t)) = b - 1
    BY BlockParts, AroundIsPlain DEF Shaped
  <2> HIDE DEF b
  <2>2. QED
    BY <2>1
<1> HIDE DEF b, f
<1>3. /\ Shaped(s) /\ is_applied(s) /\ Before(s) = above
      /\ f[Len(f)] = END => After(s) = below
      /\ f[Len(f)] # END => After(s) = <<>>
  BY <1>1, Around
<1> HIDE DEF s
<1>4. OwnLines(s) = Lines(above) \o Lines(After(s))
  BY <1>3 DEF OwnLines
<1>5. Lines(<<>>) = <<>>
  <2>1. <<>> \in Seq(Symbols) /\ \A k \in 1..Len(<<>>) : <<>>[k] \in Terminators
    OBVIOUS
  <2>2. QED
    BY <2>1, EndsAlone
<1>6. First(END, t) # 0 \/ Lines(below) = <<>> => OwnLines(s) = Lines(above) \o Lines(below)
  BY <1>1, <1>3, <1>4, <1>5
<1>7. QED
  BY <1>2, <1>3, <1>6 DEF s, f

-----------------------------------------------------------------------------
(* What the file and the staged text are, whoever else is under way.       *)

FileInv ==
  /\ Shaped(text) /\ Shaped(stagedText)
  /\ ~cut => (hosts.block <=> is_applied(text))
  /\ staged.block <=> is_applied(stagedText)
  /\ is_applied(stagedText) => \E u : Trimmed(u) /\ stagedText = Redirected(u)

(* Steps that neither touch the files nor begin a batch's copy.            *)
Keeps == UNCHANGED <<hosts, staged, raced>> /\ Staging' \subseteq Staging

LEMMA ExitKeeps ==
  ASSUME TypeOK, NEW p \in Procs, Exit(p)
  PROVE  Keeps /\ p \notin Staging'
<1>1. \A q \in Procs : pc'[q] = IF q = p THEN "down" ELSE pc[q]
  BY DEF Exit, TypeOK
<1>2. QED
  BY <1>1 DEF Exit, Keeps, Staging, fileVars, userVars

LEMMA MoveKeeps ==
  ASSUME TypeOK, NEW p \in Procs, NEW from, NEW to, Move(p, from, to),
         to \notin {"enabling", "disabling"}, UNCHANGED <<hosts, staged, raced>>
  PROVE  Keeps
<1>1. \A q \in Procs : pc'[q] = IF q = p THEN to ELSE pc[q]
  BY DEF Move, TypeOK
<1>2. QED
  BY <1>1 DEF Keeps, Staging

LEMMA StepKeeps ==
  ASSUME TypeOK, NEW p \in Procs, NEW from, NEW to, Step(p, from, to),
         to \notin {"enabling", "disabling"}
  PROVE  Keeps
  BY MoveKeeps DEF Step, fileVars, userVars

LEMMA ElsewhereKeeps ==
  ASSUME TypeOK, Elsewhere
  PROVE  Keeps /\ UNCHANGED <<text, stagedText, mine, cut, unclosed>>
<1> USE DEF Procs
<1>1. UNCHANGED <<text, stagedText, mine, cut, unclosed>>
  BY DEF Elsewhere, textVars
<1>2. ASSUME NEW d \in Daemons,
             BootFails(d) \/ EnableFails(d) \/ InterruptUnarmed(d)
      PROVE  Keeps
  BY <1>2, ExitKeeps DEF BootFails, EnableFails, InterruptUnarmed
<1>3. ASSUME NEW d \in Daemons,
             \/ Start(d) \/ FlushEnable(d) \/ CheckResolver(d) \/ ReloadResolver(d)
             \/ Recheck(d) \/ BindControlFails(d) \/ BindListenerFails(d)
      PROVE  Keeps
  BY <1>3, StepKeeps
     DEF Start, FlushEnable, CheckResolver, ReloadResolver, Recheck, BindControlFails,
         BindListenerFails
<1>4. ASSUME NEW d \in Daemons, BindControl(d) \/ BindListener(d) \/ Shutdown(d)
      PROVE  Keeps
  BY <1>4, MoveKeeps DEF BindControl, BindListener, Shutdown, fileVars, userVars
<1>5. ASSUME NEW d \in Daemons, PostStop(d) \/ Interrupt(d)
      PROVE  Keeps
  BY <1>5 DEF PostStop, Interrupt, Keeps, Staging, fileVars, userVars
<1>6. ASSUME NEW p \in Procs, FlushDisable(p) \/ DisableFails(p) \/ Kill(p)
      PROVE  Keeps
  BY <1>6, ExitKeeps DEF FlushDisable, DisableFails, Kill
<1>7. ForeignBinds \/ ForeignLeaves => Keeps
  BY DEF ForeignBinds, ForeignLeaves, Keeps, Staging, procVars, fileVars, userVars
<1>8. QED
  BY <1>1, <1>2, <1>3, <1>4, <1>5, <1>6, <1>7 DEF Elsewhere

(* A copy that is cut short leaves a first part of the staged text.        *)
LEMMA CutShortIs ==
  ASSUME TypeOK, Shaped(stagedText), NEW p \in Procs, CutShort(p)
  PROVE  /\ Keeps /\ p \notin Staging' /\ Shaped(text')
         /\ cut' /\ mine' = OwnLines(text') /\ UNCHANGED <<stagedText, unclosed>>
<1>1. Keeps /\ p \notin Staging'
  BY ExitKeeps DEF CutShort, EnableFails, DisableFails, Kill
<1>2. PICK n \in 0..Len(stagedText) - 1 : text' = SubSeq(stagedText, 1, n)
  BY DEF CutShort
<1>3. n \in 0..Len(stagedText)
  BY DEF Shaped
<1>4. QED
  BY <1>1, <1>2, <1>3, ShapedPrefix DEF CutShort

(* The user's edit keeps what is of the block, and the user's lines are    *)
(* then what the edit says, but below a block without its end.             *)
LEMMA EditTextIs ==
  ASSUME Shaped(text), EditText
  PROVE  /\ Shaped(text') /\ (is_applied(text') <=> is_applied(text))
         /\ ~unclosed' => OwnLines(text') = mine'
         /\ UNCHANGED <<stagedText, cut>>
<1>1. PICK above \in UserTexts, below \in UserTexts :
        /\ text' = IF is_applied(text)
                   THEN above \o SubSeq(text, Len(Before(text)) + 1, BlockEnd(text)) \o below
                   ELSE above \o below
        /\ mine' = IF is_applied(text) THEN Lines(above) \o Lines(below) ELSE Lines(text')
        /\ unclosed' = (is_applied(text) /\ First(END, text) = 0 /\ Lines(below) # <<>>)
  BY DEF EditText
<1>2. above \in Seq(Plain) /\ below \in Seq(Plain)
  BY TextsAssumption DEF Plain
<1>3. CASE is_applied(text)
  <2> DEFINE s == above \o SubSeq(text, Len(Before(text)) + 1, BlockEnd(text)) \o below
  <2>1. /\ Shaped(s) /\ is_applied(s)
        /\ First(END, text) # 0 \/ Lines(below) = <<>> => OwnLines(s) = Lines(above) \o Lines(below)
    BY <1>2, <1>3, EditedAround
  <2>2. text' = s /\ mine' = Lines(above) \o Lines(below)
    BY <1>1, <1>3
  <2>3. ~unclosed' => First(END, text) # 0 \/ Lines(below) = <<>>
    BY <1>1, <1>3
  <2> HIDE DEF s
  <2>4. QED
    BY <1>3, <2>1, <2>2, <2>3 DEF EditText
<1>4. CASE ~is_applied(text)
  <2> DEFINE s == above \o below
  <2>1. s \in Seq(Plain)
    BY <1>2
  <2>2. text' = s /\ mine' = Lines(text')
    BY <1>1, <1>4
  <2> HIDE DEF s
  <2>3. Shaped(s) /\ ~is_applied(s)
    BY <2>1, PlainIsShaped
  <2>4. OwnLines(s) = Lines(s)
    BY <2>3 DEF OwnLines
  <2>5. QED
    BY <1>4, <2>2, <2>3, <2>4 DEF EditText
<1>5. QED
  BY <1>3, <1>4

(* What is staged keeps the user's own lines.                              *)
LEMMA StageTextIs ==
  ASSUME TypeOK, Shaped(text), NEW p \in Procs, StageText(p)
  PROVE  /\ UNCHANGED <<text, hosts, raced, mine, cut, unclosed>>
         /\ Shaped(stagedText') /\ (staged'.block <=> is_applied(stagedText'))
         /\ is_applied(stagedText') => \E u : Trimmed(u) /\ stagedText' = Redirected(u)
         /\ OwnLines(stagedText') = OwnLines(text)
<1>1. CASE p \in Daemons /\ StageEnable(p) /\ stagedText' = apply(text)
           /\ UNCHANGED <<text, mine, cut, unclosed>>
  <2> DEFINE u == TrimEnd(strip(text))
  <2>1. Trimmed(u) /\ Lines(u) = OwnLines(text) /\ stagedText' = Redirected(u)
    BY <1>1, ApplyIs
  <2> HIDE DEF u
  <2>2. Shaped(stagedText') /\ is_applied(stagedText') /\ OwnLines(stagedText') = OwnLines(text)
    BY <2>1, RedirectedIs
  <2>3. staged'.block = TRUE
    BY <1>1 DEF StageEnable, Apply, TypeOK, HostsFile
  <2>4. UNCHANGED <<hosts, raced>>
    BY <1>1 DEF StageEnable, userVars
  <2>5. QED
    BY <1>1, <2>1, <2>2, <2>3, <2>4
<1>2. CASE StageDisable(p) /\ stagedText' = strip(text) /\ UNCHANGED <<text, mine, cut, unclosed>>
  <2>1. strip(text) \in Seq(Plain) /\ Lines(strip(text)) = OwnLines(text)
    BY Stripped
  <2>2. Shaped(strip(text)) /\ ~is_applied(strip(text))
    BY <2>1, PlainIsShaped
  <2>3. OwnLines(strip(text)) = OwnLines(text)
    BY <2>1, <2>2 DEF OwnLines
  <2>4. staged'.block = FALSE
    BY <1>2 DEF StageDisable, Strip, TypeOK, HostsFile
  <2>5. UNCHANGED <<hosts, raced>>
    BY <1>2 DEF StageDisable, userVars
  <2>6. QED
    BY <1>2, <2>2, <2>3, <2>4, <2>5
<1>3. QED
  BY <1>1, <1>2 DEF StageText

LEMMA InstallTextIs ==
  ASSUME TypeOK, NEW p \in Procs, InstallText(p)
  PROVE  /\ hosts' = staged /\ UNCHANGED <<staged, stagedText, raced, mine, unclosed>>
         /\ text' = stagedText /\ ~cut'
         /\ p \in Staging /\ Staging' \subseteq Staging
<1>1. \/ Install(p, "enabling", "flushing")
      \/ Install(p, "disabling", "unflushing")
  BY DEF InstallText, InstallEnable, InstallDisable
<1>2. hosts' = staged /\ UNCHANGED <<staged, raced>>
  BY <1>1 DEF Install, userVars
<1>3. p \in Staging
  BY <1>1 DEF Install, Move, Staging
<1>4. \A q \in Procs : pc'[q] = pc[q] \/ pc'[q] \in {"flushing", "unflushing"}
  BY <1>1 DEF Install, Move, TypeOK
<1>5. Staging' \subseteq Staging
  BY <1>4 DEF Staging
<1>6. QED
  BY <1>2, <1>3, <1>5 DEF InstallText

LEMMA FileInvHolds == TextSpec => []FileInv
<1>1. TextInit => FileInv
  <2> SUFFICES ASSUME TextInit PROVE FileInv
    OBVIOUS
  <2>1. text \in Seq(Plain) /\ stagedText = <<>>
    BY TextsAssumption DEF TextInit, Plain
  <2>2. <<>> \in Seq(Plain)
    OBVIOUS
  <2>3. Shaped(text) /\ ~is_applied(text) /\ Shaped(stagedText) /\ ~is_applied(stagedText)
    BY <2>1, <2>2, PlainIsShaped
  <2>4. hosts.block = FALSE /\ staged.block = FALSE
    BY DEF TextInit, Init
  <2>5. QED
    BY <2>3, <2>4 DEF FileInv
<1>2. TypeOK /\ FileInv /\ [TextNext]_<<vars, textVars>> => FileInv'
  <2> SUFFICES ASSUME TypeOK, FileInv, [TextNext]_<<vars, textVars>> PROVE FileInv'
    OBVIOUS
  <2>1. ASSUME NEW p \in Procs, StageText(p) PROVE FileInv'
    BY <2>1, StageTextIs DEF FileInv
  <2>2. ASSUME NEW p \in Procs, InstallText(p) PROVE FileInv'
    BY <2>2, InstallTextIs DEF FileInv
  <2>3. ASSUME NEW p \in Procs, CutShort(p) PROVE FileInv'
    BY <2>3, CutShortIs DEF FileInv, Keeps
  <2>4. CASE EditText
    <3>1. hosts'.block = hosts.block /\ staged' = staged
      BY <2>4 DEF EditText, UserEdit, TypeOK, HostsFile
    <3>2. QED
      BY <2>4, <3>1, EditTextIs DEF FileInv
  <2>5. CASE Elsewhere
    BY <2>5, ElsewhereKeeps DEF FileInv, Keeps
  <2>6. CASE UNCHANGED <<vars, textVars>>
    BY <2>6 DEF FileInv, vars, textVars, fileVars
  <2>7. QED
    BY <2>1, <2>2, <2>3, <2>4, <2>5, <2>6 DEF TextNext
<1>3. TextSpec => []TypeOK
  BY TextImplementsLifecycle, TypeCorrect, PTL
<1>4. QED
  BY <1>1, <1>2, <1>3, PTL DEF TextSpec

(* Whether the redirect is in place is what the text shows, and there is   *)
(* never a second block in it (hosts.rs:14-84): with any number of         *)
(* processes, whatever a user writes and wherever a copy is cut short.     *)
THEOREM BlockIsAsText == TextSpec => []BlockAsText
<1>1. FileInv => BlockAsText
  <2> SUFFICES ASSUME FileInv PROVE BlockAsText
    OBVIOUS
  <2>1. ASSUME NEW symbol \in {BEGIN, END}
        PROVE  Cardinality({i \in 1..Len(text) : text[i] = symbol}) <= 1
    <3> DEFINE I == {i \in 1..Len(text) : text[i] = symbol}
    <3>1. \A i, j \in I : i = j
      BY <2>1 DEF FileInv, Shaped, Unique
    <3> HIDE DEF I
    <3>2. CASE I = {}
      <4>1. Cardinality(I) = 0
        BY <3>2, FS_EmptySet
      <4>2. QED
        BY <4>1 DEF I
    <3>3. CASE I # {}
      <4>1. PICK i : i \in I
        BY <3>3
      <4>2. I = {i}
        BY <3>1, <4>1
      <4>3. Cardinality(I) = 1
        BY <4>2, FS_Singleton
      <4>4. QED
        BY <4>3 DEF I
    <3>4. QED
      BY <3>2, <3>3
  <2>2. QED
    BY <2>1 DEF FileInv, BlockAsText
<1>2. QED
  BY <1>1, FileInvHolds, PTL

(* Redirecting a file that has just been redirected changes nothing        *)
(* (hosts.rs:95): the user's lines lose the line ends they end in once,    *)
(* and the blank line before the block is not a second time.               *)
THEOREM AppliedStaysCurrent == TextSpec => []AppliedIsCurrent
<1>1. FileInv => AppliedIsCurrent
  BY RedirectedIsCurrent DEF FileInv, AppliedIsCurrent
<1>2. QED
  BY <1>1, FileInvHolds, PTL

-----------------------------------------------------------------------------
(* The user's lines, when nobody else is under way.                        *)

OwnInv ==
  ~raced /\ ~unclosed =>
    /\ OwnLines(text) = mine
    /\ Staging # {} => OwnLines(stagedText) = mine

(* Every line of the user's that is not blank stays (hosts.rs:5): what a   *)
(* batch stages has the lines of the file it read, and until its copy the  *)
(* file has no others.  For one process at a time: another one's copy that *)
(* is cut short would change the file under a batch as an edit does.       *)
THEOREM OwnLinesAreKept ==
  ASSUME \A p, q \in Procs : p = q
  PROVE  TextSpec => []OwnLinesStay
<1>1. TextInit => OwnInv
  BY DEF TextInit, Init, OwnInv, Staging
<1>2. TypeOK /\ FileInv /\ OwnInv /\ [TextNext]_<<vars, textVars>> => OwnInv'
  <2> SUFFICES ASSUME TypeOK, FileInv, OwnInv, [TextNext]_<<vars, textVars>> PROVE OwnInv'
    OBVIOUS
  <2>1. ASSUME NEW p \in Procs, StageText(p) PROVE OwnInv'
    BY <2>1, StageTextIs DEF OwnInv, FileInv
  <2>2. ASSUME NEW p \in Procs, InstallText(p) PROVE OwnInv'
    BY <2>2, InstallTextIs DEF OwnInv
  <2>3. ASSUME NEW p \in Procs, CutShort(p) PROVE OwnInv'
    <3>1. p \notin Staging' /\ mine' = OwnLines(text')
      BY <2>3, CutShortIs DEF FileInv
    <3>2. Staging' = {}
      BY <3>1 DEF Staging
    <3>3. QED
      BY <3>1, <3>2 DEF OwnInv
  <2>4. CASE EditText
    <3>1. ~unclosed' => OwnLines(text') = mine'
      BY <2>4, EditTextIs DEF FileInv
    <3>2. Staging' = Staging /\ (raced' <=> raced \/ Staging # {})
      BY <2>4 DEF EditText, UserEdit, procVars, Staging
    <3>3. QED
      BY <3>1, <3>2 DEF OwnInv
  <2>5. CASE Elsewhere
    BY <2>5, ElsewhereKeeps DEF OwnInv, Keeps
  <2>6. CASE UNCHANGED <<vars, textVars>>
    BY <2>6 DEF OwnInv, Staging, vars, textVars, procVars, userVars
  <2>7. QED
    BY <2>1, <2>2, <2>3, <2>4, <2>5, <2>6 DEF TextNext
<1>3. TextSpec => []TypeOK
  BY TextImplementsLifecycle, TypeCorrect, PTL
<1>4. OwnInv => OwnLinesStay
  BY DEF OwnInv, OwnLinesStay
<1>5. QED
  BY <1>1, <1>2, <1>3, <1>4, FileInvHolds, PTL DEF TextSpec
=============================================================================
