--------------------------- MODULE IngestionProofs ---------------------------
(***************************************************************************)
(* The tables of the webhook and the reconciliation, for any handlers, any *)
(* bodies and pages, and any number of repeated, overlapping and stopped   *)
(* deliveries.                                                             *)
(*                                                                         *)
(* The loop over the records of a message is a recursive function.  It     *)
(* exists, and what one turn preserves the loop preserves, because a first *)
(* turn that is an exception cannot be: LeastNumber stands for induction.  *)
(***************************************************************************)
EXTENDS Ingestion, FiniteSetTheorems, WellFoundedInduction, TLAPS

-----------------------------------------------------------------------------
(* Numbers.                                                                *)

Less == {pair \in Nat \X Nat : pair[1] < pair[2]}

\* Every nonempty set of natural numbers has a least element.
LEMMA LeastNumber ==
  ASSUME NEW T \in SUBSET Nat, T # {}
  PROVE  \E n \in T : \A m \in T : n <= m
<1>1. IsWellFoundedOn(Less, Nat)
  BY NatLessThanWellFounded DEF Less, OpToRel
<1>2. PICK n \in T : \A m \in T : ~ (<<m, n>> \in Less)
  BY <1>1, WFMin
<1>3. ASSUME NEW m \in T PROVE n <= m
  <2>1. n \in Nat /\ m \in Nat /\ <<m, n>> \notin Less
    BY <1>2
  <2> QED
    BY <2>1 DEF Less
<1> QED
  BY <1>3

\* A set of numbers that 0 belongs to, and with a number below a limit the next
\* one, holds the limit.
LEMMA Climb ==
  ASSUME NEW limit \in Nat, NEW T, 0 \in T,
         \A n \in Nat : n < limit /\ n \in T => n + 1 \in T
  PROVE  limit \in T
<1> DEFINE Missing == {n \in 0 .. limit : n \notin T}
<1>1. CASE Missing = {}
  <2>1. limit \in 0 .. limit
    OBVIOUS
  <2> QED
    BY <1>1, <2>1
<1>2. CASE Missing # {}
  <2>0. Missing \in SUBSET Nat
    OBVIOUS
  <2>1. PICK n \in Missing : \A m \in Missing : n <= m
    <3> HIDE DEF Missing
    <3> QED
      BY <1>2, <2>0, LeastNumber
  <2>2. n \in Nat /\ n # 0 /\ n <= limit
    BY <2>1
  <2>3. n - 1 \in Nat /\ n - 1 < limit /\ n - 1 \notin Missing
    BY <2>1, <2>2
  <2>4. n - 1 \in T
    BY <2>2, <2>3
  <2>5. (n - 1) + 1 \in T
    BY <2>3, <2>4
  <2> QED
    BY <2>1, <2>2, <2>5
<1> QED
  BY <1>1, <1>2

-----------------------------------------------------------------------------
(* The projections.                                                        *)

Newest(rows, obs) ==
    \A r \in Orders :
        IF rows[r] = None THEN \A o \in obs : o.order # r
        ELSE /\ rows[r].latest \in obs
             /\ \A o \in obs : o.order = r => o.time <= rows[r].latest.time

Forward(old, new) ==
    \A r \in Orders : old[r] # None =>
        /\ new[r] # None
        /\ new[r].latest.time >= old[r].latest.time
        /\ old[r].amount # None => new[r].amount # None

Projections == [Orders -> Projection \cup {None}]

LEMMA RowTypes ==
  ASSUME NEW rows \in Projections, NEW r \in Orders, rows[r] # None
  PROVE  /\ rows[r] \in Projection
         /\ rows[r].latest \in Observation
         /\ rows[r].latest.time \in Nat
         /\ rows[r].amount \in Nat \cup {None}
BY DEF Projections, Projection, Observation

LEMMA ForwardTrans ==
  ASSUME NEW a \in Projections, NEW b \in Projections, NEW c \in Projections,
         Forward(a, b), Forward(b, c)
  PROVE  Forward(a, c)
<1> SUFFICES ASSUME NEW r \in Orders, a[r] # None
             PROVE  /\ c[r] # None
                    /\ c[r].latest.time >= a[r].latest.time
                    /\ a[r].amount # None => c[r].amount # None
  BY DEF Forward
<1>1. /\ b[r] # None
      /\ b[r].latest.time >= a[r].latest.time
      /\ a[r].amount # None => b[r].amount # None
  BY DEF Forward
<1>2. /\ c[r] # None
      /\ c[r].latest.time >= b[r].latest.time
      /\ b[r].amount # None => c[r].amount # None
  BY <1>1 DEF Forward
<1>3. a[r].latest.time \in Nat /\ b[r].latest.time \in Nat /\ c[r].latest.time \in Nat
  BY <1>1, <1>2, RowTypes
<1> QED
  BY <1>1, <1>2, <1>3

\* One upsert: only the row of its order changes, it keeps the newest
\* observation and it does not forget an amount.
LEMMA UpsertOne ==
  ASSUME NEW rows \in Projections, NEW obs \in SUBSET Observation,
         NEW o \in Observation, Newest(rows, obs)
  PROVE  /\ Upsert(rows, o) \in Projections
         /\ Newest(Upsert(rows, o), obs \cup {o})
         /\ Forward(rows, Upsert(rows, o))
<1> DEFINE row == rows[o.order]
           new == Upsert(rows, o)
<1>1. /\ o.order \in Orders /\ o.time \in Nat /\ o.amount \in Nat \cup {None}
      /\ \A x \in obs : x.time \in Nat
  BY DEF Observation
<1>2. \A p \in Projection : p # None
  BY IngestAssumption
<1>3. CASE row = None
  <2> DEFINE p == [latest |-> o, amount |-> o.amount]
  <2>1. p \in Projection
    BY <1>1 DEF Projection
  <2>2. new = [rows EXCEPT ![o.order] = p]
    BY <1>3 DEF Upsert
  <2>3. new \in Projections /\ new[o.order] = p /\ p # None
    BY <1>1, <1>2, <2>1, <2>2 DEF Projections
  <2>4. \A r \in Orders : r # o.order => new[r] = rows[r]
    BY <2>2 DEF Projections
  <2> HIDE DEF new
  <2>5. p.latest = o
    OBVIOUS
  <2> HIDE DEF p
  <2>6. Newest(new, obs \cup {o})
    BY <1>1, <1>3, <2>3, <2>4, <2>5 DEF Newest
  <2>7. Forward(rows, new)
    <3>1. \A r \in Orders : rows[r] # None => new[r] = rows[r] /\ rows[r].latest.time \in Nat
      BY <1>3, <2>4, RowTypes
    <3> QED
      BY <3>1 DEF Forward
  <2> QED
    BY <2>3, <2>6, <2>7 DEF new
<1>4. CASE row # None /\ Newer(o, row)
  <2> DEFINE p == [latest |-> o, amount |-> Coalesce(o.amount, row.amount)]
  <2>0. /\ row.latest.time \in Nat /\ row.amount \in Nat \cup {None}
        /\ row.latest.time <= o.time
    BY <1>1, <1>4, RowTypes DEF Newer
  <2>1. /\ p \in Projection
        /\ row.amount # None => Coalesce(o.amount, row.amount) # None
    BY <1>1, <2>0 DEF Projection, Coalesce
  <2>2. new = [rows EXCEPT ![o.order] = p]
    BY <1>4 DEF Upsert
  <2>3. new \in Projections /\ new[o.order] = p /\ p # None
    BY <1>1, <1>2, <2>1, <2>2 DEF Projections
  <2>4. \A r \in Orders : r # o.order => new[r] = rows[r]
    BY <2>2 DEF Projections
  <2> HIDE DEF new
  <2>5. p.latest = o /\ p.amount = Coalesce(o.amount, row.amount)
    OBVIOUS
  <2> HIDE DEF p
  <2>6. Newest(new, obs \cup {o})
    <3> SUFFICES ASSUME NEW r \in Orders
                 PROVE  IF new[r] = None THEN \A x \in obs \cup {o} : x.order # r
                        ELSE /\ new[r].latest \in obs \cup {o}
                             /\ \A x \in obs \cup {o} :
                                   x.order = r => x.time <= new[r].latest.time
      BY DEF Newest
    <3>1. CASE r = o.order
      <4>1. \A x \in obs : x.order = r => x.time <= row.latest.time
        BY <1>4, <3>1 DEF Newest
      <4>2. \A x \in obs \cup {o} : x.order = r => x.time <= o.time
        BY <1>1, <2>0, <4>1
      <4> QED
        BY <2>3, <2>5, <3>1, <4>2
    <3>2. CASE r # o.order
      <4>1. new[r] = rows[r]
        BY <2>4, <3>2
      <4> QED
        BY <3>2, <4>1 DEF Newest
    <3> QED
      BY <3>1, <3>2
  <2>7. Forward(rows, new)
    <3> SUFFICES ASSUME NEW r \in Orders, rows[r] # None
                 PROVE  /\ new[r] # None
                        /\ new[r].latest.time >= rows[r].latest.time
                        /\ rows[r].amount # None => new[r].amount # None
      BY DEF Forward
    <3>1. CASE r = o.order
      BY <1>1, <2>0, <2>1, <2>3, <2>5, <3>1
    <3>2. CASE r # o.order
      BY <2>4, <3>2, RowTypes
    <3> QED
      BY <3>1, <3>2
  <2> QED
    BY <2>3, <2>6, <2>7 DEF new
<1>5. CASE row # None /\ ~ Newer(o, row)
  <2>1. new = rows
    BY <1>5 DEF Upsert
  <2>2. row.latest.time \in Nat /\ o.time <= row.latest.time
    BY <1>1, <1>5, RowTypes DEF Newer
  <2>3. Newest(rows, obs \cup {o})
    BY <1>1, <1>5, <2>2 DEF Newest
  <2>4. Forward(rows, rows)
    BY RowTypes DEF Forward
  <2> QED
    BY <2>1, <2>3, <2>4
<1> QED
  BY <1>3, <1>4, <1>5

Turns(rows, os, f) ==
    f = [n \in 0 .. Len(os) |-> IF n = 0 THEN rows ELSE Upsert(f[n - 1], os[n])]

\* The loop over the records is well defined: there is a function of the turns,
\* for a prefix of one record more than for the prefix before it.
LEMMA LoopExists ==
  ASSUME NEW rows, NEW os \in Seq(Observation)
  PROVE  \E f : Turns(rows, os, f) /\ UpsertAll(rows, os) = f[Len(os)]
<1>3. Len(os) \in Nat
  OBVIOUS
<1> DEFINE Upto(k, f) == /\ f[0] = rows
                         /\ \A n \in 1 .. k : f[n] = Upsert(f[n - 1], os[n])
           T == {k \in Nat : \E f : Upto(k, f)}
<1>1. 0 \in T
  <2>1. Upto(0, [n \in {0} |-> rows])
    OBVIOUS
  <2> QED
    BY <2>1
<1>2. ASSUME NEW k \in Nat, k < Len(os), k \in T PROVE k + 1 \in T
  <2>1. PICK f : Upto(k, f)
    BY <1>2
  <2> DEFINE g == [n \in 0 .. k + 1 |-> IF n = k + 1 THEN Upsert(f[k], os[k + 1]) ELSE f[n]]
  <2>2. g[0] = rows
    BY <2>1
  <2>3. ASSUME NEW n \in 1 .. k + 1 PROVE g[n] = Upsert(g[n - 1], os[n])
    <3>1. CASE n = k + 1
      <4>1. n - 1 = k /\ g[n - 1] = f[k]
        BY <3>1
      <4> QED
        BY <3>1, <4>1
    <3>2. CASE n # k + 1
      <4>1. n \in 1 .. k /\ g[n] = f[n] /\ g[n - 1] = f[n - 1]
        BY <3>2
      <4> QED
        BY <2>1, <4>1
    <3> QED
      BY <3>1, <3>2
  <2>4. Upto(k + 1, g)
    BY <2>2, <2>3
  <2> HIDE DEF g, Upto
  <2> QED
    BY <2>4
<1>4. Len(os) \in T
  <2> HIDE DEF T
  <2> QED
    BY <1>1, <1>2, <1>3, Climb
<1>5. PICK h : Upto(Len(os), h)
  BY <1>4
<1> DEFINE f == [n \in 0 .. Len(os) |-> h[n]]
<1>6. Turns(rows, os, f)
  <2>1. ASSUME NEW n \in 0 .. Len(os)
        PROVE  f[n] = IF n = 0 THEN rows ELSE Upsert(f[n - 1], os[n])
    <3>1. CASE n = 0
      BY <1>5, <3>1
    <3>2. CASE n # 0
      <4>1. n \in 1 .. Len(os) /\ n - 1 \in 0 .. Len(os)
        BY <1>3, <3>2
      <4>2. f[n] = h[n] /\ f[n - 1] = h[n - 1]
        BY <4>1
      <4> HIDE DEF f
      <4> QED
        BY <1>5, <3>2, <4>1, <4>2
    <3> QED
      BY <3>1, <3>2
  <2>2. f = [n \in 0 .. Len(os) |-> IF n = 0 THEN rows ELSE Upsert(f[n - 1], os[n])]
    BY <2>1
  <2> HIDE DEF f
  <2> QED
    BY <2>2 DEF Turns
<1> DEFINE c == CHOOSE e : e = [n \in 0 .. Len(os) |->
                                   IF n = 0 THEN rows ELSE Upsert(e[n - 1], os[n])]
<1>7. Turns(rows, os, c)
  BY <1>6 DEF Turns
<1>8. UpsertAll(rows, os) = c[Len(os)]
  BY DEF UpsertAll
<1> QED
  BY <1>7, <1>8

Shown(os, n) == {os[i] : i \in 1 .. n}

(***************************************************************************)
(* All the records of a message, in their order: the projections show the  *)
(* newest observation of each order, old or new, and never go back.        *)
(***************************************************************************)
LEMMA UpsertMany ==
  ASSUME NEW rows \in Projections, NEW obs \in SUBSET Observation,
         NEW os \in Seq(Observation), Newest(rows, obs)
  PROVE  /\ UpsertAll(rows, os) \in Projections
         /\ Newest(UpsertAll(rows, os), obs \cup {os[i] : i \in DOMAIN os})
         /\ Forward(rows, UpsertAll(rows, os))
<1>1. PICK f : Turns(rows, os, f) /\ UpsertAll(rows, os) = f[Len(os)]
  BY LoopExists
<1>2. /\ Len(os) \in Nat /\ DOMAIN os = 1 .. Len(os)
      /\ \A i \in 1 .. Len(os) : os[i] \in Observation
  OBVIOUS
<1> DEFINE Good(n) == /\ f[n] \in Projections
                      /\ Newest(f[n], obs \cup Shown(os, n))
                      /\ Forward(rows, f[n])
           T == {n \in 0 .. Len(os) : Good(n)}
<1>3. 0 \in T
  <2>1. f[0] = rows
    BY <1>1, <1>2 DEF Turns
  <2>2. obs \cup Shown(os, 0) = obs
    BY DEF Shown
  <2>3. Forward(rows, rows)
    BY RowTypes DEF Forward
  <2>4. Good(0)
    BY <2>1, <2>2, <2>3
  <2>5. 0 \in 0 .. Len(os)
    BY <1>2
  <2> HIDE DEF Good
  <2> QED
    BY <2>4, <2>5
<1>4. ASSUME NEW n \in Nat, n < Len(os), n \in T PROVE n + 1 \in T
  <2> DEFINE o == os[n + 1]
             seen == obs \cup Shown(os, n)
  <2>1. n + 1 \in 0 .. Len(os) /\ n + 1 # 0 /\ (n + 1) - 1 = n
    BY <1>2, <1>4
  <2>2. f[n + 1] = Upsert(f[n], o)
    BY <1>1, <2>1 DEF Turns
  <2>3. o \in Observation /\ seen \in SUBSET Observation
    BY <1>2, <1>4 DEF Shown
  <2>4. /\ f[n] \in Projections /\ Newest(f[n], seen) /\ Forward(rows, f[n])
    BY <1>4
  <2>5. /\ Upsert(f[n], o) \in Projections
        /\ Newest(Upsert(f[n], o), seen \cup {o})
        /\ Forward(f[n], Upsert(f[n], o))
    <3> HIDE DEF o, seen
    <3> QED
      BY <2>3, <2>4, UpsertOne
  <2>6. seen \cup {o} = obs \cup Shown(os, n + 1)
    <3>1. Shown(os, n + 1) = Shown(os, n) \cup {os[n + 1]}
      BY DEF Shown
    <3> QED
      BY <3>1
  <2>7. Forward(rows, f[n + 1])
    BY <2>2, <2>4, <2>5, ForwardTrans
  <2>8. Good(n + 1)
    BY <2>2, <2>5, <2>6, <2>7
  <2> QED
    BY <2>1, <2>8
<1>5. Len(os) \in T
  <2> HIDE DEF T
  <2> QED
    BY <1>2, <1>3, <1>4, Climb
<1>6. Shown(os, Len(os)) = {os[i] : i \in DOMAIN os}
  BY <1>2 DEF Shown
<1> QED
  BY <1>1, <1>5, <1>6

LEMMA NoneIsNoRow ==
  /\ None \notin Nat
  /\ None \notin RawRow
  /\ None \notin Projection
  /\ None \notin Checkpoint
  /\ None \notin Job
  /\ MaxClock \in Nat
BY IngestAssumption

\* The greatest of a time and those of the observations is one of them.
LEMMA LatestTime ==
  ASSUME NEW t \in Nat, NEW os \in Seq(Observation)
  PROVE  LET all == {t} \cup {os[i].time : i \in DOMAIN os}
         IN  /\ all \subseteq Nat /\ Max(all) \in all
             /\ \A y \in all : y <= Max(all)
<1> DEFINE Times(n) == {t} \cup {os[i].time : i \in 1 .. n}
           Top(n) == \E x \in Times(n) : \A y \in Times(n) : x >= y
           T == {n \in 0 .. Len(os) : Top(n)}
<1>1. /\ Len(os) \in Nat /\ DOMAIN os = 1 .. Len(os)
      /\ \A i \in 1 .. Len(os) : os[i].time \in Nat
  <2>1. Len(os) \in Nat /\ DOMAIN os = 1 .. Len(os)
    OBVIOUS
  <2>2. \A i \in 1 .. Len(os) : os[i] \in Observation
    BY <2>1
  <2>3. \A o \in Observation : o.time \in Nat
    BY DEF Observation
  <2> QED
    BY <2>1, <2>2, <2>3
<1>2. 0 \in T
  <2>1. Times(0) = {t}
    OBVIOUS
  <2> QED
    BY <1>1, <2>1
<1>3. ASSUME NEW n \in Nat, n < Len(os), n \in T PROVE n + 1 \in T
  <2>1. PICK x \in Times(n) : \A y \in Times(n) : x >= y
    BY <1>3
  <2>2. Times(n + 1) = Times(n) \cup {os[n + 1].time}
    OBVIOUS
  <2>3. Times(n + 1) \subseteq Nat /\ os[n + 1].time \in Nat
    BY <1>1, <1>3
  <2> HIDE DEF Times
  <2>4. CASE x >= os[n + 1].time
    BY <1>1, <1>3, <2>1, <2>2, <2>4
  <2>5. CASE ~ (x >= os[n + 1].time)
    <3>1. \A y \in Times(n + 1) : os[n + 1].time >= y
      BY <2>1, <2>2, <2>3, <2>5
    <3> QED
      BY <1>1, <1>3, <2>2, <3>1
  <2> QED
    BY <2>4, <2>5
<1>4. Len(os) \in T
  <2> HIDE DEF T
  <2> QED
    BY <1>1, <1>2, <1>3, Climb
<1>5. Times(Len(os)) = {t} \cup {os[i].time : i \in DOMAIN os} /\ Times(Len(os)) \subseteq Nat
  BY <1>1
<1> HIDE DEF Times
<1>6. /\ Max(Times(Len(os))) \in Times(Len(os))
      /\ \A y \in Times(Len(os)) : Max(Times(Len(os))) >= y
  BY <1>4, <1>5 DEF Max
<1> QED
  BY <1>5, <1>6

\* last_platform_updated_at is the newest of the times there are, if any.
LEMMA GreatestTime ==
  ASSUME NEW old \in Nat \cup {None}, NEW os \in Seq(Observation)
  PROVE  LET times == {os[i].time : i \in DOMAIN os}
             g == Greatest(old, times)
         IN  /\ g \in Nat \cup {None}
             /\ g # None => g \in times \cup {old}
             /\ \A y \in times \cup {old} : y # None => g # None /\ y <= g
<1> DEFINE times == {os[i].time : i \in DOMAIN os}
           some == (times \cup {old}) \ {None}
<1>1. None \notin Nat /\ times \subseteq Nat
  <2>1. 0 \in Nat /\ times \subseteq {0} \cup times
    OBVIOUS
  <2> HIDE DEF times
  <2>2. {0} \cup times \subseteq Nat
    BY LatestTime DEF times
  <2> QED
    BY <2>1, <2>2, NoneIsNoRow
<1>2. CASE some = {}
  <2>1. Greatest(old, times) = None
    BY <1>2 DEF Greatest
  <2> HIDE DEF times
  <2> QED
    BY <1>1, <1>2, <2>1 DEF times
<1>3. CASE some # {}
  <2>1. PICK t : t \in some
    BY <1>3
  <2>2. t \in Nat
    BY <1>1, <2>1
  <2>3. some = {t} \cup times \/ (old \in some /\ some = {old} \cup times)
    BY <1>1, <2>1
  <2>4. \E u \in Nat : some = {u} \cup times
    BY <1>1, <2>2, <2>3
  <2>5. PICK u \in Nat : some = {u} \cup times
    BY <2>4
  <2>6. /\ some \subseteq Nat /\ Max(some) \in some
        /\ \A y \in some : y <= Max(some)
    BY <2>5, LatestTime
  <2>7. Greatest(old, times) = Max(some)
    BY <1>3 DEF Greatest
  <2> HIDE DEF times, some
  <2> QED
    BY <1>1, <2>6, <2>7 DEF times, some
<1> QED
  BY <1>2, <1>3

-----------------------------------------------------------------------------
(* The inductive invariant.                                                *)

Stored(m) == [message |-> m, status |-> "normalized"]

FromPlatform(j) ==
    IF j.kind = "webhook" THEN j.body \in Bodies ELSE \E page \in Pages : j.body = <<page>>

\* What a request has behind it is stored, and what it is about to apply is the
\* message of its row: no other delivery replaces the message of an event.
JobOK(h) ==
    job[h] # None =>
        /\ FromPlatform(job[h])
        /\ \A i \in 1 .. job[h].at - 1 :
              raw[job[h].body[i].event] = Stored(job[h].body[i])
        /\ job[h].pc # "store" =>
              /\ job[h].at <= Len(job[h].body)
              /\ raw[Current(h).event] # None
              /\ raw[Current(h).event].message = Current(h)

JobsOK == \A h \in Handlers : JobOK(h)

ObservedIsRaw == \A o \in observed : raw[o.event] # None

IngestInv ==
    /\ IngestTypeOK
    /\ StatusIsTrue
    /\ CheckpointIsStored
    /\ AckedIsStored
    /\ ProjectionIsNewest
    /\ JobsOK
    /\ ObservedIsRaw

\* A row is never removed, its message never replaced, and a normalized one
\* never changed.
RawKept ==
    \A e \in Events : raw[e] # None =>
        /\ raw'[e] # None
        /\ raw'[e].message = raw[e].message
        /\ raw[e].status = "normalized" => raw'[e] = raw[e]

LEMMA BodyTypes ==
  /\ \A body \in Bodies \cup {<<page>> : page \in Pages} :
        /\ body \in Seq(Message)
        /\ Len(body) \in Nat \ {0}
        /\ \A i \in 1 .. Len(body) : body[i] \in Message /\ body[i].event \in Events
  /\ \A m \in Message : m.event \in Events /\ m.valid \in BOOLEAN /\ m.facts \in Seq(Fact)
<1>1. \A body \in Bodies \cup {<<page>> : page \in Pages} :
         body \in Seq(Message) /\ body # <<>>
  <2>1. \A body \in Bodies : body \in Seq(Message) /\ body # <<>>
    BY IngestAssumption
  <2>2. \A page \in Message : <<page>> \in Seq(Message) /\ <<page>> # <<>>
    OBVIOUS
  <2>3. Pages \subseteq Message
    BY IngestAssumption
  <2> QED
    BY <2>1, <2>2, <2>3
<1>2. \A m \in Message : m.event \in Events /\ m.valid \in BOOLEAN /\ m.facts \in Seq(Fact)
  BY DEF Message
<1>3. ASSUME NEW body \in Seq(Message), body # <<>>
      PROVE  /\ Len(body) \in Nat \ {0}
             /\ \A i \in 1 .. Len(body) : body[i] \in Message /\ body[i].event \in Events
  <2>1. \A i \in 1 .. Len(body) : body[i] \in Message
    OBVIOUS
  <2>2. Len(body) \in Nat \ {0}
    BY <1>3
  <2> QED
    BY <1>2, <2>1, <2>2
<1> QED
  BY <1>1, <1>2, <1>3

LEMMA JobTypes ==
  ASSUME IngestTypeOK, NEW h \in Handlers, job[h] # None
  PROVE  /\ job[h] \in Job
         /\ job[h].kind \in {"webhook", "reconcile"}
         /\ job[h].body \in Bodies \cup {<<page>> : page \in Pages}
         /\ job[h].at \in Nat \ {0}
         /\ job[h].at <= Len(job[h].body) + 1
         /\ job[h].pc \in {"store", "apply", "write"}
         /\ job[h].received \in 0 .. MaxClock
         /\ job[h].seen \in Checkpoint \cup {None}
         /\ job[h].at <= Len(job[h].body) =>
               Current(h) \in Message /\ Current(h).event \in Events
<1>1. job[h] \in Job /\ job[h].at <= Len(job[h].body) + 1
  BY DEF IngestTypeOK
<1>2. /\ job[h].kind \in {"webhook", "reconcile"}
      /\ job[h].body \in Bodies \cup {<<page>> : page \in Pages}
      /\ job[h].at \in Nat \ {0}
      /\ job[h].pc \in {"store", "apply", "write"}
      /\ job[h].received \in 0 .. MaxClock
      /\ job[h].seen \in Checkpoint \cup {None}
  BY <1>1 DEF Job
<1>3. Len(job[h].body) \in Nat
  BY <1>2, BodyTypes
<1>4. ASSUME job[h].at <= Len(job[h].body)
      PROVE  Current(h) \in Message /\ Current(h).event \in Events
  <2>1. job[h].at \in 1 .. Len(job[h].body)
    BY <1>2, <1>3, <1>4
  <2> QED
    BY <1>2, <2>1, BodyTypes DEF Current
<1> QED
  BY <1>1, <1>2, <1>4

LEMMA RawTypes ==
  ASSUME IngestTypeOK, NEW e \in Events, raw[e] # None
  PROVE  /\ raw[e] \in RawRow
         /\ raw[e].message \in Message
         /\ raw[e].status \in {"pending", "normalized", "rejected"}
         /\ raw[e] = [message |-> raw[e].message, status |-> raw[e].status]
BY DEF IngestTypeOK, RawRow

LEMMA ObservationsTyped ==
  ASSUME NEW m \in Message, NEW received \in Nat
  PROVE  /\ Observations(m, received) \in Seq(Observation)
         /\ DOMAIN Observations(m, received) = DOMAIN m.facts
         /\ \A i \in DOMAIN m.facts :
               /\ Observations(m, received)[i] = Observe(m.event, m.facts[i], received)
               /\ Observations(m, received)[i].event = m.event
<1> DEFINE os == Observations(m, received)
<1>1. m.event \in Events /\ m.facts \in Seq(Fact)
  BY BodyTypes
<1>2. /\ Len(m.facts) \in Nat
      /\ DOMAIN m.facts = 1 .. Len(m.facts)
      /\ \A i \in 1 .. Len(m.facts) : m.facts[i] \in Fact
  BY <1>1
<1>3. ASSUME NEW fact \in Fact
      PROVE  Observe(m.event, fact, received) \in Observation
  <2>1. TimeOf(fact, received) \in Nat
    BY DEF Fact, TimeOf
  <2>2. fact.order \in Orders /\ fact.status \in Statuses /\ fact.amount \in Nat \cup {None}
    BY DEF Fact
  <2> QED
    BY <1>1, <2>1, <2>2 DEF Observe, Observation
<1>4. \A i \in 1 .. Len(m.facts) :
         os[i] = Observe(m.event, m.facts[i], received) /\ os[i] \in Observation
  BY <1>2, <1>3 DEF Observations
<1>5. os \in [1 .. Len(m.facts) -> Observation]
  BY <1>2, <1>3 DEF Observations
<1>6. os \in Seq(Observation)
  BY <1>2, <1>5
<1>7. \A i \in 1 .. Len(m.facts) : os[i].event = m.event
  <2>1. \A i \in 1 .. Len(m.facts) : Observe(m.event, m.facts[i], received).event = m.event
    BY DEF Observe
  <2> HIDE DEF os
  <2> QED
    BY <1>4, <2>1
<1> QED
  BY <1>2, <1>4, <1>5, <1>6, <1>7

\* StatusIsTrue, row by row.
StoredIn(obs, m) ==
    \A i \in DOMAIN m.facts :
        \E o \in obs : \E t \in 0 .. MaxClock : o = Observe(m.event, m.facts[i], t)

Truth(e, row, obs) ==
    IF row.status = "normalized" THEN row.message.valid /\ StoredIn(obs, row.message)
    ELSE \A o \in obs : o.event # e

LEMMA StatusTruth ==
  /\ StatusIsTrue <=> \A e \in Events : raw[e] # None => Truth(e, raw[e], observed)
  /\ StatusIsTrue' <=> \A e \in Events : raw'[e] # None => Truth(e, raw'[e], observed')
BY DEF StatusIsTrue, Observed, Truth, StoredIn

\* So does the checkpoint, when neither it nor an observation changes.
LEMMA CheckpointKept ==
  ASSUME IngestInv, RawKept, UNCHANGED <<observed, checkpoint>>
  PROVE  CheckpointIsStored'
<1>1. \A page \in Pages : page \in Message /\ page.event \in Events
  BY IngestAssumption, BodyTypes
<1>2. ASSUME NEW page \in Pages, raw[page.event] = Stored(page)
      PROVE  raw'[page.event] = Stored(page)
  <2>1. Stored(page) \in RawRow /\ Stored(page).status = "normalized"
    BY <1>1 DEF Stored, RawRow
  <2> QED
    BY <1>1, <1>2, <2>1, NoneIsNoRow DEF RawKept
<1> QED
  BY <1>2 DEF IngestInv, CheckpointIsStored, Stored

\* Where the rows are kept, what was acknowledged stays stored, and a request
\* that does not move keeps what it has.
LEMMA KeptJobs ==
  ASSUME IngestInv, RawKept
  PROVE  /\ acked' = acked => AckedIsStored'
         /\ \A h \in Handlers : job'[h] = job[h] => JobOK(h)'
<1>0. IngestTypeOK /\ AckedIsStored /\ JobsOK
  BY DEF IngestInv
<1>1. \A m \in Message : Stored(m) # None /\ Stored(m).status = "normalized"
  <2>1. \A m \in Message : Stored(m) \in RawRow
    BY DEF Stored, RawRow
  <2> QED
    BY <2>1, NoneIsNoRow DEF Stored
<1>2. ASSUME NEW m \in Message, raw[m.event] = Stored(m)
      PROVE  raw'[m.event] = Stored(m)
  BY <1>1, <1>2, BodyTypes DEF RawKept
<1>3. acked' = acked => AckedIsStored'
  <2>1. ASSUME acked' = acked, NEW body \in acked, NEW i \in DOMAIN body
        PROVE  raw'[body[i].event] = [message |-> body[i], status |-> "normalized"]
    <3>1. body \in Seq(Message)
      BY <1>0, BodyTypes DEF IngestTypeOK
    <3>2. body[i] \in Message
      BY <3>1
    <3>3. raw[body[i].event] = Stored(body[i])
      BY <1>0 DEF AckedIsStored, Stored
    <3>4. raw'[body[i].event] = Stored(body[i])
      BY <1>2, <3>2, <3>3
    <3> QED
      BY <3>4 DEF Stored
  <2> QED
    BY <2>1 DEF AckedIsStored
<1>4. ASSUME NEW h \in Handlers, job'[h] = job[h], job[h] # None
      PROVE  JobOK(h)'
  <2>1. /\ job[h].body \in Bodies \cup {<<page>> : page \in Pages}
        /\ job[h].at \in Nat \ {0}
        /\ job[h].at <= Len(job[h].body) + 1
        /\ job[h].at <= Len(job[h].body) =>
               Current(h) \in Message /\ Current(h).event \in Events
    BY <1>0, <1>4, JobTypes
  <2>2. /\ FromPlatform(job[h])
        /\ \A i \in 1 .. job[h].at - 1 :
              raw[job[h].body[i].event] = Stored(job[h].body[i])
        /\ job[h].pc # "store" =>
              /\ job[h].at <= Len(job[h].body)
              /\ raw[Current(h).event] # None
              /\ raw[Current(h).event].message = Current(h)
    BY <1>0, <1>4 DEF JobsOK, JobOK
  <2>3. \A i \in 1 .. job[h].at - 1 : i \in 1 .. Len(job[h].body)
    BY <2>1, BodyTypes
  <2>4. \A i \in 1 .. job[h].at - 1 :
           raw'[job[h].body[i].event] = Stored(job[h].body[i])
    BY <1>2, <2>1, <2>2, <2>3, BodyTypes
  <2>5. job[h].pc # "store" =>
              /\ job[h].at <= Len(job[h].body)
              /\ raw'[Current(h).event] # None
              /\ raw'[Current(h).event].message = Current(h)
    BY <2>1, <2>2 DEF RawKept
  <2>6. Current(h)' = Current(h)
    BY <1>4 DEF Current
  <2> QED
    BY <1>4, <2>2, <2>4, <2>5, <2>6 DEF JobOK
<1>5. ASSUME NEW h \in Handlers, job'[h] = job[h], job[h] = None
      PROVE  JobOK(h)'
  BY <1>5 DEF JobOK
<1> QED
  BY <1>3, <1>4, <1>5

-----------------------------------------------------------------------------
(* The steps.                                                              *)

LEMMA InitInv == Init => IngestInv
<1> SUFFICES ASSUME Init PROVE IngestInv
  OBVIOUS
<1>1. IngestTypeOK
  BY NoneIsNoRow DEF Init, IngestTypeOK, Checkpoint
<1>2. JobsOK
  BY DEF Init, JobsOK, JobOK
<1>3. /\ StatusIsTrue /\ CheckpointIsStored /\ AckedIsStored
      /\ ProjectionIsNewest /\ ObservedIsRaw
  BY DEF Init, StatusIsTrue, CheckpointIsStored, AckedIsStored, ProjectionIsNewest, ObservedIsRaw
<1> QED
  BY <1>1, <1>2, <1>3 DEF IngestInv

\* The tables do not change, the jobs are typed and have what they should: the
\* invariant is kept.  For Tick, Begin, Concurrent, Acknowledge and Fail.
LEMMA TablesSame ==
  ASSUME IngestInv, UNCHANGED <<raw, observed, orders, checkpoint>>,
         clock' \in 0 .. MaxClock, IngestTypeOK', AckedIsStored', JobsOK'
  PROVE  IngestInv'
<1>1. StatusIsTrue' /\ CheckpointIsStored' /\ ProjectionIsNewest' /\ ObservedIsRaw'
  BY DEF IngestInv, StatusIsTrue, CheckpointIsStored, Observed, ProjectionIsNewest, ObservedIsRaw
<1> QED
  BY <1>1 DEF IngestInv

LEMMA SameRawKept == raw' = raw => RawKept
BY DEF RawKept

LEMMA TickInv == IngestInv /\ Tick => IngestInv'
<1> SUFFICES ASSUME IngestInv, Tick PROVE IngestInv'
  OBVIOUS
<1>1. IngestTypeOK /\ MaxClock \in Nat
  BY NoneIsNoRow DEF IngestInv
<1>2. clock' \in 0 .. MaxClock /\ IngestTypeOK'
  BY <1>1 DEF Tick, IngestTypeOK
<1>3. AckedIsStored' /\ JobsOK'
  BY KeptJobs, SameRawKept DEF Tick, JobsOK
<1> QED
  BY <1>2, <1>3, TablesSame DEF Tick

\* The job of one handler is set to another job, or to none.
LEMMA JobUpdate ==
  ASSUME IngestInv, RawKept, NEW h \in Handlers, NEW j \in Job \cup {None},
         job' = [job EXCEPT ![h] = j],
         j # None => j.at <= Len(j.body) + 1,
         JobOK(h)'
  PROVE  /\ job' \in [Handlers -> Job \cup {None}]
         /\ \A k \in Handlers : job'[k] # None => job'[k].at <= Len(job'[k].body) + 1
         /\ JobsOK'
<1>1. job \in [Handlers -> Job \cup {None}]
      /\ \A k \in Handlers : job[k] # None => job[k].at <= Len(job[k].body) + 1
  BY DEF IngestInv, IngestTypeOK
<1>2. job'[h] = j /\ \A k \in Handlers : k # h => job'[k] = job[k]
  BY <1>1
<1>3. job' \in [Handlers -> Job \cup {None}]
  BY <1>1
<1>4. JobsOK'
  BY <1>2, KeptJobs DEF JobsOK
<1> QED
  BY <1>1, <1>2, <1>3, <1>4

LEMMA NoJobOK ==
  ASSUME NEW h \in Handlers, job'[h] = None
  PROVE  JobOK(h)'
BY DEF JobOK

\* A handler stops, after an answer or without one.
LEMMA FinishInv ==
  ASSUME IngestInv, RawKept, NEW h \in Handlers, job' = Finish(h)
  PROVE  /\ job' \in [Handlers -> Job \cup {None}]
         /\ \A k \in Handlers : job'[k] # None => job'[k].at <= Len(job'[k].body) + 1
         /\ JobsOK'
<1>1. job' = [job EXCEPT ![h] = None]
  BY DEF Finish
<1>2. job'[h] = None
  BY <1>1 DEF IngestInv, IngestTypeOK
<1> QED
  BY <1>1, <1>2, NoJobOK, JobUpdate

LEMMA FreshJob ==
  ASSUME IngestInv, NEW h \in Handlers, NEW kind \in {"webhook", "reconcile"},
         NEW body \in Bodies \cup {<<page>> : page \in Pages},
         IF kind = "webhook" THEN body \in Bodies ELSE \E page \in Pages : body = <<page>>,
         Begin(h, Work(kind, body))
  PROVE  IngestInv'
<1> DEFINE j == Work(kind, body)
<1>1. IngestTypeOK /\ RawKept /\ UNCHANGED <<clock, raw, observed, orders, checkpoint, acked>>
  BY SameRawKept DEF IngestInv, Begin
<1>2. j \in Job /\ j # None
  <2>1. clock \in 0 .. MaxClock /\ checkpoint \in Checkpoint \cup {None}
    BY <1>1 DEF IngestTypeOK
  <2> QED
    BY <2>1, NoneIsNoRow DEF Work, Job
<1>3. /\ j.kind = kind /\ j.body = body /\ j.at = 1 /\ j.pc = "store"
      /\ Len(body) \in Nat
  BY BodyTypes DEF Work
<1>4. job' = [job EXCEPT ![h] = j]
  BY DEF Begin
<1> HIDE DEF j
<1>5. job'[h] = j
  BY <1>1, <1>4 DEF IngestTypeOK
<1>6. JobOK(h)'
  BY <1>3, <1>5 DEF JobOK, FromPlatform
<1>7. /\ job' \in [Handlers -> Job \cup {None}]
      /\ \A k \in Handlers : job'[k] # None => job'[k].at <= Len(job'[k].body) + 1
      /\ JobsOK'
  <2>1. j \in Job \cup {None} /\ j.at <= Len(j.body) + 1
    BY <1>2, <1>3
  <2> QED
    BY <1>1, <1>4, <1>6, <2>1, JobUpdate
<1>8. IngestTypeOK' /\ clock' \in 0 .. MaxClock
  BY <1>1, <1>7 DEF IngestTypeOK
<1>9. AckedIsStored'
  BY <1>1, KeptJobs
<1> QED
  BY <1>1, <1>7, <1>8, <1>9, TablesSame

LEMMA BeginInv ==
  ASSUME IngestInv, NEW h \in Handlers,
         \/ \E body \in Bodies : Deliver(h, body)
         \/ \E page \in Pages : Reconcile(h, page)
  PROVE  IngestInv'
<1>1. ASSUME NEW body \in Bodies, Deliver(h, body) PROVE IngestInv'
  BY <1>1, FreshJob DEF Deliver
<1>2. ASSUME NEW page \in Pages, Reconcile(h, page) PROVE IngestInv'
  BY <1>2, FreshJob DEF Reconcile
<1> QED
  BY <1>1, <1>2

\* A request ends without a write: Concurrent and Fail.
LEMMA EndInv ==
  ASSUME IngestInv, NEW h \in Handlers, Concurrent(h) \/ Fail(h)
  PROVE  IngestInv'
<1>1. /\ job' = Finish(h) /\ RawKept /\ IngestTypeOK
      /\ UNCHANGED <<clock, raw, observed, orders, checkpoint, acked>>
  BY SameRawKept DEF IngestInv, Concurrent, Fail
<1>2. /\ job' \in [Handlers -> Job \cup {None}]
      /\ \A k \in Handlers : job'[k] # None => job'[k].at <= Len(job'[k].body) + 1
      /\ JobsOK'
  BY <1>1, FinishInv
<1>3. IngestTypeOK' /\ clock' \in 0 .. MaxClock
  BY <1>1, <1>2 DEF IngestTypeOK
<1>4. AckedIsStored'
  BY <1>1, KeptJobs
<1> QED
  BY <1>1, <1>2, <1>3, <1>4, TablesSame

\* The answer to a webhook: the handler is past the last message of the body.
LEMMA AcknowledgeInv ==
  ASSUME IngestInv, NEW h \in Handlers, Acknowledge(h)
  PROVE  IngestInv'
<1>1. /\ job' = Finish(h) /\ RawKept /\ IngestTypeOK /\ job[h] # None
      /\ UNCHANGED <<clock, raw, observed, orders, checkpoint>>
      /\ job[h].at > Len(job[h].body)
      /\ acked' = IF job[h].kind = "webhook" THEN acked \cup {job[h].body} ELSE acked
  BY SameRawKept DEF IngestInv, Acknowledge
<1>2. /\ job' \in [Handlers -> Job \cup {None}]
      /\ \A k \in Handlers : job'[k] # None => job'[k].at <= Len(job'[k].body) + 1
      /\ JobsOK'
  BY <1>1, FinishInv
<1>3. /\ FromPlatform(job[h])
      /\ \A i \in 1 .. job[h].at - 1 :
            raw[job[h].body[i].event] = Stored(job[h].body[i])
  BY <1>1 DEF IngestInv, JobsOK, JobOK
<1>4. acked' \subseteq Bodies
  BY <1>1, <1>3 DEF IngestTypeOK, FromPlatform
<1>5. IngestTypeOK' /\ clock' \in 0 .. MaxClock
  BY <1>1, <1>2, <1>4 DEF IngestTypeOK
<1>6. \A i \in DOMAIN job[h].body :
         raw[job[h].body[i].event] = [message |-> job[h].body[i], status |-> "normalized"]
  <2>1. /\ job[h].body \in Seq(Message) /\ Len(job[h].body) \in Nat
        /\ job[h].at \in Nat
    BY <1>1, JobTypes, BodyTypes
  <2>2. \A i \in DOMAIN job[h].body : i \in 1 .. job[h].at - 1
    BY <1>1, <2>1
  <2> QED
    BY <1>3, <2>2 DEF Stored
<1>7. AckedIsStored'
  BY <1>1, <1>6 DEF IngestInv, AckedIsStored
<1> QED
  BY <1>1, <1>2, <1>5, <1>7, TablesSame

\* The request goes on with the next message.
LEMMA AdvanceJob ==
  ASSUME IngestInv, NEW h \in Handlers, job[h] # None, job[h].at <= Len(job[h].body),
         RawKept, raw'[Current(h).event] = Stored(Current(h)), job' = Advance(h)
  PROVE  /\ job' \in [Handlers -> Job \cup {None}]
         /\ \A k \in Handlers : job'[k] # None => job'[k].at <= Len(job'[k].body) + 1
         /\ JobsOK'
<1> DEFINE j == [job[h] EXCEPT !.at = job[h].at + 1, !.pc = "store"]
<1>1. IngestTypeOK /\ JobOK(h)
  BY DEF IngestInv, JobsOK
<1>2. /\ job[h] \in Job /\ job[h].at \in Nat \ {0}
      /\ Len(job[h].body) \in Nat
  BY <1>1, JobTypes, BodyTypes
<1>3. j \in Job
  <2>1. job[h].at + 1 \in Nat \ {0}
    BY <1>2
  <2>2. \A x \in Job, n \in Nat \ {0} : [x EXCEPT !.at = n, !.pc = "store"] \in Job
    BY DEF Job
  <2> QED
    BY <1>2, <2>1, <2>2
<1>4. /\ j.kind = job[h].kind /\ j.body = job[h].body
      /\ j.at = job[h].at + 1 /\ j.pc = "store"
  BY <1>2 DEF Job
<1>5. job' = [job EXCEPT ![h] = j]
  BY <1>1 DEF Advance, IngestTypeOK
<1> HIDE DEF j
<1>6. job'[h] = j
  BY <1>1, <1>5 DEF IngestTypeOK
<1>7. JobOK(h)'
  <2>1. /\ FromPlatform(job[h])
        /\ \A i \in 1 .. job[h].at - 1 :
              raw[job[h].body[i].event] = Stored(job[h].body[i])
    BY <1>1 DEF JobOK
  <2>2. ASSUME NEW i \in 1 .. job[h].at
        PROVE  raw'[job[h].body[i].event] = Stored(job[h].body[i])
    <3>1. CASE i = job[h].at
      BY <3>1 DEF Current
    <3>2. CASE i # job[h].at
      <4>1. i \in 1 .. job[h].at - 1 /\ i \in 1 .. Len(job[h].body)
        BY <1>2, <3>2
      <4>2. raw[job[h].body[i].event] = Stored(job[h].body[i])
        BY <2>1, <4>1
      <4>3. job[h].body[i] \in Message /\ job[h].body[i].event \in Events
        BY <1>1, <4>1, JobTypes, BodyTypes
      <4>4. raw[job[h].body[i].event] # None
            /\ raw[job[h].body[i].event].status = "normalized"
        <5>1. Stored(job[h].body[i]) \in RawRow
          BY <4>3 DEF Stored, RawRow
        <5>2. Stored(job[h].body[i]).status = "normalized"
          BY DEF Stored
        <5> QED
          BY <4>2, <5>1, <5>2, NoneIsNoRow
      <4> QED
        BY <4>2, <4>3, <4>4 DEF RawKept
    <3> QED
      BY <3>1, <3>2
  <2>3. \A i \in 1 .. (job[h].at + 1) - 1 : i \in 1 .. job[h].at
    BY <1>2
  <2> QED
    BY <1>4, <1>6, <2>1, <2>2, <2>3 DEF JobOK, FromPlatform
<1>8. j \in Job \cup {None} /\ j.at <= Len(j.body) + 1
  BY <1>2, <1>3, <1>4
<1> QED
  BY <1>5, <1>7, <1>8, JobUpdate

LEMMA StoreInv ==
  ASSUME IngestInv, NEW h \in Handlers, Store(h)
  PROVE  IngestInv' /\ RawKept
<1> DEFINE m == Current(h)
           old == raw[m.event]
           row == [message |-> m, status |-> "pending"]
<1>1. /\ job[h] # None /\ job[h].pc = "store" /\ job[h].at <= Len(job[h].body)
      /\ UNCHANGED <<clock, observed, orders, checkpoint, acked>>
      /\ raw' = IF old = None THEN [raw EXCEPT ![m.event] = row] ELSE raw
      /\ job' = IF old = None THEN [job EXCEPT ![h].pc = "apply"]
                ELSE IF ~SamePayload(old, m) THEN Finish(h)
                ELSE IF Skip(job[h].kind, old.status) THEN Advance(h)
                ELSE [job EXCEPT ![h].pc = "apply"]
  BY DEF Store, Busy, StoredAs
<1>2. IngestTypeOK /\ raw \in [Events -> RawRow \cup {None}]
  BY DEF IngestInv, IngestTypeOK
<1>3. m \in Message /\ m.event \in Events /\ job[h] \in Job
  BY <1>1, <1>2, JobTypes
<1>4. row \in RawRow /\ row # None /\ row.message = m /\ row.status = "pending"
  <2>1. row \in RawRow
    BY <1>3 DEF RawRow
  <2> QED
    BY <2>1, NoneIsNoRow
<1> HIDE DEF m, row
<1>5. /\ raw' \in [Events -> RawRow \cup {None}]
      /\ \A e \in Events : raw'[e] = IF e = m.event /\ old = None THEN row ELSE raw[e]
  BY <1>1, <1>2, <1>3, <1>4
<1>6. RawKept
  BY <1>5 DEF RawKept
<1>7. /\ job' \in [Handlers -> Job \cup {None}]
      /\ \A k \in Handlers : job'[k] # None => job'[k].at <= Len(job'[k].body) + 1
      /\ JobsOK'
  <2>1. CASE job' = [job EXCEPT ![h].pc = "apply"]
             /\ raw'[m.event] # None /\ raw'[m.event].message = m
    <3> DEFINE j == [job[h] EXCEPT !.pc = "apply"]
    <3>1. j \in Job
      BY <1>3 DEF Job
    <3>2. /\ j.kind = job[h].kind /\ j.body = job[h].body
          /\ j.at = job[h].at /\ j.pc = "apply"
      BY <1>3 DEF Job
    <3>3. job' = [job EXCEPT ![h] = j]
      BY <1>2, <2>1 DEF IngestTypeOK
    <3> HIDE DEF j
    <3>4. job'[h] = j
      BY <1>2, <3>3 DEF IngestTypeOK
    <3>5. Current(h)' = m
      BY <3>2, <3>4 DEF Current, m
    <3>6. /\ FromPlatform(job[h])
          /\ \A i \in 1 .. job[h].at - 1 :
                raw[job[h].body[i].event] = Stored(job[h].body[i])
      BY <1>1 DEF IngestInv, JobsOK, JobOK
    <3>7. ASSUME NEW i \in 1 .. job[h].at - 1
          PROVE  raw'[job[h].body[i].event] = Stored(job[h].body[i])
      <4>1. i \in 1 .. Len(job[h].body) /\ job[h].body[i] \in Message
            /\ job[h].body[i].event \in Events
        BY <1>1, <1>2, JobTypes, BodyTypes
      <4>2. raw[job[h].body[i].event] = Stored(job[h].body[i])
        BY <3>6
      <4>3. Stored(job[h].body[i]) \in RawRow
        BY <4>1 DEF Stored, RawRow
      <4> QED
        BY <1>5, <4>1, <4>2, <4>3, NoneIsNoRow
    <3>8. JobOK(h)'
      BY <1>1, <2>1, <3>2, <3>4, <3>5, <3>6, <3>7 DEF JobOK, FromPlatform
    <3>9. j \in Job \cup {None} /\ j.at <= Len(j.body) + 1
      <4>1. job[h].at \in Nat /\ job[h].at <= Len(job[h].body) + 1
        BY <1>1, <1>2, JobTypes
      <4> QED
        BY <3>1, <3>2, <4>1
    <3> QED
      BY <1>6, <3>3, <3>8, <3>9, JobUpdate
  <2>2. CASE job' = Finish(h)
    BY <1>6, <2>2, FinishInv
  <2>3. CASE job' = Advance(h) /\ raw'[m.event] = Stored(m)
    BY <1>1, <1>6, <2>3, AdvanceJob DEF m
  <2>4. CASE old = None
    <3>1. raw'[m.event] = row
      BY <1>3, <1>5, <2>4
    <3>2. job' = [job EXCEPT ![h].pc = "apply"]
      BY <1>1, <2>4
    <3> QED
      BY <1>4, <2>1, <3>1, <3>2
  <2>5. CASE old # None /\ ~SamePayload(old, m)
    BY <1>1, <2>2, <2>5
  <2>6. CASE old # None /\ SamePayload(old, m) /\ Skip(job[h].kind, old.status)
    <3>1. job' = Advance(h)
      BY <1>1, <2>6
    <3>2. raw'[m.event] = old
      BY <1>3, <1>5, <2>6
    <3>3. old = Stored(m)
      BY <1>2, <1>3, <2>6, RawTypes DEF SamePayload, Skip, Stored
    <3> QED
      BY <2>3, <3>1, <3>2, <3>3
  <2>7. CASE old # None /\ SamePayload(old, m) /\ ~Skip(job[h].kind, old.status)
    <3>1. job' = [job EXCEPT ![h].pc = "apply"]
      BY <1>1, <2>7
    <3>2. raw'[m.event] = old /\ old # None /\ old.message = m
      BY <1>3, <1>5, <2>7 DEF SamePayload
    <3> QED
      BY <2>1, <3>1, <3>2
  <2> QED
    BY <2>4, <2>5, <2>6, <2>7
<1>8. IngestTypeOK'
  BY <1>1, <1>2, <1>5, <1>7 DEF IngestTypeOK
<1>9. AckedIsStored'
  BY <1>1, <1>6, KeptJobs
<1>10. ProjectionIsNewest'
  BY <1>1 DEF IngestInv, ProjectionIsNewest
<1>11. /\ \A o \in observed : o.event \in Events /\ raw[o.event] # None
       /\ StatusIsTrue
  BY <1>2 DEF IngestInv, IngestTypeOK, ObservedIsRaw, Observation
<1>12. ObservedIsRaw'
  BY <1>1, <1>5, <1>11 DEF ObservedIsRaw
<1>13. StatusIsTrue'
  <2> SUFFICES ASSUME NEW e \in Events, raw'[e] # None
               PROVE  Truth(e, raw'[e], observed')
    BY StatusTruth
  <2>1. CASE e = m.event /\ old = None
    BY <1>1, <1>4, <1>5, <1>11, <2>1 DEF Truth
  <2>2. CASE ~(e = m.event /\ old = None)
    BY <1>1, <1>5, <1>11, <2>2, StatusTruth
  <2> QED
    BY <2>1, <2>2
<1> QED
  BY <1>1, <1>6, <1>7, <1>8, <1>9, <1>10, <1>12, <1>13, CheckpointKept DEF IngestInv

\* Between the look for the checkpoint and the writes nothing is locked, and
\* nothing has changed.
LEMMA FindNoRowInv ==
  ASSUME IngestInv, NEW h \in Handlers, FindNoRow(h)
  PROVE  IngestInv'
<1> DEFINE j == [job[h] EXCEPT !.pc = "write"]
<1>1. /\ job[h] # None /\ job[h].pc = "apply"
      /\ job' = [job EXCEPT ![h].pc = "write"]
      /\ RawKept /\ IngestTypeOK
      /\ UNCHANGED <<clock, raw, observed, orders, checkpoint, acked>>
  BY SameRawKept DEF IngestInv, FindNoRow, Busy
<1>2. job[h] \in Job /\ job[h].at <= Len(job[h].body) + 1
  BY <1>1, JobTypes
<1>3. /\ j \in Job
      /\ j.kind = job[h].kind /\ j.body = job[h].body
      /\ j.at = job[h].at /\ j.pc = "write"
  BY <1>2 DEF Job
<1>4. job' = [job EXCEPT ![h] = j]
  BY <1>1 DEF IngestTypeOK
<1> HIDE DEF j
<1>5. job'[h] = j /\ Current(h)' = Current(h)
  BY <1>1, <1>3, <1>4 DEF IngestTypeOK, Current
<1>6. JobOK(h)
  BY DEF IngestInv, JobsOK
<1>7. JobOK(h)'
  BY <1>1, <1>3, <1>5, <1>6 DEF JobOK, FromPlatform
<1>8. /\ job' \in [Handlers -> Job \cup {None}]
      /\ \A k \in Handlers : job'[k] # None => job'[k].at <= Len(job'[k].body) + 1
      /\ JobsOK'
  BY <1>1, <1>2, <1>3, <1>4, <1>7, JobUpdate
<1>9. IngestTypeOK' /\ clock' \in 0 .. MaxClock
  BY <1>1, <1>8 DEF IngestTypeOK
<1>10. AckedIsStored'
  BY <1>1, KeptJobs
<1> QED
  BY <1>1, <1>8, <1>9, <1>10, TablesSame

\* A message that is refused has no observation: a normalized row would say
\* that the same message is valid.
LEMMA RejectInv ==
  ASSUME IngestInv, NEW h \in Handlers, Reject(h)
  PROVE  IngestInv' /\ RawKept
<1> DEFINE m == Current(h)
           row == [message |-> m, status |-> "rejected"]
<1>1. /\ job[h] # None /\ job[h].pc = "apply" /\ job[h].at <= Len(job[h].body)
      /\ ~m.valid
      /\ UNCHANGED <<clock, observed, orders, checkpoint, acked>>
      /\ raw' = [raw EXCEPT ![m.event].status = "rejected"]
      /\ job' = Finish(h)
  BY DEF Reject, Busy
<1>2. IngestTypeOK /\ raw \in [Events -> RawRow \cup {None}] /\ StatusIsTrue
  BY DEF IngestInv, IngestTypeOK
<1>3. m \in Message /\ m.event \in Events
  BY <1>1, <1>2, JobTypes
<1>4. raw[m.event] # None /\ raw[m.event].message = m
  BY <1>1 DEF IngestInv, JobsOK, JobOK
<1>5. row \in RawRow /\ row # None /\ row.message = m /\ row.status = "rejected"
  <2>1. row \in RawRow
    BY <1>3 DEF RawRow
  <2> QED
    BY <2>1, NoneIsNoRow
<1> HIDE DEF m
<1>6. [raw[m.event] EXCEPT !.status = "rejected"] = row
  BY <1>2, <1>3, <1>4, RawTypes DEF RawRow
<1> HIDE DEF row
<1>7. /\ raw' \in [Events -> RawRow \cup {None}]
      /\ \A e \in Events : raw'[e] = IF e = m.event THEN row ELSE raw[e]
  BY <1>1, <1>2, <1>3, <1>5, <1>6
<1>8. raw[m.event].status # "normalized"
  BY <1>1, <1>2, <1>3, <1>4 DEF StatusIsTrue
<1>9. RawKept
  BY <1>4, <1>5, <1>7, <1>8 DEF RawKept
<1>10. /\ job' \in [Handlers -> Job \cup {None}]
       /\ \A k \in Handlers : job'[k] # None => job'[k].at <= Len(job'[k].body) + 1
       /\ JobsOK'
  BY <1>1, <1>9, FinishInv
<1>11. IngestTypeOK'
  BY <1>1, <1>2, <1>7, <1>10 DEF IngestTypeOK
<1>12. AckedIsStored'
  BY <1>1, <1>9, KeptJobs
<1>13. ProjectionIsNewest'
  BY <1>1 DEF IngestInv, ProjectionIsNewest
<1>14. \A o \in observed : o.event \in Events /\ raw[o.event] # None
  BY <1>2 DEF IngestInv, IngestTypeOK, ObservedIsRaw, Observation
<1>15. ObservedIsRaw'
  BY <1>1, <1>5, <1>7, <1>14 DEF ObservedIsRaw
<1>16. \A o \in observed : o.event # m.event
  BY <1>2, <1>3, <1>4, <1>8 DEF StatusIsTrue
<1>17. StatusIsTrue'
  <2> SUFFICES ASSUME NEW e \in Events, raw'[e] # None
               PROVE  Truth(e, raw'[e], observed')
    BY StatusTruth
  <2>1. CASE e = m.event
    BY <1>1, <1>3, <1>5, <1>7, <1>16, <2>1 DEF Truth
  <2>2. CASE e # m.event
    BY <1>1, <1>2, <1>7, <2>2, StatusTruth
  <2> QED
    BY <2>1, <2>2
<1> QED
  BY <1>1, <1>9, <1>10, <1>11, <1>12, <1>13, <1>15, <1>17, CheckpointKept DEF IngestInv

\* The transaction of a message.
LEMMA ApplyInv ==
  ASSUME IngestInv, NEW h \in Handlers, Apply(h)
  PROVE  IngestInv' /\ RawKept /\ Forward(orders, orders')
<1> DEFINE m == Current(h)
           os == Observations(m, job[h].received)
           row == Stored(m)
           new == {os[i] : i \in DOMAIN os}
           before == IF checkpoint = None THEN None ELSE checkpoint.time
<1>1. /\ job[h] # None /\ job[h].pc # "store" /\ job[h].at <= Len(job[h].body)
      /\ m.valid
      /\ UNCHANGED <<clock, acked>>
      /\ observed' = observed \cup new
      /\ orders' = UpsertAll(orders, os)
      /\ raw' = [raw EXCEPT ![m.event].status = "normalized"]
      /\ checkpoint' = IF job[h].kind = "reconcile"
                       THEN [cursor |-> m.cursor,
                             time |-> Greatest(before, {os[i].time : i \in DOMAIN os})]
                       ELSE checkpoint
      /\ job' = Advance(h)
  BY DEF Apply, Busy
<1>2. /\ IngestTypeOK /\ raw \in [Events -> RawRow \cup {None}]
      /\ StatusIsTrue /\ observed \in SUBSET Observation
      /\ checkpoint \in Checkpoint \cup {None} /\ orders \in Projections
  BY DEF IngestInv, IngestTypeOK, Projections
<1>3. /\ m \in Message /\ m.event \in Events
      /\ job[h].received \in 0 .. MaxClock
  BY <1>1, <1>2, JobTypes
<1>4. raw[m.event] # None /\ raw[m.event].message = m
  BY <1>1 DEF IngestInv, JobsOK, JobOK
<1>5. row \in RawRow /\ row # None /\ row.message = m /\ row.status = "normalized"
  <2>1. row \in RawRow
    BY <1>3 DEF RawRow, Stored
  <2> QED
    BY <2>1, NoneIsNoRow DEF Stored
<1>6. job[h].received \in Nat
  BY <1>3, NoneIsNoRow
<1>7. /\ os \in Seq(Observation)
      /\ DOMAIN os = DOMAIN m.facts
      /\ \A i \in DOMAIN m.facts :
            os[i] = Observe(m.event, m.facts[i], job[h].received) /\ os[i].event = m.event
  BY <1>3, <1>6, ObservationsTyped
<1> HIDE DEF m, os
<1>8. [raw[m.event] EXCEPT !.status = "normalized"] = row
  BY <1>2, <1>3, <1>4, RawTypes DEF RawRow, Stored
<1> HIDE DEF row
<1>9. /\ raw' \in [Events -> RawRow \cup {None}]
      /\ \A e \in Events : raw'[e] = IF e = m.event THEN row ELSE raw[e]
  BY <1>1, <1>2, <1>3, <1>5, <1>8
<1>10. RawKept
  <2> SUFFICES ASSUME NEW e \in Events, raw[e] # None
               PROVE  /\ raw'[e] # None
                      /\ raw'[e].message = raw[e].message
                      /\ raw[e].status = "normalized" => raw'[e] = raw[e]
    BY DEF RawKept
  <2>1. CASE e = m.event
    BY <1>2, <1>3, <1>4, <1>5, <1>9, <2>1, RawTypes DEF row, Stored
  <2>2. CASE e # m.event
    BY <1>9, <2>2
  <2> QED
    BY <2>1, <2>2
<1>11. /\ job' \in [Handlers -> Job \cup {None}]
       /\ \A k \in Handlers : job'[k] # None => job'[k].at <= Len(job'[k].body) + 1
       /\ JobsOK'
  <2>1. raw'[m.event] = Stored(m)
    BY <1>3, <1>9 DEF row
  <2> QED
    BY <1>1, <1>10, <2>1, AdvanceJob DEF m
<1>12. new \in SUBSET Observation /\ \A o \in new : o.event = m.event
  BY <1>7
<1>13. /\ orders' \in Projections
       /\ Newest(orders', observed')
       /\ Forward(orders, orders')
  <2>1. Newest(orders, observed)
    BY DEF IngestInv, ProjectionIsNewest, Newest
  <2> QED
    BY <1>1, <1>2, <1>7, <2>1, UpsertMany
<1>14. ProjectionIsNewest'
  BY <1>13 DEF Newest, ProjectionIsNewest
<1>15. /\ checkpoint' \in Checkpoint \cup {None}
       /\ CheckpointIsStored'
  <2>1. before \in Nat \cup {None}
    BY <1>2 DEF Checkpoint
  <2>2. \A page \in Pages : page \in Message /\ page.event \in Events
    BY IngestAssumption, BodyTypes
  <2>3. ASSUME NEW page \in Pages, raw[page.event] = Stored(page)
        PROVE  raw'[page.event] = Stored(page)
    <3>1. Stored(page) \in RawRow /\ Stored(page).status = "normalized"
      BY <2>2 DEF Stored, RawRow
    <3> QED
      BY <1>10, <2>2, <2>3, <3>1, NoneIsNoRow DEF RawKept
  <2>4. JobOK(h) /\ CheckpointIsStored
    BY DEF IngestInv, JobsOK
  <2>5. CASE job[h].kind = "webhook"
    <3>1. job[h].body \in Bodies /\ m = job[h].body[job[h].at]
      BY <1>1, <2>4, <2>5 DEF JobOK, FromPlatform, m, Current
    <3>2. job[h].at \in DOMAIN job[h].body
      BY <1>1, <1>2, JobTypes, BodyTypes
    <3>3. \A page \in Pages : m.event # page.event
      BY <3>1, <3>2, IngestAssumption
    <3>4. checkpoint' = checkpoint
      BY <1>1, <2>5
    <3>5. \A page \in Pages, o \in observed' : o.event = page.event => o \in observed
      BY <1>1, <1>12, <3>3
    <3> QED
      BY <1>1, <1>2, <2>3, <2>4, <3>4, <3>5 DEF CheckpointIsStored, Stored
  <2>6. CASE job[h].kind # "webhook"
    <3> DEFINE times == {os[i].time : i \in DOMAIN os}
               g == Greatest(before, times)
    <3>1. PICK page \in Pages : job[h].body = <<page>>
      BY <1>1, <2>4, <2>6 DEF JobOK, FromPlatform
    <3>2. m = page
      <4>1. job[h].at \in Nat \ {0} /\ job[h].at <= 1
        BY <1>1, <1>2, <3>1, JobTypes
      <4> QED
        BY <3>1, <4>1 DEF m, Current
    <3>3. /\ g \in Nat \cup {None}
          /\ g # None => g \in times \cup {before}
          /\ \A y \in times \cup {before} : y # None => g # None /\ y <= g
      <4> HIDE DEF before
      <4> QED
        BY <1>7, <2>1, GreatestTime
    <3>4. checkpoint' = [cursor |-> m.cursor, time |-> g]
      BY <1>1, <1>2, <2>6, JobTypes
    <3> HIDE DEF g
    <3>5. /\ checkpoint' \in Checkpoint /\ checkpoint' # None
          /\ checkpoint'.cursor = m.cursor /\ checkpoint'.time = g
      <4>1. m.cursor \in Cursors \cup {None}
        BY <1>3 DEF Message
      <4> QED
        BY <3>3, <3>4, <4>1, NoneIsNoRow DEF Checkpoint
    <3>6. raw'[page.event] = Stored(page)
      BY <1>3, <1>9, <3>2 DEF row
    <3>7. g # None => \E o \in observed' : o.time = g
      <4>1. CASE g \in times
        BY <1>1, <4>1
      <4>2. CASE g = before /\ g # None
        <5>1. checkpoint # None /\ checkpoint.time # None /\ g = checkpoint.time
          BY <4>2
        <5> QED
          BY <1>1, <2>4, <5>1 DEF CheckpointIsStored
      <4> QED
        BY <3>3, <4>1, <4>2
    <3>8. ASSUME NEW p \in Pages, NEW o \in observed', o.event = p.event
          PROVE  g # None /\ o.time <= g
      <4>1. CASE o \in observed
        <5>1. before # None /\ o.time <= before
          BY <2>4, <3>8, <4>1 DEF CheckpointIsStored
        <5>2. g # None /\ before <= g
          BY <3>3, <5>1
        <5>3. o.time \in Nat /\ before \in Nat /\ g \in Nat
          BY <1>2, <2>1, <3>3, <4>1, <5>1, <5>2 DEF Observation
        <5> QED
          BY <5>1, <5>2, <5>3
      <4>2. CASE o \in new
        <5>1. o.time \in times /\ o.time # None
          BY <1>12, <4>2, NoneIsNoRow DEF Observation
        <5> QED
          BY <3>3, <5>1
      <4> QED
        BY <1>1, <4>1, <4>2
    <3> QED
      BY <3>2, <3>5, <3>6, <3>7, <3>8 DEF CheckpointIsStored, Stored
  <2> QED
    BY <2>5, <2>6
<1>16. IngestTypeOK'
  BY <1>1, <1>2, <1>9, <1>11, <1>12, <1>13, <1>15 DEF IngestTypeOK, Projections
<1>17. AckedIsStored'
  BY <1>1, <1>10, KeptJobs
<1>18. \A o \in observed : o.event \in Events /\ raw[o.event] # None
  BY <1>2 DEF IngestInv, IngestTypeOK, ObservedIsRaw, Observation
<1>19. ObservedIsRaw'
  BY <1>1, <1>3, <1>5, <1>9, <1>12, <1>18 DEF ObservedIsRaw
<1>20. StatusIsTrue'
  <2> SUFFICES ASSUME NEW e \in Events, raw'[e] # None
               PROVE  Truth(e, raw'[e], observed')
    BY StatusTruth
  <2>1. CASE e = m.event
    <3>1. ASSUME NEW i \in DOMAIN m.facts
          PROVE  \E o \in observed' : \E t \in 0 .. MaxClock :
                    o = Observe(m.event, m.facts[i], t)
      <4>1. os[i] \in observed'
        BY <1>1, <1>7
      <4> QED
        BY <1>3, <1>7, <4>1
    <3>2. StoredIn(observed', m)
      BY <3>1 DEF StoredIn
    <3> QED
      BY <1>1, <1>3, <1>5, <1>9, <2>1, <3>2 DEF Truth
  <2>2. CASE e # m.event
    <3>1. raw'[e] = raw[e] /\ Truth(e, raw[e], observed)
      BY <1>2, <1>9, <2>2, StatusTruth
    <3>2. \A x : StoredIn(observed, x) => StoredIn(observed', x)
      BY <1>1 DEF StoredIn
    <3> QED
      BY <1>1, <1>12, <2>2, <3>1, <3>2 DEF Truth
  <2> QED
    BY <2>1, <2>2
<1> QED
  BY <1>10, <1>11, <1>13, <1>14, <1>15, <1>16, <1>17, <1>19, <1>20 DEF IngestInv

LEMMA NextIngest == IngestInv /\ [Next]_vars => IngestInv'
<1> SUFFICES ASSUME IngestInv, [Next]_vars PROVE IngestInv'
  OBVIOUS
<1>1. CASE Tick
  BY <1>1, TickInv
<1>2. ASSUME NEW h \in Handlers,
             \/ \E body \in Bodies : Deliver(h, body)
             \/ \E page \in Pages : Reconcile(h, page)
             \/ Proceed(h) \/ Fail(h)
      PROVE  IngestInv'
  BY <1>2, BeginInv, StoreInv, RejectInv, FindNoRowInv, ApplyInv, EndInv, AcknowledgeInv DEF Proceed
<1>3. CASE UNCHANGED vars
  <2>1. IngestTypeOK' /\ clock' \in 0 .. MaxClock
    BY <1>3 DEF vars, IngestInv, IngestTypeOK
  <2>2. AckedIsStored' /\ JobsOK'
    BY <1>3, KeptJobs, SameRawKept DEF vars, JobsOK
  <2> QED
    BY <1>3, <2>1, <2>2, TablesSame DEF vars
<1> QED
  BY <1>1, <1>2, <1>3 DEF Next

\* The projections move by the transaction of a message alone.
LEMMA NextForward == IngestInv /\ [Next]_vars => Forward(orders, orders')
<1> SUFFICES ASSUME IngestInv, [Next]_vars PROVE Forward(orders, orders')
  OBVIOUS
<1>1. CASE orders' = orders
  <2>1. orders \in Projections
    BY DEF IngestInv, IngestTypeOK, Projections
  <2> QED
    BY <1>1, <2>1, RowTypes DEF Forward
<1>2. ASSUME NEW h \in Handlers, Apply(h) PROVE Forward(orders, orders')
  BY <1>2, ApplyInv
<1>3. orders' = orders \/ \E h \in Handlers : Apply(h)
  BY DEF Next, vars, Tick, Deliver, Reconcile, Begin, Proceed, Store, Reject, FindNoRow,
         Concurrent, Acknowledge, Fail
<1> QED
  BY <1>1, <1>2, <1>3

LEMMA AlwaysIngest == IngestSpec => []IngestInv
BY InitInv, NextIngest, PTL DEF IngestSpec

-----------------------------------------------------------------------------
(* The results.                                                            *)

(***************************************************************************)
(* The tables and the requests are typed (douyin/sync.rs 60-191,           *)
(* platform/store.rs).                                                     *)
(***************************************************************************)
THEOREM IngestTypeCorrect == IngestSpec => []IngestTypeOK
<1>1. IngestInv => IngestTypeOK
  BY DEF IngestInv
<1> QED
  BY <1>1, AlwaysIngest, PTL

(***************************************************************************)
(* processing_status tells the truth: a normalized event is valid and has  *)
(* all its observations, any other event has none.  And so does the        *)
(* checkpoint: the page it continues is stored, and no record of a page is *)
(* newer than its time (douyin/sync.rs 112-191, 331-404, 441-455).         *)
(***************************************************************************)
THEOREM StatusTellsTruth == IngestSpec => []NormalizedIsStored
<1>1. IngestInv => NormalizedIsStored
  BY DEF IngestInv, NormalizedIsStored
<1> QED
  BY <1>1, AlwaysIngest, PTL

(***************************************************************************)
(* Every message of a body that was answered with success is stored and    *)
(* normalized, under its own contents (http/mod.rs 330-376).               *)
(***************************************************************************)
THEOREM AcknowledgedIsStored == IngestSpec => []AckedIsStored
<1>1. IngestInv => AckedIsStored
  BY DEF IngestInv
<1> QED
  BY <1>1, AlwaysIngest, PTL

(***************************************************************************)
(* A projection shows a stored observation of its order that no other is   *)
(* newer than, whatever arrives late, twice or by reconciliation           *)
(* (platform/store.rs 69-87, 161-184).                                     *)
(***************************************************************************)
THEOREM ProjectionsAreNewest == IngestSpec => []ProjectionIsNewest
<1>1. IngestInv => ProjectionIsNewest
  BY DEF IngestInv
<1> QED
  BY <1>1, AlwaysIngest, PTL

(***************************************************************************)
(* No step takes a projection back in time or forgets an amount            *)
(* (platform/store.rs 75-87).                                              *)
(***************************************************************************)
THEOREM ProjectionsGoForward == IngestSpec => OnlyForward
<1>1. Forward(orders, orders') =>
         \A r \in Orders : orders[r] # None =>
            /\ orders'[r].latest.time >= orders[r].latest.time
            /\ orders[r].amount # None => orders'[r].amount # None
  BY DEF Forward
<1> QED
  BY <1>1, AlwaysIngest, NextForward, PTL DEF IngestSpec, OnlyForward
=============================================================================
