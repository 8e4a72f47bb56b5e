--------------------------- MODULE TimelineProofs ----------------------------
(***************************************************************************)
(* Proofs about the time line, for any acyclic graph of posts.             *)
(*                                                                         *)
(* The invariant (TimelineInv) says that array, positions, ranks and links *)
(* agree.  A new post is the one node that may be out of place while its   *)
(* causes are linked (AddEdgeFirst); from then on each step starts and     *)
(* ends with a sorted array (AddEdgeSorts).  In between ranks only climb,  *)
(* along the links, and stay at most the depths (Walked); when all links   *)
(* are in place they are the depths (SettledSorts).                        *)
(***************************************************************************)
EXTENDS TimelineInv, OrderLemmas

-----------------------------------------------------------------------------
(***************************************************************************)
(* The array: a splice and a move, position by position.                   *)
(***************************************************************************)
(* A part of a sequence, element by element.                               *)
LEMMA SubSeqIs ==
  ASSUME NEW S, NEW s \in Seq(S), NEW m \in 1..Len(s)+1, NEW n \in m-1..Len(s)
  PROVE  /\ SubSeq(s, m, n) \in Seq(S)
         /\ Len(SubSeq(s, m, n)) = n - m + 1
         /\ \A i \in 1..n-m+1 : SubSeq(s, m, n)[i] = s[m+i-1]
<1>1. Len(s) \in Nat /\ m \in Int /\ n \in Int
  BY LenProperties
<1>2. \A i \in m..n : s[i] \in S
  <2> SUFFICES ASSUME NEW i \in m..n PROVE s[i] \in S
    OBVIOUS
  <2>1. i \in 1..Len(s)
    BY <1>1
  <2> QED BY <2>1, ElementOfSeq
<1>3. /\ SubSeq(s, m, n) \in Seq(S)
      /\ Len(SubSeq(s, m, n)) = IF m <= n THEN n-m+1 ELSE 0
      /\ \A i \in 1..n-m+1 : SubSeq(s, m, n)[i] = s[m+i-1]
  BY <1>1, <1>2, SubSeqProperties
<1>4. ~(m <= n) => n - m + 1 = 0
  BY <1>1
<1> QED BY <1>3, <1>4

(***************************************************************************)
(* splice(pos, 0, h) and the two splices of _move.                         *)
(***************************************************************************)
Spliced(r, s, pos, x) ==
  /\ Len(r) = Len(s) + 1
  /\ \A i \in 1..Len(s)+1 :
       r[i] = IF i = pos + 1 THEN x ELSE IF i <= pos THEN s[i] ELSE s[i-1]
Moved(r, s, from, to) ==
  /\ Len(r) = Len(s)
  /\ \A i \in 1..Len(s) :
       r[i] = IF i = to + 1 THEN s[from + 1]
              ELSE IF i \in from+1..to THEN s[i+1] ELSE s[i]

(* The array with one element more.                                        *)
LEMMA SpliceIs ==
  ASSUME NEW S, NEW s \in Seq(S), NEW pos \in 0..Len(s), NEW x \in S
  PROVE  SpliceIn(s, pos, x) \in Seq(S) /\ Spliced(SpliceIn(s, pos, x), s, pos, x)
<1> DEFINE a == SubSeq(s, 1, pos)
           b == SubSeq(s, pos + 1, Len(s))
           ax == a \o <<x>>
           axb == ax \o b
<1>1. Len(s) \in Nat /\ pos \in Nat /\ pos <= Len(s) /\ (pos + 1) - 1 = pos
  BY LenProperties
<1>2. SpliceIn(s, pos, x) = axb
  <2>1. (pos + 1) - 1 = pos
    BY <1>1
  <2>2. SpliceIn(s, pos, x) = SubSeq(s, 1, (pos + 1) - 1) \o <<x>> \o SubSeq(s, pos + 1, Len(s))
    BY Zenon DEF SpliceIn, InsertAt
  <2> QED BY <2>1, <2>2, Zenon
<1>3. /\ a \in Seq(S) /\ Len(a) = pos - 1 + 1 /\ \A i \in 1..pos-1+1 : a[i] = s[1+i-1]
  <2>1. 1 \in 1..Len(s)+1 /\ pos \in 1-1..Len(s)
    BY <1>1
  <2> QED BY <2>1, SubSeqIs
<1>4. /\ b \in Seq(S) /\ Len(b) = Len(s) - (pos + 1) + 1
      /\ \A i \in 1..Len(s)-(pos+1)+1 : b[i] = s[pos + 1 + i - 1]
  <2>1. pos + 1 \in 1..Len(s)+1 /\ Len(s) \in pos+1-1..Len(s)
    BY <1>1
  <2> QED BY <2>1, SubSeqIs
<1>5. a[pos] = a[pos] /\ Len(a) = pos /\ Len(b) = Len(s) - pos
  BY <1>1, <1>3, <1>4
<1>6. \A i \in 1..pos : a[i] = s[i]
  BY <1>1, <1>3
<1>7. \A i \in 1..Len(s)-pos : b[i] = s[pos + i]
  BY <1>1, <1>4
<1> HIDE DEF a, b
<1>8. <<x>> \in Seq(S) /\ Len(<<x>>) = 1 /\ <<x>>[1] = x
  OBVIOUS
<1>9. /\ ax \in Seq(S) /\ Len(ax) = Len(a) + Len(<<x>>)
      /\ \A i \in 1..Len(a) + Len(<<x>>) : ax[i] = IF i <= Len(a) THEN a[i] ELSE <<x>>[i - Len(a)]
  BY <1>3, <1>8, ConcatProperties, Zenon
<1>10. /\ Len(ax) = pos + 1
       /\ \A i \in 1..pos+1 : ax[i] = IF i <= pos THEN a[i] ELSE x
  BY <1>1, <1>5, <1>8, <1>9
<1> HIDE DEF ax
<1>11. /\ axb \in Seq(S) /\ Len(axb) = Len(ax) + Len(b)
       /\ \A i \in 1..Len(ax)+Len(b) : axb[i] = IF i <= Len(ax) THEN ax[i] ELSE b[i - Len(ax)]
  <2>1. ax \in Seq(S) /\ b \in Seq(S)
    BY <1>4, <1>9
  <2> QED BY <2>1, ConcatProperties, Zenon
<1> HIDE DEF axb
<1>12. Len(axb) = Len(s) + 1
  BY <1>1, <1>5, <1>10, <1>11
<1>13. ASSUME NEW i \in 1..Len(s)+1
       PROVE  axb[i] = IF i = pos + 1 THEN x ELSE IF i <= pos THEN s[i] ELSE s[i-1]
  <2>1. axb[i] = IF i <= Len(ax) THEN ax[i] ELSE b[i - Len(ax)]
    BY <1>1, <1>5, <1>10, <1>11
  <2>2. CASE i <= pos
    BY <2>1, <2>2, <1>1, <1>6, <1>10
  <2>3. CASE i = pos + 1
    BY <2>1, <2>3, <1>1, <1>10
  <2>4. CASE i > pos + 1
    <3>1. i - (pos + 1) \in 1..Len(s)-pos /\ pos + (i - (pos + 1)) = i - 1
      BY <1>1, <2>4
    <3>2. b[i - (pos + 1)] = s[i - 1]
      BY <3>1, <1>7
    <3> QED BY <2>1, <2>4, <3>2, <1>1, <1>10
  <2> QED BY <2>2, <2>3, <2>4, <1>1
<1> QED BY <1>2, <1>11, <1>12, <1>13 DEF Spliced

(* The array with one element moved up.                                    *)
LEMMA MoveIs ==
  ASSUME NEW S, NEW s \in Seq(S), NEW from \in 0..Len(s)-1, NEW to \in from..Len(s)-1
  PROVE  Move(s, from, to) \in Seq(S) /\ Moved(Move(s, from, to), s, from, to)
<1> DEFINE a == SubSeq(s, 1, from)
           b == SubSeq(s, from + 2, Len(s))
           c == a \o b
           x == s[from + 1]
<1>1. /\ Len(s) \in Nat /\ from \in Nat /\ to \in Nat /\ from <= to /\ to + 1 <= Len(s)
      /\ (from + 1) - 1 = from /\ (from + 1) + 1 = from + 2 /\ from + 1 \in 1..Len(s)
  BY LenProperties
<1>2. Move(s, from, to) = SpliceIn(c, to, x)
  <2>1. (from + 1) - 1 = from /\ (from + 1) + 1 = from + 2
    BY <1>1
  <2>2. Move(s, from, to) =
          SpliceIn(SubSeq(s, 1, (from + 1) - 1) \o SubSeq(s, (from + 1) + 1, Len(s)), to, s[from + 1])
    BY Zenon DEF Move, RemoveAt
  <2> QED BY <2>1, <2>2, Zenon
<1>3. x \in S
  BY <1>1, ElementOfSeq
<1>4. /\ a \in Seq(S) /\ Len(a) = from - 1 + 1 /\ \A i \in 1..from-1+1 : a[i] = s[1+i-1]
  <2>1. 1 \in 1..Len(s)+1 /\ from \in 1-1..Len(s)
    BY <1>1
  <2> QED BY <2>1, SubSeqIs
<1>5. /\ b \in Seq(S) /\ Len(b) = Len(s) - (from + 2) + 1
      /\ \A i \in 1..Len(s)-(from+2)+1 : b[i] = s[from + 2 + i - 1]
  <2>1. from + 2 \in 1..Len(s)+1 /\ Len(s) \in from+2-1..Len(s)
    BY <1>1
  <2> QED BY <2>1, SubSeqIs
<1>6. /\ Len(a) = from /\ Len(b) = Len(s) - from - 1
      /\ \A i \in 1..from : a[i] = s[i]
      /\ \A i \in 1..Len(s)-from-1 : b[i] = s[from + 1 + i]
  BY <1>1, <1>4, <1>5
<1> HIDE DEF a, b, x
<1>7. /\ c \in Seq(S) /\ Len(c) = Len(a) + Len(b)
      /\ \A i \in 1..Len(a)+Len(b) : c[i] = IF i <= Len(a) THEN a[i] ELSE b[i - Len(a)]
  BY <1>4, <1>5, ConcatProperties, Zenon
<1> HIDE DEF c
<1>8. Len(c) = Len(s) - 1 /\ \A i \in 1..Len(s)-1 : c[i] = IF i <= from THEN s[i] ELSE s[i+1]
  <2>1. Len(c) = Len(s) - 1
    BY <1>1, <1>6, <1>7
  <2>0. Len(a) + Len(b) = Len(s) - 1
    BY <1>1, <1>6
  <2>2. ASSUME NEW i \in 1..Len(s)-1 PROVE c[i] = IF i <= from THEN s[i] ELSE s[i+1]
    <3>0. i \in 1..Len(a)+Len(b)
      BY <2>0, Zenon
    <3>1. c[i] = IF i <= from THEN a[i] ELSE b[i - from]
      BY <3>0, <1>6, <1>7
    <3>2. i > from => i - from \in 1..Len(s)-from-1 /\ from + 1 + (i - from) = i + 1
      BY <1>1
    <3> QED BY <3>1, <3>2, <1>1, <1>6
  <2> QED BY <2>1, <2>2
<1>9. to \in 0..Len(c)
  BY <1>1, <1>8
<1>10. /\ SpliceIn(c, to, x) \in Seq(S)
       /\ Len(SpliceIn(c, to, x)) = Len(c) + 1
       /\ \A i \in 1..Len(c)+1 :
            SpliceIn(c, to, x)[i] =
              IF i = to + 1 THEN x ELSE IF i <= to THEN c[i] ELSE c[i-1]
  <2>1. c \in Seq(S) /\ to \in 0..Len(c) /\ x \in S
    BY <1>3, <1>7, <1>9
  <2>2. SpliceIn(c, to, x) \in Seq(S) /\ Spliced(SpliceIn(c, to, x), c, to, x)
    BY <2>1, SpliceIs, Zenon
  <2> QED BY <2>2 DEF Spliced
<1>11. ASSUME NEW i \in 1..Len(s)
       PROVE  Move(s, from, to)[i] =
                 IF i = to + 1 THEN x
                 ELSE IF i \in from+1..to THEN s[i+1] ELSE s[i]
  <2>1. i \in 1..Len(c)+1
    BY <1>1, <1>8
  <2>2. Move(s, from, to)[i] = IF i = to + 1 THEN x ELSE IF i <= to THEN c[i] ELSE c[i-1]
    BY <1>2, <1>10, <2>1
  <2>3. CASE i = to + 1
    BY <2>2, <2>3
  <2>4. CASE i <= to
    <3>1. i \in 1..Len(s)-1
      BY <2>4, <1>1
    <3> QED BY <2>2, <2>4, <3>1, <1>8, <1>1
  <2>5. CASE i > to + 1
    <3>1. i - 1 \in 1..Len(s)-1 /\ ~(i - 1 <= from) /\ i - 1 + 1 = i
      BY <2>5, <1>1
    <3>2. c[i-1] = s[i]
      BY <3>1, <1>8
    <3> QED BY <2>2, <2>5, <3>2, <1>1
  <2> QED BY <2>3, <2>4, <2>5, <1>1
<1>12. Len(Move(s, from, to)) = Len(s) /\ Move(s, from, to) \in Seq(S)
  BY <1>1, <1>2, <1>8, <1>10
<1> QED BY <1>11, <1>12 DEF x, Moved

-----------------------------------------------------------------------------
(***************************************************************************)
(* Jump keeps the array and the positions in step.                         *)
(***************************************************************************)
Follows(u, tl) ==
  /\ u.succ = tl.succ /\ u.prev = tl.prev
  /\ u.pending = tl.pending /\ u.tips = tl.tips
  /\ Len(u.linear) = Len(tl.linear)

(* Jump moves a node up to pos, tells the listener, and shifts the         *)
(* positions of those it passes.                                           *)
LEMMA JumpIs ==
  ASSUME NEW K, NEW tl, HasFields(tl, K), IsArray(tl, K),
         NEW n \in K, NEW pos \in tl.indx[n]..Len(tl.linear)-1
  PROVE  LET u == Jump(tl, n, pos) IN
         /\ HasFields(u, K) /\ IsArray(u, K) /\ Follows(u, tl) /\ u.rank = tl.rank
         /\ u.linear = Move(tl.linear, tl.indx[n], pos)
         /\ u.cmds = Append(tl.cmds, [op |-> "mov", from |-> tl.indx[n], to |-> pos])
         /\ u.indx = [m \in K |->
                        IF m = n THEN pos
                        ELSE IF tl.indx[m] \in tl.indx[n]+1..pos THEN tl.indx[m] - 1
                                                                  ELSE tl.indx[m]]
<1> DEFINE u == Jump(tl, n, pos)
           lin == tl.linear
           ix == tl.indx
           si == ix[n]
           cmd == [op |-> "mov", from |-> si, to |-> pos]
           lin2 == Move(lin, si, pos)
           ix2 == [m \in K |-> IF m = n THEN pos
                               ELSE IF ix[m] \in si+1..pos THEN ix[m] - 1 ELSE ix[m]]
           rk == tl.rank  pv == tl.prev  sc == tl.succ  pn == tl.pending  tp == tl.tips
           cs == tl.cmds
<1>1. /\ tl = [linear |-> lin, indx |-> ix, rank |-> rk, prev |-> pv, succ |-> sc,
               pending |-> pn, tips |-> tp, cmds |-> cs]
      /\ sc \in [K -> Seq(K)] /\ rk \in [K -> Nat]
  BY DEF HasFields
<1>2. /\ lin \in Seq(K) /\ Len(lin) \in Nat /\ ix \in [K -> 0..Len(lin)-1]
      /\ \A m \in K : lin[ix[m] + 1] = m
      /\ \A p \in 0..Len(lin)-1 : ix[lin[p + 1]] = p
  BY LenProperties DEF IsArray, At
<1>3. DOMAIN ix = K
  BY <1>2
<1>4. pos \in si..Len(lin)-1
  OBVIOUS
<1>5. Jump(tl, n, pos) =
        [tl EXCEPT !.linear = lin2, !.cmds = Append(cs, cmd),
                   !.indx = [m \in DOMAIN ix |->
                               IF m = n THEN pos
                               ELSE IF ix[m] \in si+1..pos THEN ix[m] - 1 ELSE ix[m]]]
  BY Zenon DEF Jump
<1> HIDE DEF lin, ix, rk, pv, sc, pn, tp, cs
<1>6. u = [linear |-> lin2, indx |-> ix2, rank |-> rk, prev |-> pv, succ |-> sc,
           pending |-> pn, tips |-> tp, cmds |-> Append(cs, cmd)]
  <2> DEFINE cs2 == Append(cs, cmd)
  <2>1. u = [tl EXCEPT !.linear = lin2, !.cmds = cs2, !.indx = ix2]
    BY <1>3, <1>5, Zenon
  <2> HIDE DEF cs2, lin2, ix2, u
  <2>2. u = [[linear |-> lin, indx |-> ix, rank |-> rk, prev |-> pv, succ |-> sc,
               pending |-> pn, tips |-> tp, cmds |-> cs]
              EXCEPT !.linear = lin2, !.cmds = cs2, !.indx = ix2]
    BY <1>1, <2>1, Zenon
  <2>3. u = [linear |-> lin2, indx |-> ix2, rank |-> rk, prev |-> pv, succ |-> sc,
             pending |-> pn, tips |-> tp, cmds |-> cs2]
    BY <2>2
  <2> QED BY <2>3 DEF cs2
<1> HIDE DEF u
<1>7. /\ u.linear = lin2 /\ u.indx = ix2 /\ u.rank = rk /\ u.prev = pv /\ u.succ = sc
      /\ u.pending = pn /\ u.tips = tp /\ u.cmds = Append(cs, cmd)
  BY <1>6
<1>8. si \in 0..Len(lin)-1
  BY <1>2
<1>9. lin2 \in Seq(K) /\ Moved(lin2, lin, si, pos)
  BY <1>2, <1>4, <1>8, MoveIs
<1>10. Len(lin2) = Len(lin) /\ Len(u.linear) = Len(lin)
  BY <1>7, <1>9 DEF Moved
<1>11. \A p \in 0..Len(lin)-1 :
         lin2[p+1] = IF p = pos THEN n ELSE IF p \in si..pos-1 THEN lin[p+2] ELSE lin[p+1]
  <2>1. lin[si+1] = n
    BY <1>2
  <2> SUFFICES ASSUME NEW p \in 0..Len(lin)-1
      PROVE lin2[p+1] = IF p = pos THEN n ELSE IF p \in si..pos-1 THEN lin[p+2] ELSE lin[p+1]
    OBVIOUS
  <2>2. p + 1 \in 1..Len(lin)
    BY <1>2
  <2>3. lin2[p+1] = IF p+1 = pos + 1 THEN lin[si + 1]
                    ELSE IF p+1 \in si+1..pos THEN lin[p+1+1] ELSE lin[p+1]
    BY <1>9, <2>2 DEF Moved
  <2> HIDE DEF si, lin2
  <2>4. p + 1 + 1 = p + 2 /\ (p + 1 = pos + 1 <=> p = pos) /\ (p+1 \in si+1..pos <=> p \in si..pos-1)
    BY <1>2, <1>4, <1>8
  <2> QED BY <2>1, <2>3, <2>4
<1>12. ix2 \in [K -> 0..Len(lin)-1]
  <2> HIDE DEF si
  <2> SUFFICES ASSUME NEW m \in K
      PROVE (IF m = n THEN pos ELSE IF ix[m] \in si+1..pos THEN ix[m] - 1 ELSE ix[m])
              \in 0..Len(lin)-1
    OBVIOUS
  <2> DEFINE q == ix[m]
  <2>1. q \in 0..Len(lin)-1
    BY <1>2
  <2> HIDE DEF q
  <2>2. (IF m = n THEN pos ELSE IF q \in si+1..pos THEN q - 1 ELSE q) \in 0..Len(lin)-1
    <3> DEFINE k == Len(lin)
    <3>1. k \in Nat /\ q \in 0..k-1 /\ pos \in si..k-1 /\ si \in 0..k-1
      BY <2>1, <1>2, <1>4, <1>8
    <3> HIDE DEF k
    <3>2. pos \in 0..k-1 /\ (q \in si+1..pos => q - 1 \in 0..k-1)
      BY <3>1
    <3>3. (IF m = n THEN pos ELSE IF q \in si+1..pos THEN q - 1 ELSE q) \in 0..k-1
      BY <3>1, <3>2, Zenon
    <3> QED BY <3>3 DEF k
  <2> QED BY <2>2 DEF q
<1>13. ASSUME NEW m \in K PROVE lin2[ix2[m] + 1] = m
  <2>1. ix[m] \in 0..Len(lin)-1 /\ lin[ix[m]+1] = m /\ (m # n => ix[m] # si)
    BY <1>2
  <2>2. ix2[m] = IF m = n THEN pos ELSE IF ix[m] \in si+1..pos THEN ix[m] - 1 ELSE ix[m]
    OBVIOUS
  <2> DEFINE p == ix2[m]
             q == ix[m]
  <2>3. p \in 0..Len(lin)-1
    BY <1>12
  <2>4. lin2[p+1] = IF p = pos THEN n ELSE IF p \in si..pos-1 THEN lin[p+2] ELSE lin[p+1]
    BY <2>3, <1>11
  <2>5. /\ p = IF m = n THEN pos ELSE IF q \in si+1..pos THEN q - 1 ELSE q
        /\ q \in 0..Len(lin)-1 /\ lin[q+1] = m /\ (m # n => q # si)
    BY <2>1, <2>2
  <2> HIDE DEF p, q, si, lin2, ix2
  <2>6. lin2[p+1] = m
    <3>1. CASE m = n
      BY <3>1, <2>4, <2>5
    <3>2. CASE m # n /\ q \in si+1..pos
      <4>1. p + 2 = q + 1 /\ p # pos /\ p \in si..pos-1
        BY <3>2, <2>5, <1>4, <1>8
      <4> QED BY <4>1, <2>4, <2>5
    <3>3. CASE m # n /\ ~(q \in si+1..pos)
      <4>1. p = q /\ p # pos /\ ~(p \in si..pos-1)
        BY <3>3, <2>5, <1>4, <1>8
      <4> QED BY <4>1, <2>4, <2>5
    <3> QED BY <3>1, <3>2, <3>3
  <2> QED BY <2>6 DEF p
<1>14. ASSUME NEW p \in 0..Len(lin)-1 PROVE ix2[lin2[p+1]] = p
  <2> DEFINE m == lin2[p+1]
  <2>1. p + 1 \in 1..Len(lin2)
    BY <1>2, <1>10
  <2>2. m \in K
    BY <2>1, <1>9, ElementOfSeq
  <2>3. m = IF p = pos THEN n ELSE IF p \in si..pos-1 THEN lin[p+2] ELSE lin[p+1]
    BY <1>11
  <2>4. ix2[m] = IF m = n THEN pos ELSE IF ix[m] \in si+1..pos THEN ix[m] - 1 ELSE ix[m]
    BY <2>2
  <2>5. ix[n] = si
    OBVIOUS
  <2> HIDE DEF m, si, lin2, ix2
  <2>6. ix2[m] = p
    <3>1. CASE p = pos
      BY <3>1, <2>3, <2>4
    <3>2. CASE p # pos /\ p \in si..pos-1
      <4>1. p + 1 \in 0..Len(lin)-1 /\ (p + 1) + 1 = p + 2 /\ p + 1 \in si+1..pos
            /\ p + 1 # si /\ (p + 1) - 1 = p
        BY <3>2, <1>2, <1>4, <1>8
      <4>2. ix[lin[(p + 1) + 1]] = p + 1
        BY <4>1, <1>2
      <4>3. ix[m] = p + 1
        BY <2>3, <3>2, <4>1, <4>2
      <4> QED BY <4>1, <4>3, <2>4, <2>5
    <3>3. CASE p # pos /\ ~(p \in si..pos-1)
      <4>1. ix[m] = p /\ m = lin[p+1]
        BY <2>3, <3>3, <1>2
      <4>2. p # si /\ ~(p \in si+1..pos)
        BY <3>3, <1>4, <1>8
      <4> QED BY <4>1, <4>2, <2>4, <2>5
    <3> QED BY <3>1, <3>2, <3>3
  <2> QED BY <2>6 DEF m
<1>15. IsArray(u, K)
  BY <1>7, <1>9, <1>10, <1>12, <1>13, <1>14 DEF IsArray, At
<1>16. HasFields(u, K)
  BY <1>1, <1>6, <1>7 DEF HasFields
<1>17. Follows(u, tl) /\ u.rank = tl.rank
  BY <1>7, <1>10 DEF Follows, rk, pv, sc, pn, tp, lin
<1> QED BY <1>7, <1>15, <1>16, <1>17 DEF u, lin, ix, cs

-----------------------------------------------------------------------------
(***************************************************************************)
(* Commands.  A sequence of commands leads from one array to another when  *)
(* each of them fits the array it finds.                                   *)
(***************************************************************************)
Command(S) == [op : {"ins"}, name : S, to : Nat] \union [op : {"mov"}, from : Nat, to : Nat]
Fits(seq, c) ==
  IF c.op = "ins" THEN c.to \in 0..Len(seq)
                  ELSE c.to \in 0..Len(seq)-1 /\ c.from \in 0..c.to
Shows(seq, cmds, shown) ==
  /\ shown[0] = seq
  /\ \A i \in 1..Len(cmds) :
       Fits(shown[i-1], cmds[i]) /\ shown[i] = Follow(shown[i-1], cmds[i])
Leads(S, seq, cmds, res) ==
  /\ cmds \in Seq(Command(S))
  /\ \E shown \in [0..Len(cmds) -> Seq(S)] :
       Shows(seq, cmds, shown) /\ shown[Len(cmds)] = res

(* One command that fits gives an array again.                             *)
LEMMA FollowIs ==
  ASSUME NEW S, NEW seq \in Seq(S), NEW c \in Command(S), Fits(seq, c)
  PROVE  /\ Follow(seq, c) \in Seq(S)
         /\ c.op = "ins" => Spliced(Follow(seq, c), seq, c.to, c.name)
         /\ c.op # "ins" => Moved(Follow(seq, c), seq, c.from, c.to)
<1>1. Len(seq) \in Nat
  BY LenProperties
<1>2. CASE c.op = "ins"
  <2>1. c.name \in S /\ c.to \in 0..Len(seq)
    BY <1>2 DEF Command, Fits
  <2>2. Follow(seq, c) = SpliceIn(seq, c.to, c.name)
    BY <1>2 DEF Follow
  <2> DEFINE x == c.name  pos == c.to
  <2>3. x \in S /\ pos \in 0..Len(seq)
    BY <2>1
  <2> HIDE DEF x, pos
  <2>4. SpliceIn(seq, pos, x) \in Seq(S) /\ Spliced(SpliceIn(seq, pos, x), seq, pos, x)
    BY <2>3, SpliceIs
  <2> QED BY <1>2, <2>2, <2>4 DEF x, pos
<1>3. CASE c.op # "ins"
  <2>1. c.from \in Nat /\ c.to \in 0..Len(seq)-1 /\ c.from \in 0..c.to
    BY <1>3 DEF Command, Fits
  <2>2. Follow(seq, c) = Move(seq, c.from, c.to)
    BY <1>3 DEF Follow
  <2> DEFINE from == c.from  to == c.to
  <2>3. from \in Nat /\ to \in 0..Len(seq)-1 /\ from \in 0..to
    BY <2>1
  <2> HIDE DEF from, to
  <2>4. from \in 0..Len(seq)-1 /\ to \in from..Len(seq)-1
    BY <1>1, <2>3
  <2>5. Move(seq, from, to) \in Seq(S) /\ Moved(Move(seq, from, to), seq, from, to)
    BY <2>4, MoveIs
  <2> QED BY <1>3, <2>2, <2>5 DEF from, to
<1> QED BY <1>2, <1>3

(* No command leads where one is.                                          *)
LEMMA LeadsNowhere ==
  ASSUME NEW S, NEW seq \in Seq(S)
  PROVE  Leads(S, seq, <<>>, seq)
<1> DEFINE shown == [i \in 0..Len(<<>>) |-> seq]
<1>1. Len(<<>>) = 0 /\ <<>> \in Seq(Command(S))
  BY EmptySeq
<1>2. shown \in [0..Len(<<>>) -> Seq(S)] /\ Shows(seq, <<>>, shown) /\ shown[Len(<<>>)] = seq
  BY <1>1 DEF Shows
<1> QED BY <1>1, <1>2 DEF Leads

(* One command more leads one step further.                                *)
LEMMA LeadsOn ==
  ASSUME NEW S, NEW seq, NEW cmds, NEW res, Leads(S, seq, cmds, res),
         NEW c \in Command(S), Fits(res, c)
  PROVE  Leads(S, seq, Append(cmds, c), Follow(res, c))
<1> DEFINE k == Len(cmds)
           cs == Append(cmds, c)
<1>1. cmds \in Seq(Command(S)) /\ k \in Nat
  BY LenProperties DEF Leads
<1>2. PICK h \in [0..k -> Seq(S)] : Shows(seq, cmds, h) /\ h[k] = res
  BY DEF Leads
<1>3. /\ cs \in Seq(Command(S)) /\ Len(cs) = k + 1 /\ cs[k+1] = c
      /\ \A i \in 1..k : cs[i] = cmds[i]
  BY <1>1, AppendProperties
<1>4. h[0] = seq /\ \A i \in 1..k : Fits(h[i-1], cmds[i]) /\ h[i] = Follow(h[i-1], cmds[i])
  BY <1>2 DEF Shows
<1>5. res \in Seq(S) /\ Follow(res, c) \in Seq(S)
  <2>1. res \in Seq(S)
    BY <1>1, <1>2
  <2> QED BY <2>1, FollowIs
<1> HIDE DEF k, cs
<1> DEFINE g == [i \in 0..k+1 |-> IF i = k + 1 THEN Follow(res, c) ELSE h[i]]
<1>6. g \in [0..k+1 -> Seq(S)] /\ g[0] = seq /\ g[k+1] = Follow(res, c)
      /\ \A i \in 0..k : g[i] = h[i]
  BY <1>1, <1>2, <1>4, <1>5
<1> HIDE DEF g
<1>7. ASSUME NEW i \in 1..k+1
      PROVE  Fits(g[i-1], cs[i]) /\ g[i] = Follow(g[i-1], cs[i])
  <2>1. CASE i = k + 1
    <3>1. i - 1 = k /\ g[k] = res
      BY <1>1, <1>2, <1>6, <2>1
    <3>2. cs[i] = c /\ g[i] = Follow(res, c)
      BY <2>1, <1>3, <1>6
    <3> QED BY <3>1, <3>2
  <2>2. CASE i # k + 1
    <3>1. i \in 1..k /\ i \in 0..k /\ i - 1 \in 0..k
      BY <1>1, <2>2
    <3>2. g[i-1] = h[i-1] /\ g[i] = h[i] /\ cs[i] = cmds[i]
      BY <3>1, <1>3, <1>6
    <3> QED BY <3>1, <3>2, <1>4
  <2> QED BY <2>1, <2>2
<1>8. Shows(seq, cs, g)
  BY <1>3, <1>6, <1>7 DEF Shows
<1> QED BY <1>3, <1>6, <1>8 DEF Leads, cs

(* The last command is the last step of the way.                           *)
LEMMA LeadsBack ==
  ASSUME NEW S, NEW seq, NEW cmds, NEW res, Leads(S, seq, cmds, res), cmds # <<>>
  PROVE  /\ Last(cmds) \in Command(S)
         /\ \E mid \in Seq(S) :
              /\ Leads(S, seq, Front(cmds), mid)
              /\ Fits(mid, Last(cmds)) /\ res = Follow(mid, Last(cmds))
<1> DEFINE k == Len(cmds)
           cs == Front(cmds)
           c == Last(cmds)
<1>1. cmds \in Seq(Command(S)) /\ k \in Nat /\ k # 0
  BY EmptySeq, LenProperties DEF Leads
<1>2. PICK h \in [0..k -> Seq(S)] : Shows(seq, cmds, h) /\ h[k] = res
  BY DEF Leads
<1>3. h[0] = seq /\ \A i \in 1..k : Fits(h[i-1], cmds[i]) /\ h[i] = Follow(h[i-1], cmds[i])
  BY <1>2 DEF Shows
<1>4. /\ cs \in Seq(Command(S)) /\ Len(cs) = k - 1
      /\ \A i \in 1..k-1 : cs[i] = cmds[i]
  <2>1. 1 \in 1..k+1 /\ k-1 \in 1-1..k
    BY <1>1
  <2>2. /\ cs \in Seq(Command(S)) /\ Len(cs) = (k-1) - 1 + 1
        /\ \A i \in 1..(k-1)-1+1 : cs[i] = cmds[1+i-1]
    BY <1>1, <2>1, SubSeqIs DEF Front
  <2> QED BY <1>1, <2>2
<1>5. c = cmds[k] /\ c \in Command(S)
  <2>1. k \in 1..k
    BY <1>1
  <2> QED BY <1>1, <2>1, ElementOfSeq DEF Last
<1> HIDE DEF k, cs, c
<1> DEFINE g == [i \in 0..k-1 |-> h[i]]
<1>6. g \in [0..k-1 -> Seq(S)] /\ g[0] = seq /\ \A i \in 0..k-1 : g[i] = h[i]
  BY <1>1, <1>2, <1>3
<1> HIDE DEF g
<1>7. ASSUME NEW i \in 1..k-1
      PROVE  Fits(g[i-1], cs[i]) /\ g[i] = Follow(g[i-1], cs[i])
  <2>1. i \in 1..k /\ i \in 0..k-1 /\ i - 1 \in 0..k-1
    BY <1>1
  <2>2. g[i-1] = h[i-1] /\ g[i] = h[i] /\ cs[i] = cmds[i]
    BY <2>1, <1>4, <1>6
  <2> QED BY <2>1, <2>2, <1>3
<1>8. Shows(seq, cs, g)
  BY <1>4, <1>6, <1>7 DEF Shows
<1> DEFINE mid == g[k-1]
<1>9. k - 1 \in 0..k-1 /\ k \in 1..k
  BY <1>1
<1>10. mid \in Seq(S) /\ Fits(mid, c) /\ res = Follow(mid, c)
  BY <1>9, <1>2, <1>3, <1>5, <1>6
<1>11. Leads(S, seq, cs, mid)
  BY <1>4, <1>6, <1>8 DEF Leads
<1> QED BY <1>5, <1>10, <1>11 DEF cs, c

(* The recursion of Followed, unrolled.                                    *)
LEMMA FollowedSteps ==
  ASSUME NEW seq, NEW cmds, Len(cmds) \in Nat
  PROVE  \E shown :
           /\ Followed(seq, cmds) = shown[Len(cmds)] /\ shown[0] = seq
           /\ \A i \in 1..Len(cmds) : shown[i] = Follow(shown[i-1], cmds[i])
<1> DEFINE n == Len(cmds)
           F(h) == [i \in 0..n |-> IF i = 0 THEN seq ELSE Follow(h[i-1], cmds[i])]
           Steps(k, h) == h[0] = seq /\ \A i \in 1..k : h[i] = Follow(h[i-1], cmds[i])
           T == {k \in 0..n : ~ \E h : Steps(k, h)}
<1>1. Followed(seq, cmds) = (CHOOSE h : h = F(h))[n]
  BY DEF Followed
<1>2. n \in Nat
  OBVIOUS
<1> HIDE DEF n
<1>3. T = {}
  <2> SUFFICES ASSUME T # {} PROVE FALSE
    OBVIOUS
  <2>1. T \in SUBSET Nat
    BY <1>2
  <2>2. PICK k \in T : \A j \in T : k <= j
    <3> HIDE DEF T
    <3> QED BY <2>1, LeastNat
  <2>3. k \in 0..n /\ ~ \E h : Steps(k, h)
    BY <2>2
  <2>4. k # 0
    <3> DEFINE h == [i \in {0} |-> seq]
    <3>1. Steps(0, h)
      OBVIOUS
    <3> QED BY <3>1, <2>3
  <2>5. k-1 \in 0..n /\ ~(k <= k-1)
    BY <1>2, <2>3, <2>4
  <2>6. PICK h : Steps(k-1, h)
    BY <2>2, <2>5
  <2> DEFINE g == [i \in 0..k |-> IF i = k THEN Follow(h[k-1], cmds[k]) ELSE h[i]]
  <2>7. g[0] = seq /\ g[k] = Follow(h[k-1], cmds[k]) /\ \A i \in 0..k-1 : g[i] = h[i]
    BY <2>3, <2>4, <2>6
  <2> HIDE DEF g
  <2>8. \A i \in 1..k : g[i] = Follow(g[i-1], cmds[i])
    <3> TAKE i \in 1..k
    <3>1. i - 1 \in 0..k-1 /\ (i # k => i \in 1..k-1 /\ i \in 0..k-1)
      BY <2>3
    <3> QED BY <3>1, <2>6, <2>7
  <2>9. Steps(k, g)
    BY <2>7, <2>8
  <2> QED BY <2>3, <2>9
<1>4. PICK h : Steps(n, h)
  BY <1>2, <1>3
<1> DEFINE h2 == [i \in 0..n |-> h[i]]
<1>5. h2 = F(h2)
  <2>1. ASSUME NEW i \in 0..n PROVE h[i] = IF i = 0 THEN seq ELSE Follow(h2[i-1], cmds[i])
    <3>1. i # 0 => i \in 1..n /\ i - 1 \in 0..n
      BY <1>2
    <3> QED BY <3>1, <1>4
  <2> QED BY <2>1
<1> DEFINE g == CHOOSE f : f = F(f)
<1>6. g = F(g)
  <2> HIDE DEF h2, F
  <2> QED BY <1>5
<1> HIDE DEF g
<1>7. g[0] = seq /\ \A i \in 1..n : g[i] = Follow(g[i-1], cmds[i])
  BY <1>2, <1>6
<1> QED BY <1>1, <1>7 DEF n, g

(* A listener that follows the commands arrives where they lead.           *)
LEMMA LeadsFollowed ==
  ASSUME NEW S, NEW seq, NEW cmds, NEW res, Leads(S, seq, cmds, res)
  PROVE  Followed(seq, cmds) = res
<1> DEFINE n == Len(cmds)
<1>1. n \in Nat
  BY LenProperties DEF Leads
<1>2. PICK h \in [0..n -> Seq(S)] : Shows(seq, cmds, h) /\ h[n] = res
  BY DEF Leads
<1>3. PICK g : /\ Followed(seq, cmds) = g[n] /\ g[0] = seq
               /\ \A i \in 1..n : g[i] = Follow(g[i-1], cmds[i])
  BY <1>1, FollowedSteps
<1>4. h[0] = seq /\ \A i \in 1..n : h[i] = Follow(h[i-1], cmds[i])
  BY <1>2 DEF Shows
<1> HIDE DEF n
<1> DEFINE T == {i \in 0..n : h[i] # g[i]}
<1>5. T = {}
  <2> SUFFICES ASSUME T # {} PROVE FALSE
    OBVIOUS
  <2>1. T \in SUBSET Nat
    BY <1>1
  <2>2. PICK k \in T : \A j \in T : k <= j
    <3> HIDE DEF T
    <3> QED BY <2>1, LeastNat
  <2>3. k # 0 /\ k \in 1..n
    BY <2>2, <1>1, <1>3, <1>4
  <2>4. k-1 \in 0..n /\ ~(k <= k-1)
    BY <1>1, <2>3
  <2>5. h[k-1] = g[k-1]
    BY <2>2, <2>4
  <2>6. h[k] = Follow(h[k-1], cmds[k]) /\ g[k] = Follow(g[k-1], cmds[k])
    BY <2>3, <1>3, <1>4, Zenon
  <2>7. h[k] # g[k]
    BY <2>2
  <2>8. h[k] = Follow(g[k-1], cmds[k])
    BY <2>5, <2>6, Zenon
  <2>9. h[k] = g[k]
    BY <2>6, <2>8, Zenon
  <2> QED BY <2>7, <2>9, Zenon
<1>6. h[n] = g[n]
  <2>1. n \in 0..n
    BY <1>1
  <2>2. n \notin T
    BY <1>5
  <2> QED BY <2>1, <2>2
<1> HIDE DEF T
<1> QED BY <1>2, <1>3, <1>6, Zenon

-----------------------------------------------------------------------------
(***************************************************************************)
(* Merging the commands (Compressed) leads to the same array.              *)
(***************************************************************************)
(* A move of what was placed last, merged into that command.               *)
LEMMA Merged ==
  ASSUME NEW S, NEW s \in Seq(S), NEW a \in Command(S), Fits(s, a),
         NEW c \in Command(S), c.op = "mov", a.to = c.from, Fits(Follow(s, a), c)
  PROVE  LET m == [a EXCEPT !.to = c.to] IN
         m \in Command(S) /\ Fits(s, m) /\ Follow(s, m) = Follow(Follow(s, a), c)
<1> DEFINE m == [a EXCEPT !.to = c.to]
           r == Follow(s, a)
           q == Follow(r, c)
           p == a.to
           to == c.to
           w == Follow(s, m)
<1>1. Len(s) \in Nat
  BY LenProperties
<1>2. /\ r \in Seq(S)
      /\ a.op = "ins" => Spliced(r, s, a.to, a.name)
      /\ a.op # "ins" => Moved(r, s, a.from, a.to)
  BY FollowIs
<1>3. q \in Seq(S) /\ Moved(q, r, p, to)
  BY <1>2, FollowIs
<1>4. to \in 0..Len(r)-1 /\ p \in 0..to
  BY DEF Fits
<1>5. Len(r) \in Nat /\ p \in Nat /\ to \in Nat /\ p <= to /\ to + 1 <= Len(r) /\ Len(q) = Len(r)
  BY <1>2, <1>3, <1>4, LenProperties DEF Moved
<1>6. /\ Len(q) = Len(r)
      /\ \A i \in 1..Len(r) : q[i] = IF i = to + 1 THEN r[p + 1]
                                     ELSE IF i \in p+1..to THEN r[i+1] ELSE r[i]
  BY <1>3 DEF Moved
<1>7. CASE a.op = "ins"
  <2> DEFINE x == a.name
  <2>1. a = [op |-> "ins", name |-> x, to |-> p] /\ x \in S
    BY <1>7 DEF Command
  <2>2. p \in 0..Len(s) /\ Spliced(r, s, p, x)
    BY <1>2, <1>7 DEF Fits
  <2> HIDE DEF x, p, to, r, q
  <2>3. m = [op |-> "ins", name |-> x, to |-> to]
    BY <2>1 DEF to
  <2>4. m \in Command(S) /\ m.op = "ins" /\ m.to = to /\ m.name = x
    BY <1>5, <2>1, <2>3 DEF Command
  <2>5. /\ Len(r) = Len(s) + 1
        /\ \A i \in 1..Len(s)+1 : r[i] = IF i = p + 1 THEN x ELSE IF i <= p THEN s[i] ELSE s[i-1]
    BY <2>2 DEF Spliced
  <2>6. Fits(s, m)
    BY <1>1, <1>5, <2>4, <2>5 DEF Fits
  <2> HIDE DEF m
  <2>7. w \in Seq(S) /\ Spliced(w, s, to, x)
    BY <2>4, <2>6, FollowIs
  <2> HIDE DEF w
  <2>8. /\ Len(w) = Len(s) + 1
        /\ \A i \in 1..Len(s)+1 : w[i] = IF i = to + 1 THEN x ELSE IF i <= to THEN s[i] ELSE s[i-1]
    BY <2>7 DEF Spliced
  <2>9. ASSUME NEW i \in 1..Len(w) PROVE w[i] = q[i]
    <3>1. i \in 1..Len(s)+1 /\ i \in 1..Len(r) /\ p + 1 \in 1..Len(s)+1
      BY <1>1, <1>5, <2>5, <2>8
    <3>2. CASE i = to + 1
      <4>1. q[i] = r[p+1]
        BY <3>1, <3>2, <1>6
      <4>2. r[p+1] = x
        BY <3>1, <2>5
      <4> QED BY <3>1, <3>2, <4>1, <4>2, <2>8
    <3>3. CASE i \in p+1..to
      <4>1. q[i] = r[i+1]
        <5>1. i # to + 1
          BY <3>3, <1>5
        <5>2. q[i] = IF i = to + 1 THEN r[p + 1] ELSE IF i \in p+1..to THEN r[i+1] ELSE r[i]
          BY <3>1, <1>6, Zenon
        <5> QED BY <3>3, <5>1, <5>2, Zenon
      <4>2. i + 1 \in 1..Len(s)+1 /\ i + 1 # p + 1 /\ ~(i + 1 <= p) /\ (i + 1) - 1 = i
        BY <3>1, <3>3, <1>1, <1>5, <2>5
      <4>3. r[i+1] = s[i]
        BY <4>2, <2>5
      <4> QED BY <3>1, <3>3, <4>1, <4>3, <1>5, <2>8
    <3>4. CASE i # to + 1 /\ ~(i \in p+1..to)
      <4>1. q[i] = r[i]
        BY <3>1, <3>4, <1>6
      <4>2. r[i] = IF i <= p THEN s[i] ELSE s[i-1]
        BY <3>1, <3>4, <1>1, <1>5, <2>5
      <4>3. i <= p <=> i <= to
        BY <3>1, <3>4, <1>1, <1>5
      <4> QED BY <3>1, <3>4, <4>1, <4>2, <4>3, <2>8
    <3> QED BY <3>2, <3>3, <3>4
  <2>10. w = q
    BY <1>3, <1>6, <2>5, <2>7, <2>8, <2>9, SeqEqual DEF q
  <2> QED BY <2>4, <2>6, <2>10 DEF m, w, q, r
<1>8. CASE a.op # "ins"
  <2> DEFINE f == a.from
  <2>1. a = [op |-> "mov", from |-> f, to |-> p] /\ f \in Nat
    BY <1>8 DEF Command
  <2>2. f \in 0..p /\ p \in 0..Len(s)-1 /\ Moved(r, s, f, p)
    BY <1>2, <1>8 DEF Fits
  <2> HIDE DEF f, p, to, r, q
  <2>3. m = [op |-> "mov", from |-> f, to |-> to]
    BY <2>1 DEF to
  <2>4. m \in Command(S) /\ m.op # "ins" /\ m.to = to /\ m.from = f
    BY <1>5, <2>1, <2>3 DEF Command
  <2>5. /\ Len(r) = Len(s)
        /\ \A i \in 1..Len(s) : r[i] = IF i = p + 1 THEN s[f + 1]
                                       ELSE IF i \in f+1..p THEN s[i+1] ELSE s[i]
    BY <2>2 DEF Moved
  <2>6. Fits(s, m)
    BY <1>1, <1>5, <2>2, <2>4, <2>5 DEF Fits
  <2> HIDE DEF m
  <2>7. w \in Seq(S) /\ Moved(w, s, f, to)
    BY <2>4, <2>6, FollowIs
  <2> HIDE DEF w
  <2>8. /\ Len(w) = Len(s)
        /\ \A i \in 1..Len(s) : w[i] = IF i = to + 1 THEN s[f + 1]
                                       ELSE IF i \in f+1..to THEN s[i+1] ELSE s[i]
    BY <2>7 DEF Moved
  <2>9. ASSUME NEW i \in 1..Len(w) PROVE w[i] = q[i]
    <3>1. i \in 1..Len(s) /\ i \in 1..Len(r) /\ p + 1 \in 1..Len(s)
      BY <1>1, <1>5, <2>5, <2>8
    <3>2. CASE i = to + 1
      <4>1. q[i] = r[p+1]
        BY <3>1, <3>2, <1>6
      <4>2. r[p+1] = s[f + 1]
        BY <3>1, <2>5
      <4> QED BY <3>1, <3>2, <4>1, <4>2, <2>8
    <3>3. CASE i \in p+1..to
      <4>1. q[i] = r[i+1]
        <5>1. i # to + 1
          BY <3>3, <1>5
        <5>2. q[i] = IF i = to + 1 THEN r[p + 1] ELSE IF i \in p+1..to THEN r[i+1] ELSE r[i]
          BY <3>1, <1>6, Zenon
        <5> QED BY <3>3, <5>1, <5>2, Zenon
      <4>2. i + 1 \in 1..Len(s) /\ i + 1 # p + 1 /\ ~(i + 1 \in f+1..p) /\ i \in f+1..to
        BY <3>1, <3>3, <1>1, <1>5, <2>2, <2>5
      <4>3. r[i+1] = s[i+1]
        BY <4>2, <2>5
      <4> QED BY <3>1, <3>3, <4>1, <4>2, <4>3, <1>5, <2>8
    <3>4. CASE i # to + 1 /\ ~(i \in p+1..to)
      <4>1. q[i] = r[i]
        BY <3>1, <3>4, <1>6
      <4>2. i # p + 1 \/ p = to
        BY <3>4, <1>5
      <4>3. r[i] = IF i \in f+1..p THEN s[i+1] ELSE s[i]
        BY <3>1, <3>4, <4>2, <1>1, <1>5, <2>5
      <4>4. i \in f+1..p <=> i \in f+1..to
        BY <3>1, <3>4, <1>1, <1>5, <2>2
      <4> QED BY <3>1, <3>4, <4>1, <4>3, <4>4, <2>8
    <3> QED BY <3>2, <3>3, <3>4
  <2>10. w = q
    BY <1>3, <1>6, <2>5, <2>7, <2>8, <2>9, SeqEqual DEF q
  <2> QED BY <2>4, <2>6, <2>10 DEF m, w, q, r
<1> QED BY <1>7, <1>8

(* One command more: what is merged leads to the same array. *)
LEMMA MergeLeads ==
  ASSUME NEW S, NEW seq, NEW cmds, NEW mid, Leads(S, seq, cmds, mid), NEW c \in Command(S),
         Fits(mid, c)
  PROVE  Leads(S, seq, Merge(cmds, c), Follow(mid, c))
<1>1. CASE cmds # <<>> /\ c.op = "mov" /\ Last(cmds).to = c.from
  <2> DEFINE a == Last(cmds)
             m == [a EXCEPT !.to = c.to]
             fr == Front(cmds)
  <2>1. PICK low \in Seq(S) : Leads(S, seq, fr, low) /\ Fits(low, a) /\ mid = Follow(low, a)
    BY <1>1, LeadsBack
  <2>2. a \in Command(S) /\ a.to = c.from /\ c.op = "mov"
    BY <1>1, LeadsBack
  <2>3. Merge(cmds, c) = Append(fr, m)
    BY <1>1, Zenon DEF Merge
  <2> HIDE DEF a, fr
  <2>4. m \in Command(S) /\ Fits(low, m) /\ Follow(low, m) = Follow(mid, c)
    BY <2>1, <2>2, Merged
  <2> HIDE DEF m
  <2>5. Leads(S, seq, Append(fr, m), Follow(low, m))
    BY <2>1, <2>4, LeadsOn
  <2> QED BY <2>3, <2>4, <2>5
<1>2. CASE ~(cmds # <<>> /\ c.op = "mov" /\ Last(cmds).to = c.from)
  <2>1. Merge(cmds, c) = Append(cmds, c)
    BY <1>2 DEF Merge
  <2> QED BY <2>1, LeadsOn
<1> QED BY <1>1, <1>2

(* The recursion of Compressed, unrolled.                                  *)
LEMMA CompressedSteps ==
  ASSUME NEW cmds, Len(cmds) \in Nat
  PROVE  \E merged :
           /\ Compressed(cmds) = merged[Len(cmds)] /\ merged[0] = <<>>
           /\ \A i \in 1..Len(cmds) : merged[i] = Merge(merged[i-1], cmds[i])
<1> DEFINE n == Len(cmds)
           F(h) == [i \in 0..n |-> IF i = 0 THEN <<>> ELSE Merge(h[i-1], cmds[i])]
           Steps(k, h) == h[0] = <<>> /\ \A i \in 1..k : h[i] = Merge(h[i-1], cmds[i])
           T == {k \in 0..n : ~ \E h : Steps(k, h)}
<1>1. Compressed(cmds) = (CHOOSE h : h = F(h))[n]
  BY DEF Compressed
<1>2. n \in Nat
  OBVIOUS
<1> HIDE DEF n
<1>3. T = {}
  <2> SUFFICES ASSUME T # {} PROVE FALSE
    OBVIOUS
  <2>1. T \in SUBSET Nat
    BY <1>2
  <2>2. PICK k \in T : \A j \in T : k <= j
    <3> HIDE DEF T
    <3> QED BY <2>1, LeastNat
  <2>3. k \in 0..n /\ ~ \E h : Steps(k, h)
    BY <2>2
  <2>4. k # 0
    <3> DEFINE h == [i \in {0} |-> <<>>]
    <3>1. Steps(0, h)
      OBVIOUS
    <3> QED BY <3>1, <2>3
  <2>5. k-1 \in 0..n /\ ~(k <= k-1)
    BY <1>2, <2>3, <2>4
  <2>6. PICK h : Steps(k-1, h)
    BY <2>2, <2>5
  <2> DEFINE g == [i \in 0..k |-> IF i = k THEN Merge(h[k-1], cmds[k]) ELSE h[i]]
  <2>7. g[0] = <<>> /\ g[k] = Merge(h[k-1], cmds[k]) /\ \A i \in 0..k-1 : g[i] = h[i]
    BY <2>3, <2>4, <2>6
  <2> HIDE DEF g
  <2>8. \A i \in 1..k : g[i] = Merge(g[i-1], cmds[i])
    <3> TAKE i \in 1..k
    <3>1. i - 1 \in 0..k-1 /\ (i # k => i \in 1..k-1 /\ i \in 0..k-1)
      BY <2>3
    <3> QED BY <3>1, <2>6, <2>7
  <2>9. Steps(k, g)
    BY <2>7, <2>8
  <2> QED BY <2>3, <2>9
<1>4. PICK h : Steps(n, h)
  <2>1. n \in 0..n
    BY <1>2
  <2> HIDE DEF Steps
  <2> QED BY <2>1, <1>3, Zenon
<1> DEFINE h2 == [i \in 0..n |-> h[i]]
<1>5. h2 = F(h2)
  <2>1. ASSUME NEW i \in 0..n PROVE h[i] = IF i = 0 THEN <<>> ELSE Merge(h2[i-1], cmds[i])
    <3>1. i # 0 => i \in 1..n /\ i - 1 \in 0..n
      BY <1>2
    <3> QED BY <3>1, <1>4
  <2> QED BY <2>1
<1> DEFINE g == CHOOSE f : f = F(f)
<1>6. g = F(g)
  <2> HIDE DEF h2, F
  <2> QED BY <1>5
<1> HIDE DEF g
<1>7. g[0] = <<>> /\ \A i \in 1..n : g[i] = Merge(g[i-1], cmds[i])
  BY <1>2, <1>6
<1> QED BY <1>1, <1>7 DEF n, g

(* The listener that only gets the merged commands has the same array.     *)
LEMMA CompressedLeads ==
  ASSUME NEW S, NEW seq \in Seq(S), NEW cmds, NEW res, Leads(S, seq, cmds, res)
  PROVE  Leads(S, seq, Compressed(cmds), res)
<1> DEFINE n == Len(cmds)
<1>1. n \in Nat /\ cmds \in Seq(Command(S))
  BY LenProperties DEF Leads
<1>2. PICK h \in [0..n -> Seq(S)] : Shows(seq, cmds, h) /\ h[n] = res
  BY DEF Leads
<1>3. PICK g : /\ Compressed(cmds) = g[n] /\ g[0] = <<>>
               /\ \A i \in 1..n : g[i] = Merge(g[i-1], cmds[i])
  BY <1>1, CompressedSteps
<1>4. h[0] = seq /\ \A i \in 1..n : Fits(h[i-1], cmds[i]) /\ h[i] = Follow(h[i-1], cmds[i])
  BY <1>2 DEF Shows
<1>5. \A i \in 1..n : cmds[i] \in Command(S)
  BY <1>1, ElementOfSeq
<1> HIDE DEF n
<1> DEFINE T == {i \in 0..n : ~Leads(S, seq, g[i], h[i])}
<1>6. T = {}
  <2> SUFFICES ASSUME T # {} PROVE FALSE
    OBVIOUS
  <2>1. T \in SUBSET Nat
    BY <1>1
  <2>2. PICK k \in T : \A j \in T : k <= j
    <3> HIDE DEF T
    <3> QED BY <2>1, LeastNat
  <2>3. k # 0
    BY <2>2, <1>3, <1>4, LeadsNowhere
  <2>4. k \in 1..n /\ k-1 \in 0..n /\ ~(k <= k-1)
    BY <1>1, <2>2, <2>3
  <2>5. Leads(S, seq, g[k-1], h[k-1])
    BY <2>2, <2>4
  <2> DEFINE cs == g[k-1]  mid == h[k-1]  c == cmds[k]
  <2>6. Leads(S, seq, cs, mid) /\ c \in Command(S) /\ Fits(mid, c)
    BY <2>4, <2>5, <1>4, <1>5
  <2> HIDE DEF cs, mid, c
  <2>7. Leads(S, seq, Merge(cs, c), Follow(mid, c))
    BY <2>6, MergeLeads
  <2>8. g[k] = Merge(cs, c) /\ h[k] = Follow(mid, c)
    BY <2>4, <1>3, <1>4 DEF cs, mid, c
  <2> QED BY <2>2, <2>7, <2>8
<1>7. n \in 0..n
  BY <1>1
<1>8. Leads(S, seq, g[n], h[n])
  BY <1>6, <1>7, Zenon
<1> QED BY <1>2, <1>3, <1>8, Zenon

-----------------------------------------------------------------------------
(***************************************************************************)
(* What one move does: how far a node rises, whom it passes, and what is   *)
(* left alone.                                                             *)
(***************************************************************************)
(* The maximum of a bounded set of numbers.                                *)
LEMMA MaxIs ==
  ASSUME NEW T \in SUBSET Nat, T # {}, NEW bound \in Nat, \A x \in T : x <= bound
  PROVE  Max(T) \in T /\ \A x \in T : x <= Max(T)
<1> DEFINE R == {bound - x : x \in T}
<1>1. R \in SUBSET Nat /\ R # {}
  <2>1. \A x \in T : bound - x \in Nat
    OBVIOUS
  <2>2. PICK x \in T : TRUE
    OBVIOUS
  <2>3. bound - x \in R
    OBVIOUS
  <2> QED BY <2>1, <2>3
<1>2. PICK r \in R : \A y \in R : r <= y
  <2> HIDE DEF R
  <2> QED BY <1>1, LeastNat
<1>3. PICK z \in T : r = bound - z
  BY <1>2
<1>4. \A x \in T : x <= z
  <2> TAKE x \in T
  <2>1. bound - x \in R
    OBVIOUS
  <2>2. r <= bound - x
    BY <1>2, <2>1
  <2> QED BY <1>3, <2>2
<1>5. \E x \in T : \A y \in T : x >= y
  BY <1>4
<1>6. Max(T) \in T /\ \A y \in T : Max(T) >= y
  BY <1>5, Zenon DEF Max
<1> QED BY <1>6

(* How far the array goes on with these nodes.                             *)
LEMMA PassingIs ==
  ASSUME NEW tl, Len(tl.linear) \in Nat, NEW pos \in 0..Len(tl.linear)-1, NEW nodes
  PROVE  LET p == Passing(tl, pos, nodes) IN
         /\ p \in pos..Len(tl.linear)-1
         /\ \A q \in pos+1..p : At(tl, q) \in nodes
         /\ p + 1 \in 0..Len(tl.linear)-1 => At(tl, p + 1) \notin nodes
<1> DEFINE L == Len(tl.linear)
           T == {p \in pos..L-1 : \A q \in pos+1..p : At(tl, q) \in nodes}
           p == Max(T)
<1>1. L \in Nat /\ pos \in 0..L-1
  OBVIOUS
<1> HIDE DEF L
<1>2. T \in SUBSET Nat /\ pos \in T /\ L-1 \in Nat /\ \A x \in T : x <= L-1
  BY <1>1
<1>3. Max(T) \in T /\ \A x \in T : x <= Max(T)
  <2> HIDE DEF T
  <2> QED BY <1>2, MaxIs
<1>4. p \in pos..L-1 /\ \A q \in pos+1..p : At(tl, q) \in nodes
  BY <1>3
<1>5. ASSUME p + 1 \in 0..L-1 PROVE At(tl, p + 1) \notin nodes
  <2> SUFFICES ASSUME At(tl, p + 1) \in nodes PROVE FALSE
    OBVIOUS
  <2>1. \A x \in T : x <= p
    BY <1>3
  <2> HIDE DEF p
  <2>2. p + 1 \in pos..L-1
    BY <1>1, <1>4, <1>5
  <2>3. \A q \in pos+1..p+1 : q \in pos+1..p \/ q = p + 1
    BY <1>1, <1>4
  <2>4. p + 1 \in T
    BY <1>4, <2>2, <2>3
  <2>5. p + 1 <= p
    BY <2>1, <2>4
  <2> QED BY <1>1, <1>4, <2>5
<1>6. Passing(tl, pos, nodes) = p
  BY Zenon DEF Passing, L
<1> HIDE DEF p
<1> QED BY <1>4, <1>5, <1>6 DEF L

(***************************************************************************)
(* What a move does to the order, and what it leaves alone.                *)
(***************************************************************************)
Kept(u, tl, K) ==
  /\ HasFields(u, K) /\ IsArray(u, K) /\ Follows(u, tl)
  /\ \A seq \in Seq(K) : Leads(K, seq, tl.cmds, tl.linear) => Leads(K, seq, u.cmds, u.linear)
Passes(u, tl, K, n, p) ==
  /\ \A a, b \in K \ {n} : u.indx[a] < u.indx[b] <=> tl.indx[a] < tl.indx[b]
  /\ \A a \in K \ {n} : u.indx[a] < u.indx[n] <=> tl.indx[a] <= p

(* Nothing done keeps everything.                                          *)
LEMMA KeptAlways ==
  ASSUME NEW K, NEW tl, HasFields(tl, K), IsArray(tl, K)
  PROVE  Kept(tl, tl, K)
BY DEF Kept, Follows

(* One thing after another.                                                *)
LEMMA KeptTwice ==
  ASSUME NEW K, NEW tl, NEW u, NEW w, Kept(u, tl, K), Kept(w, u, K)
  PROVE  Kept(w, tl, K)
BY DEF Kept, Follows

(* Positions and array name each other.                                    *)
LEMMA Placed ==
  ASSUME NEW K, NEW tl, IsArray(tl, K)
  PROVE  /\ Len(tl.linear) \in Nat /\ tl.indx \in [K -> 0..Len(tl.linear)-1]
         /\ \A m \in K : tl.indx[m] \in 0..Len(tl.linear)-1 /\ tl.indx[m] \in Nat
         /\ \A m \in K : At(tl, tl.indx[m]) = m
         /\ \A p \in 0..Len(tl.linear)-1 : At(tl, p) \in K /\ tl.indx[At(tl, p)] = p
         /\ \A a, b \in K : tl.indx[a] = tl.indx[b] => a = b
<1>1. /\ tl.linear \in Seq(K) /\ Len(tl.linear) \in Nat /\ tl.indx \in [K -> 0..Len(tl.linear)-1]
      /\ \A m \in K : At(tl, tl.indx[m]) = m
      /\ \A p \in 0..Len(tl.linear)-1 : tl.indx[At(tl, p)] = p
  BY LenProperties DEF IsArray
<1>2. ASSUME NEW p \in 0..Len(tl.linear)-1 PROVE At(tl, p) \in K
  <2>1. p + 1 \in 1..Len(tl.linear)
    BY <1>1
  <2> QED BY <1>1, <2>1, ElementOfSeq DEF At
<1>3. \A a, b \in K : tl.indx[a] = tl.indx[b] => a = b
  BY <1>1, Zenon
<1>4. \A m \in K : tl.indx[m] \in 0..Len(tl.linear)-1 /\ tl.indx[m] \in Nat
  <2> TAKE m \in K
  <2>1. tl.indx[m] \in 0..Len(tl.linear)-1
    BY <1>1
  <2> QED BY <1>1, <2>1
<1> QED BY <1>1, <1>2, <1>3, <1>4

(* A jump changes nothing but the place of one node.                       *)
LEMMA JumpKeeps ==
  ASSUME NEW K, NEW tl, HasFields(tl, K), IsArray(tl, K),
         NEW n \in K, NEW pos \in tl.indx[n]..Len(tl.linear)-1
  PROVE  /\ Kept(Jump(tl, n, pos), tl, K) /\ Jump(tl, n, pos).rank = tl.rank
         /\ Passes(Jump(tl, n, pos), tl, K, n, pos)
<1> DEFINE u == Jump(tl, n, pos)
           ix == tl.indx
           si == ix[n]
           L == Len(tl.linear)
           lin == tl.linear
           cmd == [op |-> "mov", from |-> si, to |-> pos]
           jx == u.indx
<1>1. /\ HasFields(u, K) /\ IsArray(u, K) /\ Follows(u, tl) /\ u.rank = tl.rank
      /\ u.linear = Move(lin, si, pos)
      /\ u.cmds = Append(tl.cmds, cmd)
      /\ jx = [m \in K |-> IF m = n THEN pos
                           ELSE IF ix[m] \in si+1..pos THEN ix[m] - 1 ELSE ix[m]]
  BY JumpIs
<1>2. L \in Nat /\ lin \in Seq(K) /\ ix[n] \in 0..L-1
      /\ \A m \in K : ix[m] \in Nat
      /\ \A a, b \in K : ix[a] = ix[b] => a = b
  BY Placed DEF IsArray
<1>3. pos \in si..L-1
  OBVIOUS
<1> HIDE DEF u, ix, L, lin
<1>4. ASSUME NEW seq \in Seq(K), Leads(K, seq, tl.cmds, lin)
      PROVE  Leads(K, seq, u.cmds, u.linear)
  <2>1. si \in Nat /\ pos \in Nat /\ si <= pos /\ pos \in 0..Len(lin)-1
    BY <1>2, <1>3 DEF L, lin
  <2> HIDE DEF si
  <2>2. cmd \in Command(K) /\ Fits(lin, cmd) /\ Follow(lin, cmd) = Move(lin, si, pos)
    BY <2>1 DEF Command, Fits, Follow
  <2>3. Leads(K, seq, Append(tl.cmds, cmd), Follow(lin, cmd))
    BY <1>4, <2>2, LeadsOn
  <2> QED BY <1>1, <2>2, <2>3
<1>5. Passes(u, tl, K, n, pos)
  <2>1. ASSUME NEW a \in K \ {n}
        PROVE  /\ jx[a] = IF ix[a] \in si+1..pos THEN ix[a] - 1 ELSE ix[a]
               /\ ix[a] \in Nat /\ ix[a] # si
    BY <1>1, <1>2
  <2>2. jx[n] = pos
    BY <1>1
  <2> HIDE DEF jx
  <2>3. ASSUME NEW a \in K \ {n}, NEW b \in K \ {n}
        PROVE  jx[a] < jx[b] <=> ix[a] < ix[b]
    <3> DEFINE ja == jx[a]  jb == jx[b]  ia == ix[a]  ib == ix[b]
    <3>1. /\ ja = IF ia \in si+1..pos THEN ia - 1 ELSE ia
          /\ jb = IF ib \in si+1..pos THEN ib - 1 ELSE ib
          /\ ia \in Nat /\ ib \in Nat /\ ia # si /\ ib # si
      BY <2>1
    <3> HIDE DEF ja, jb, ia, ib, si
    <3>2. ja < jb <=> ia < ib
      BY <3>1, <1>2, <1>3 DEF si
    <3> QED BY <3>2 DEF ja, jb, ia, ib
  <2>4. ASSUME NEW a \in K \ {n} PROVE jx[a] < jx[n] <=> ix[a] <= pos
    <3> DEFINE ja == jx[a]  ia == ix[a]
    <3>1. ja = (IF ia \in si+1..pos THEN ia - 1 ELSE ia) /\ ia \in Nat /\ ia # si
      BY <2>1
    <3> HIDE DEF ja, ia, si
    <3>2. ja < pos <=> ia <= pos
      BY <3>1, <1>2, <1>3 DEF si
    <3> QED BY <3>2, <2>2 DEF ja, ia
  <2> QED BY <2>3, <2>4 DEF Passes, jx, ix
<1>6. Kept(u, tl, K)
  BY <1>1, <1>4 DEF Kept, lin
<1> QED BY <1>1, <1>5, <1>6 DEF u

(* _rise passes only what belongs before n, and stops where that ends.     *)
LEMMA RiseIs ==
  ASSUME NEW K, NEW tl, HasFields(tl, K), IsArray(tl, K), NEW n \in K
  PROVE  /\ Kept(Rise(tl, n), tl, K) /\ Rise(tl, n).rank = tl.rank
         /\ \E p \in tl.indx[n]..Len(tl.linear)-1 :
              /\ Passes(Rise(tl, n), tl, K, n, p)
              /\ \A m \in K : tl.indx[m] \in tl.indx[n]+1..p => Before(tl, m, n)
              /\ \A m \in K : tl.indx[m] = p + 1 =>
                   \/ ~Before(tl, m, n)
                   \/ \E l \in K : /\ tl.indx[l] = p /\ tl.indx[n] < p
                                   /\ tl.rank[l] = tl.rank[n] /\ tl.rank[m] < tl.rank[n]
<1> DEFINE L == Len(tl.linear)
           ix == tl.indx
           si == ix[n]
           low == Passing(tl, si, Lower(tl, n))
           pos == Passing(tl, low, Level(tl, n))
<1>1. /\ L \in Nat /\ si \in 0..L-1
      /\ \A m \in K : ix[m] \in 0..L-1 /\ ix[m] \in Nat
      /\ \A m \in K : At(tl, ix[m]) = m
      /\ \A p \in 0..L-1 : At(tl, p) \in K /\ ix[At(tl, p)] = p
      /\ \A a, b \in K : ix[a] = ix[b] => a = b
  BY Placed
<1>2. /\ low \in si..L-1
      /\ \A q \in si+1..low : At(tl, q) \in Lower(tl, n)
      /\ low + 1 \in 0..L-1 => At(tl, low + 1) \notin Lower(tl, n)
  BY <1>1, PassingIs
<1>3. /\ pos \in low..L-1
      /\ \A q \in low+1..pos : At(tl, q) \in Level(tl, n)
      /\ pos + 1 \in 0..L-1 => At(tl, pos + 1) \notin Level(tl, n)
  <2> HIDE DEF low
  <2>1. low \in 0..L-1
    BY <1>1, <1>2
  <2> QED BY <1>1, <2>1, PassingIs
<1>4. Known(tl) = K
  BY DEF Known, HasFields
<1>5. Rise(tl, n) = IF si < pos THEN Jump(tl, n, pos) ELSE tl
  BY Zenon DEF Rise
<1>6. pos \in si..L-1
  <2> HIDE DEF low, pos, si, L
  <2> QED BY <1>1, <1>2, <1>3
<1>7. /\ Kept(Rise(tl, n), tl, K) /\ Rise(tl, n).rank = tl.rank
      /\ Passes(Rise(tl, n), tl, K, n, pos)
  <2> HIDE DEF pos
  <2>1. CASE si < pos
    BY <1>5, <1>6, <2>1, JumpKeeps
  <2>2. CASE ~(si < pos)
    <3>1. pos = si /\ Rise(tl, n) = tl
      BY <1>1, <1>5, <1>6, <2>2
    <3> HIDE DEF ix, si
    <3>2. \A a \in K \ {n} : ix[a] < ix[n] <=> ix[a] <= si
      <4> TAKE a \in K \ {n}
      <4>1. ix[a] \in Nat /\ ix[n] \in Nat /\ ix[a] # ix[n] /\ si = ix[n]
        BY <1>1 DEF si
      <4> QED BY <4>1
    <3> QED BY <3>1, <3>2, KeptAlways DEF Passes, ix
  <2> QED BY <2>1, <2>2
<1>8. ASSUME NEW m \in K, ix[m] \in si+1..pos PROVE Before(tl, m, n)
  <2> DEFINE q == ix[m]
  <2>1. q \in si+1..pos /\ At(tl, q) = m
    BY <1>1, <1>8
  <2> HIDE DEF q, low, pos, si
  <2>2. q \in si+1..low \/ q \in low+1..pos
    BY <1>1, <1>2, <1>3, <2>1
  <2>3. m \in Lower(tl, n) \/ m \in Level(tl, n)
    BY <1>2, <1>3, <2>1, <2>2
  <2> QED BY <2>3 DEF Lower, Level, Before
<1>9. ASSUME NEW m \in K, ix[m] = pos + 1
      PROVE  \/ ~Before(tl, m, n)
             \/ \E l \in K : /\ ix[l] = pos /\ ix[n] < pos
                             /\ tl.rank[l] = tl.rank[n] /\ tl.rank[m] < tl.rank[n]
  <2> HIDE DEF low, pos
  <2>1. m = At(tl, pos + 1) /\ pos + 1 \in 0..L-1 /\ m \notin Level(tl, n)
    BY <1>1, <1>3, <1>9
  <2>2. CASE pos = low
    <3>1. m \notin Lower(tl, n)
      BY <1>2, <2>1, <2>2
    <3> QED BY <1>4, <2>1, <3>1 DEF Lower, Level, Before
  <2>3. CASE pos # low
    <3>1. pos \in low+1..pos /\ pos \in 0..L-1 /\ si < pos
      BY <1>1, <1>2, <1>3, <1>6, <2>3
    <3>2. At(tl, pos) \in Level(tl, n) /\ At(tl, pos) \in K /\ ix[At(tl, pos)] = pos
      BY <3>1, <1>1, <1>3
    <3>3. tl.rank[At(tl, pos)] = tl.rank[n]
      BY <3>2 DEF Level
    <3>4. Before(tl, m, n) => tl.rank[m] < tl.rank[n]
      BY <1>4, <2>1 DEF Level, Before
    <3> QED BY <3>1, <3>2, <3>3, <3>4
  <2> QED BY <2>2, <2>3
<1> HIDE DEF pos
<1> QED BY <1>6, <1>7, <1>8, <1>9

-----------------------------------------------------------------------------
(***************************************************************************)
(* Sorting: the order of the nodes is total, and one unsorted node that    *)
(* rises finds its place.                                                  *)
(***************************************************************************)
(* By rank, then by name: a total order.                                   *)
LEMMA BeforeIsOrder ==
  ASSUME NEW K \in SUBSET Nat, NEW tl, tl.rank \in [K -> Nat], NEW a \in K, NEW b \in K
  PROVE  /\ a # b => Before(tl, a, b) \/ Before(tl, b, a)
         /\ ~(Before(tl, a, b) /\ Before(tl, b, a))
         /\ \A c \in K : Before(tl, a, b) /\ Before(tl, b, c) => Before(tl, a, c)
<1>1. \A c \in K : c \in Nat /\ tl.rank[c] \in Nat
  OBVIOUS
<1>2. /\ a # b => Before(tl, a, b) \/ Before(tl, b, a)
      /\ ~(Before(tl, a, b) /\ Before(tl, b, a))
  <2> DEFINE ra == tl.rank[a]  rb == tl.rank[b]
  <2>1. ra \in Nat /\ rb \in Nat /\ a \in Nat /\ b \in Nat
    BY <1>1
  <2> HIDE DEF ra, rb
  <2>2. /\ a # b => (ra < rb \/ (ra = rb /\ a < b)) \/ (rb < ra \/ (rb = ra /\ b < a))
        /\ ~((ra < rb \/ (ra = rb /\ a < b)) /\ (rb < ra \/ (rb = ra /\ b < a)))
    BY <2>1
  <2> QED BY <2>2 DEF Before, ra, rb
<1>3. ASSUME NEW c \in K, Before(tl, a, b), Before(tl, b, c) PROVE Before(tl, a, c)
  <2> DEFINE ra == tl.rank[a]  rb == tl.rank[b]  rc == tl.rank[c]
  <2>1. ra \in Nat /\ rb \in Nat /\ rc \in Nat /\ a \in Nat /\ b \in Nat /\ c \in Nat
    BY <1>1
  <2>2. (ra < rb \/ (ra = rb /\ a < b)) /\ (rb < rc \/ (rb = rc /\ b < c))
    BY <1>3 DEF Before
  <2> HIDE DEF ra, rb, rc
  <2>3. ra < rc \/ (ra = rc /\ a < c)
    BY <2>1, <2>2
  <2> QED BY <2>3 DEF Before, ra, rc
<1> QED BY <1>2, <1>3

(* When all behind n are sorted and all in front of it are before it,      *)
(* n finds its place by rising.                                            *)
LEMMA RiseSorts ==
  ASSUME NEW K \in SUBSET Nat, NEW tl, HasFields(tl, K), IsArray(tl, K),
         NEW S \in SUBSET K, NEW n \in K \ S, SortedOn(tl, S),
         \A m \in K : tl.indx[n] < tl.indx[m] => m \in S,
         \A m \in S : tl.indx[m] < tl.indx[n] => Before(tl, m, n)
  PROVE  SortedOn(Rise(tl, n), S \union {n})
<1> DEFINE u == Rise(tl, n)
           L == Len(tl.linear)
           ix == tl.indx
           jx == u.indx
<1>1. /\ L \in Nat /\ \A m \in K : ix[m] \in 0..L-1 /\ ix[m] \in Nat
      /\ \A p \in 0..L-1 : At(tl, p) \in K /\ ix[At(tl, p)] = p
      /\ \A a, b \in K : ix[a] = ix[b] => a = b
  BY Placed
<1>2. /\ Kept(u, tl, K) /\ u.rank = tl.rank
      /\ \E p \in ix[n]..L-1 :
           /\ Passes(u, tl, K, n, p)
           /\ \A m \in K : ix[m] \in ix[n]+1..p => Before(tl, m, n)
           /\ \A m \in K : ix[m] = p + 1 =>
                \/ ~Before(tl, m, n)
                \/ \E l \in K : /\ ix[l] = p /\ ix[n] < p
                                /\ tl.rank[l] = tl.rank[n] /\ tl.rank[m] < tl.rank[n]
  BY RiseIs
<1>3. PICK p \in ix[n]..L-1 :
           /\ Passes(u, tl, K, n, p)
           /\ \A m \in K : ix[m] \in ix[n]+1..p => Before(tl, m, n)
           /\ \A m \in K : ix[m] = p + 1 =>
                \/ ~Before(tl, m, n)
                \/ \E l \in K : /\ ix[l] = p /\ ix[n] < p
                                /\ tl.rank[l] = tl.rank[n] /\ tl.rank[m] < tl.rank[n]
  BY <1>2
<1>4. /\ \A a, b \in K \ {n} : jx[a] < jx[b] <=> ix[a] < ix[b]
      /\ \A a \in K \ {n} : jx[a] < jx[n] <=> ix[a] <= p
  BY <1>3 DEF Passes
<1>5. \A m \in K : jx[m] \in Nat
  BY <1>2, Placed DEF Kept
<1>6. \A a, b \in K : Before(u, a, b) <=> Before(tl, a, b)
  BY <1>2 DEF Before
<1>7. tl.rank \in [K -> Nat]
  BY DEF HasFields
<1>8. \A m \in K : ix[n] < ix[m] => m \in S
  OBVIOUS
<1>9. \A m \in S : ix[m] < ix[n] => Before(tl, m, n)
  OBVIOUS
<1>10. \A a, b \in S : ix[a] < ix[b] => Before(tl, a, b)
  BY DEF SortedOn
<1>11. p \in Nat /\ ix[n] \in Nat /\ ix[n] <= p
  BY <1>1
<1> HIDE DEF u, ix, jx, L
<1>12. ASSUME NEW m \in S, ix[m] = p + 1 PROVE ~Before(tl, m, n)
  <2>1. ASSUME NEW l \in K, ix[l] = p, ix[n] < p, tl.rank[l] = tl.rank[n],
               tl.rank[m] < tl.rank[n]
        PROVE FALSE
    <3>0. ix[n] < ix[l] /\ p < p + 1
      BY <1>11, <2>1
    <3>1. l \in S /\ ix[l] < ix[m]
      BY <1>8, <1>12, <2>1, <3>0
    <3>2. Before(tl, l, m)
      BY <1>10, <3>1
    <3>3. tl.rank[l] \in Nat /\ tl.rank[m] \in Nat /\ tl.rank[n] \in Nat
      BY <1>7, <2>1
    <3> QED BY <2>1, <3>2, <3>3 DEF Before
  <2> QED BY <1>3, <1>12, <2>1
<1>13. ASSUME NEW b \in S, ix[b] > p PROVE Before(tl, n, b)
  <2>1. ix[b] \in 0..L-1 /\ ix[b] \in Nat
    BY <1>1
  <2>2. CASE ix[b] = p + 1
    <3>1. ~Before(tl, b, n) /\ b # n
      BY <1>12, <2>2
    <3> QED BY <1>7, <3>1, BeforeIsOrder
  <2>3. CASE ix[b] # p + 1
    <3> DEFINE c == At(tl, p + 1)
    <3>1. p + 1 \in 0..L-1 /\ p + 1 < ix[b] /\ ix[n] < p + 1
      BY <1>1, <1>11, <1>13, <2>1, <2>3
    <3>2. c \in K /\ ix[c] = p + 1
      BY <1>1, <3>1
    <3> HIDE DEF c
    <3>3. c \in S
      BY <1>8, <3>1, <3>2
    <3>4. ~Before(tl, c, n) /\ c # n
      BY <1>12, <3>2, <3>3
    <3>5. Before(tl, n, c)
      BY <1>7, <3>2, <3>4, BeforeIsOrder
    <3>6. Before(tl, c, b)
      BY <1>10, <3>1, <3>2, <3>3
    <3> QED BY <1>7, <3>2, <3>5, <3>6, BeforeIsOrder
  <2> QED BY <2>2, <2>3
<1>14. ASSUME NEW a \in S \union {n}, NEW b \in S \union {n}, jx[a] < jx[b]
       PROVE  Before(tl, a, b)
  <2>1. CASE a # n /\ b # n
    BY <1>4, <1>10, <1>14, <2>1
  <2>2. CASE a # n /\ b = n
    <3>1. a \in S /\ a \in K \ {n} /\ ix[a] <= p
      BY <1>4, <1>14, <2>2
    <3>2. ix[a] \in Nat /\ ix[a] # ix[n]
      BY <1>1, <3>1
    <3>3. CASE ix[a] < ix[n]
      BY <1>9, <2>2, <3>1, <3>3
    <3>4. CASE ~(ix[a] < ix[n])
      <4>1. ix[a] \in ix[n]+1..p
        BY <1>11, <3>1, <3>2, <3>4
      <4> QED BY <1>3, <2>2, <3>1, <4>1
    <3> QED BY <3>3, <3>4
  <2>3. CASE a = n /\ b # n
    <3>1. b \in S /\ b \in K \ {n} /\ jx[b] \in Nat /\ jx[n] \in Nat /\ ix[b] \in Nat
      BY <1>1, <1>5, <2>3
    <3>2. ~(jx[b] < jx[n])
      BY <1>14, <2>3, <3>1
    <3>3. ix[b] > p
      BY <1>4, <1>11, <3>1, <3>2
    <3> QED BY <1>13, <2>3, <3>1, <3>3
  <2>4. CASE a = n /\ b = n
    <3>1. jx[n] \in Nat /\ jx[n] < jx[n]
      BY <1>5, <1>14, <2>4
    <3> QED BY <3>1
  <2> QED BY <2>1, <2>2, <2>3, <2>4
<1>15. SortedOn(u, S \union {n})
  BY <1>6, <1>14 DEF SortedOn, jx
<1> QED BY <1>15 DEF u

(* Sorted places go up, and none is left out.                              *)
LEMMA KeysRise ==
  ASSUME NEW P \in SUBSET Nat, IsFiniteSet(P)
  PROVE  /\ Cardinality(P) \in Nat
         /\ \A i \in 1..Cardinality(P) : KeyAt(P, i) \in P
         /\ \A i, j \in 1..Cardinality(P) : i < j => KeyAt(P, i) < KeyAt(P, j)
         /\ \A k \in P : \E i \in 1..Cardinality(P) : KeyAt(P, i) = k
<1>1. Cardinality(P) \in Nat
  BY FS_CardinalityType
<1>2. \A i \in 1..Cardinality(P) : KeyAt(P, i) \in P /\ KeyIndex(P, KeyAt(P, i)) = i
  BY KeyAtIndex
<1>3. \A k \in P : \E i \in 1..Cardinality(P) : KeyAt(P, i) = k
  BY KeysSorted DEF Keys
<1>4. ASSUME NEW i \in 1..Cardinality(P), NEW j \in 1..Cardinality(P), i < j
      PROVE  KeyAt(P, i) < KeyAt(P, j)
  <2> DEFINE x == KeyAt(P, i)  y == KeyAt(P, j)
  <2>1. x \in P /\ y \in P /\ KeyIndex(P, x) = i /\ KeyIndex(P, y) = j
    BY <1>2
  <2> HIDE DEF x, y
  <2>2. x \in Nat /\ y \in Nat /\ i \in Nat /\ j \in Nat
    BY <1>1, <2>1
  <2>3. x # y
    BY <1>4, <2>1, <2>2
  <2>4. y < x => KeyIndex(P, y) < KeyIndex(P, x)
    BY <2>1, IndexGrows
  <2>5. x < y
    BY <1>4, <2>1, <2>2, <2>3, <2>4
  <2> QED BY <2>5 DEF x, y
<1> QED BY <1>1, <1>2, <1>3, <1>4

(* A sequence read from its end.                                           *)
LEMMA ReversedIs ==
  ASSUME NEW m \in Nat, NEW f, NEW S, f \in [1..m -> S]
  PROVE  /\ Len(Reverse(f)) = m
         /\ \A i \in 1..m : Reverse(f)[i] = f[m - i + 1]
<1>1. f \in Seq(S) /\ Len(f) = m
  OBVIOUS
<1>2. Reverse(f) = [i \in 1..m |-> f[m - i + 1]]
  BY <1>1, Zenon DEF Reverse
<1>3. \A i \in 1..m : m - i + 1 \in 1..m
  OBVIOUS
<1>4. \A i \in 1..m : f[m - i + 1] \in S
  BY <1>3
<1>5. [i \in 1..m |-> f[m - i + 1]] \in [1..m -> S]
  BY <1>4
<1>6. Len([i \in 1..m |-> f[m - i + 1]]) = m
  OBVIOUS
<1> QED BY <1>2, <1>6

(* The nodes of a set, those that are latest in the array first.           *)
IsLatestFirst(seq, ix, V) ==
  /\ Len(seq) \in Nat
  /\ \A i \in 1..Len(seq) : seq[i] \in V
  /\ \A i, j \in 1..Len(seq) : i < j => ix[seq[j]] < ix[seq[i]]
  /\ \A v \in V : \E i \in 1..Len(seq) : seq[i] = v

(* The visited nodes, as add_edge_to_the_past goes through them.           *)
LEMMA LatestFirstIs ==
  ASSUME NEW K, NEW tl, IsArray(tl, K), NEW V \in SUBSET K, IsFiniteSet(V)
  PROVE  IsLatestFirst(LatestFirst(tl, V), tl.indx, V)
<1> DEFINE ix == tl.indx
           P == {ix[m] + 1 : m \in V}
           c == Cardinality(P)
           f == [i \in 1..c |-> tl.linear[KeyAt(P, i)]]
           seq == LatestFirst(tl, V)
<1>1. /\ \A m \in K : ix[m] \in Nat
      /\ \A m \in K : tl.linear[ix[m] + 1] = m
  BY Placed DEF At
<1>2. P \in SUBSET Nat
  BY <1>1
<1>3. IsFiniteSet(P)
  <2>1. Len(tl.linear) \in Nat /\ \A m \in K : ix[m] + 1 \in 1..Len(tl.linear)
    BY Placed
  <2>2. P \in SUBSET (1..Len(tl.linear))
    BY <2>1
  <2>3. IsFiniteSet(1..Len(tl.linear))
    BY <2>1, FS_Interval
  <2> QED BY <2>2, <2>3, FS_Subset
<1> HIDE DEF P
<1>4. /\ c \in Nat
      /\ \A i \in 1..c : KeyAt(P, i) \in P
      /\ \A i, j \in 1..c : i < j => KeyAt(P, i) < KeyAt(P, j)
      /\ \A k \in P : \E i \in 1..c : KeyAt(P, i) = k
  BY <1>2, <1>3, KeysRise
<1>5. seq = Reverse(f)
  BY Zenon DEF LatestFirst, InOrder, P
<1> HIDE DEF c, seq
<1>6. \A i \in 1..c : f[i] \in V /\ ix[f[i]] + 1 = KeyAt(P, i)
  <2> TAKE i \in 1..c
  <2>1. PICK m \in V : KeyAt(P, i) = ix[m] + 1
    BY <1>4 DEF P
  <2>2. f[i] = m
    BY <1>1, <2>1
  <2> QED BY <2>1, <2>2
<1>7. f \in [1..c -> V]
  BY <1>6
<1> HIDE DEF f
<1>8. Len(seq) = c /\ \A i \in 1..c : seq[i] = f[c - i + 1]
  BY <1>4, <1>5, <1>7, ReversedIs
<1>9. \A i \in 1..c : c - i + 1 \in 1..c
  BY <1>4
<1>10. \A i \in 1..c : seq[i] \in V
  BY <1>6, <1>8, <1>9
<1>11. ASSUME NEW i \in 1..c, NEW j \in 1..c, i < j
       PROVE  ix[seq[j]] < ix[seq[i]]
  <2> DEFINE a == c - i + 1  b == c - j + 1
  <2>1. a \in 1..c /\ b \in 1..c /\ b < a
    BY <1>4, <1>11
  <2>2. seq[i] = f[a] /\ seq[j] = f[b]
    BY <1>8
  <2> HIDE DEF a, b
  <2>3. KeyAt(P, b) < KeyAt(P, a) /\ ix[f[a]] + 1 = KeyAt(P, a) /\ ix[f[b]] + 1 = KeyAt(P, b)
    BY <1>4, <1>6, <2>1
  <2>4. ix[f[a]] \in Nat /\ ix[f[b]] \in Nat
    BY <1>1, <1>6, <2>1
  <2> QED BY <2>2, <2>3, <2>4
<1>12. ASSUME NEW v \in V PROVE \E i \in 1..c : seq[i] = v
  <2>1. ix[v] + 1 \in P
    BY DEF P
  <2>2. PICK k \in 1..c : KeyAt(P, k) = ix[v] + 1
    BY <1>4, <2>1
  <2>3. ix[f[k]] + 1 = ix[v] + 1 /\ f[k] \in V
    BY <1>6, <2>2
  <2>4. f[k] = v
    BY <1>1, <2>3
  <2>5. c - k + 1 \in 1..c /\ c - (c - k + 1) + 1 = k
    BY <1>4
  <2>6. seq[c - k + 1] = v
    BY <1>8, <2>4, <2>5
  <2> QED BY <2>5, <2>6
<1> QED BY <1>4, <1>8, <1>10, <1>11, <1>12 DEF seq, IsLatestFirst

-----------------------------------------------------------------------------
(***************************************************************************)
(* Several nodes rise, the latest first.                                   *)
(***************************************************************************)
(* The recursion of Risen, unrolled.                                       *)
LEMMA RisenSteps ==
  ASSUME NEW tl, NEW nodes, Len(nodes) \in Nat
  PROVE  \E risen :
           /\ Risen(tl, nodes) = risen[Len(nodes)] /\ risen[0] = tl
           /\ \A i \in 1..Len(nodes) : risen[i] = Rise(risen[i-1], nodes[i])
<1> DEFINE n == Len(nodes)
           F(h) == [i \in 0..n |-> IF i = 0 THEN tl ELSE Rise(h[i-1], nodes[i])]
           Steps(k, h) == h[0] = tl /\ \A i \in 1..k : h[i] = Rise(h[i-1], nodes[i])
           T == {k \in 0..n : ~ \E h : Steps(k, h)}
<1>1. Risen(tl, nodes) = (CHOOSE h : h = F(h))[n]
  BY DEF Risen
<1>2. n \in Nat
  OBVIOUS
<1> HIDE DEF n
<1>3. T = {}
  <2> SUFFICES ASSUME T # {} PROVE FALSE
    OBVIOUS
  <2>1. T \in SUBSET Nat
    BY <1>2
  <2>2. PICK k \in T : \A j \in T : k <= j
    <3> HIDE DEF T
    <3> QED BY <2>1, LeastNat
  <2>3. k \in 0..n /\ ~ \E h : Steps(k, h)
    BY <2>2
  <2>4. k # 0
    <3> DEFINE h == [i \in {0} |-> tl]
    <3>1. Steps(0, h)
      OBVIOUS
    <3> QED BY <3>1, <2>3
  <2>5. k-1 \in 0..n /\ ~(k <= k-1)
    BY <1>2, <2>3, <2>4
  <2>6. PICK h : Steps(k-1, h)
    BY <2>2, <2>5
  <2> DEFINE g == [i \in 0..k |-> IF i = k THEN Rise(h[k-1], nodes[k]) ELSE h[i]]
  <2>7. g[0] = tl /\ g[k] = Rise(h[k-1], nodes[k]) /\ \A i \in 0..k-1 : g[i] = h[i]
    BY <2>3, <2>4, <2>6
  <2> HIDE DEF g
  <2>8. \A i \in 1..k : g[i] = Rise(g[i-1], nodes[i])
    <3> TAKE i \in 1..k
    <3>1. i - 1 \in 0..k-1 /\ (i # k => i \in 1..k-1 /\ i \in 0..k-1)
      BY <2>3
    <3> QED BY <3>1, <2>6, <2>7
  <2>9. Steps(k, g)
    BY <2>7, <2>8
  <2> QED BY <2>3, <2>9
<1>4. PICK h : Steps(n, h)
  <2>1. n \in 0..n
    BY <1>2
  <2> HIDE DEF Steps
  <2> QED BY <2>1, <1>3, Zenon
<1> DEFINE h2 == [i \in 0..n |-> h[i]]
<1>5. h2 = F(h2)
  <2>1. ASSUME NEW i \in 0..n PROVE h[i] = IF i = 0 THEN tl ELSE Rise(h2[i-1], nodes[i])
    <3>1. i # 0 => i \in 1..n /\ i - 1 \in 0..n
      BY <1>2
    <3> QED BY <3>1, <1>4
  <2> QED BY <2>1
<1> DEFINE g == CHOOSE f : f = F(f)
<1>6. g = F(g)
  <2> HIDE DEF h2, F
  <2> QED BY <1>5
<1> HIDE DEF g
<1>7. g[0] = tl /\ \A i \in 1..n : g[i] = Rise(g[i-1], nodes[i])
  BY <1>2, <1>6
<1> QED BY <1>1, <1>7 DEF n, g

(* A rise changes nothing but the place of one node.                       *)
LEMMA RiseKeeps ==
  ASSUME NEW K, NEW tl, HasFields(tl, K), IsArray(tl, K), NEW n \in K
  PROVE  Kept(Rise(tl, n), tl, K) /\ Rise(tl, n).rank = tl.rank
BY RiseIs

(* One node is the latest of itself. *)
LEMMA RisenOne ==
  ASSUME NEW K, NEW tl, IsArray(tl, K), NEW n \in K
  PROVE  Risen(tl, LatestFirst(tl, {n})) = Rise(tl, n)
<1> DEFINE seq == LatestFirst(tl, {n})
<1>1. {n} \in SUBSET K /\ IsFiniteSet({n})
  BY FS_Singleton
<1>2. /\ Len(seq) \in Nat
      /\ \A i \in 1..Len(seq) : seq[i] \in {n}
      /\ \A i, j \in 1..Len(seq) : i < j => tl.indx[seq[j]] < tl.indx[seq[i]]
      /\ \A v \in {n} : \E i \in 1..Len(seq) : seq[i] = v
  <2>1. IsLatestFirst(seq, tl.indx, {n})
    BY <1>1, LatestFirstIs
  <2> QED BY <2>1 DEF IsLatestFirst
<1> HIDE DEF seq
<1>3. tl.indx[n] \in Nat
  BY Placed
<1>4. Len(seq) = 1
  <2>1. Len(seq) # 0
    BY <1>2
  <2>2. ASSUME Len(seq) > 1 PROVE FALSE
    <3>1. 1 \in 1..Len(seq) /\ 2 \in 1..Len(seq) /\ 1 < 2
      BY <1>2, <2>2
    <3>2. tl.indx[seq[2]] < tl.indx[seq[1]] /\ seq[1] = n /\ seq[2] = n
      BY <1>2, <3>1
    <3> QED BY <1>3, <3>2
  <2> DEFINE l == Len(seq)
  <2>3. l \in Nat /\ l # 0 /\ ~(l > 1)
    BY <1>2, <2>1, <2>2
  <2> HIDE DEF l
  <2>4. l = 1
    BY <2>3
  <2> QED BY <2>4 DEF l
<1>5. PICK r : /\ Risen(tl, seq) = r[Len(seq)] /\ r[0] = tl
               /\ \A i \in 1..Len(seq) : r[i] = Rise(r[i-1], seq[i])
  BY <1>2, RisenSteps
<1>6. 1 \in 1..Len(seq) /\ 1 - 1 = 0
  BY <1>4
<1>7. r[1] = Rise(r[1-1], seq[1]) /\ seq[1] = n
  BY <1>2, <1>5, <1>6
<1>8. Risen(tl, seq) = Rise(tl, n)
  BY <1>4, <1>5, <1>6, <1>7
<1> QED BY <1>8 DEF seq

(* Those that are not sorted yet rise, the latest first: then all are.     *)
LEMMA RisenSorts ==
  ASSUME NEW K \in SUBSET Nat, NEW tl, HasFields(tl, K), IsArray(tl, K),
         NEW V \in SUBSET K, IsFiniteSet(V), SortedOn(tl, K \ V),
         \A s \in K \ V, v \in V : tl.indx[s] < tl.indx[v] => Before(tl, s, v)
  PROVE  LET u == Risen(tl, LatestFirst(tl, V)) IN
         Kept(u, tl, K) /\ u.rank = tl.rank /\ SortedOn(u, K)
<1> DEFINE seq == LatestFirst(tl, V)
           u == Risen(tl, seq)
           k == Len(seq)
           ix == tl.indx
           done(i) == {seq[j] : j \in 1..i}
<1>1. /\ k \in Nat
      /\ \A i \in 1..k : seq[i] \in V
      /\ \A i, j \in 1..k : i < j => ix[seq[j]] < ix[seq[i]]
      /\ \A v \in V : \E i \in 1..k : seq[i] = v
  <2>1. IsLatestFirst(seq, ix, V)
    BY LatestFirstIs
  <2> QED BY <2>1 DEF IsLatestFirst
<1>2. PICK r : /\ u = r[k] /\ r[0] = tl
               /\ \A i \in 1..k : r[i] = Rise(r[i-1], seq[i])
  <2> HIDE DEF seq
  <2> QED BY <1>1, RisenSteps
<1>3. \A m \in K : ix[m] \in Nat
  BY Placed
<1>4. \A a, b \in K : ix[a] = ix[b] => a = b
  BY Placed
<1> HIDE DEF seq, u, k
<1> DEFINE J(i) == /\ Kept(r[i], tl, K) /\ r[i].rank = tl.rank
                   /\ SortedOn(r[i], (K \ V) \union done(i))
                   /\ \A v \in V \ done(i) : \A a \in K \ {v} :
                        r[i].indx[a] < r[i].indx[v] <=> ix[a] < ix[v]
           T == {i \in 0..k : ~J(i)}
<1>5. J(0)
  <2>1. done(0) = {} /\ (K \ V) \union {} = K \ V
    OBVIOUS
  <2>2. SortedOn(r[0], (K \ V) \union done(0))
    BY <1>2, <2>1
  <2> QED BY <1>2, <2>2, KeptAlways
<1>6. ASSUME NEW i \in 1..k, J(i-1) PROVE J(i)
  <2> DEFINE w == r[i-1]
             n == seq[i]
             S == (K \ V) \union done(i-1)
             wx == w.indx
             jx == r[i].indx
             L == Len(w.linear)
  <2>1. /\ r[i] = Rise(w, n) /\ n \in V /\ n \in K
        /\ Kept(w, tl, K) /\ w.rank = tl.rank /\ SortedOn(w, S)
        /\ \A v \in V \ done(i-1) : \A a \in K \ {v} : wx[a] < wx[v] <=> ix[a] < ix[v]
    BY <1>1, <1>2, <1>6
  <2>2. HasFields(w, K) /\ IsArray(w, K)
    BY <2>1 DEF Kept
  <2>3. \A j \in 1..i-1 : j \in 1..k /\ j < i
    BY <1>1
  <2>4. n \notin done(i-1)
    <3>1. ASSUME NEW j \in 1..i-1, seq[j] = n PROVE FALSE
      <4>1. ix[seq[i]] < ix[seq[j]] /\ ix[n] \in Nat
        BY <1>1, <1>3, <2>1, <2>3
      <4> QED BY <3>1, <4>1
    <3> QED BY <3>1
  <2>5. done(i) = done(i-1) \union {n}
    <3>1. 1..i = 1..i-1 \union {i}
      BY <1>1
    <3> QED BY <3>1
  <2>6. done(i-1) \in SUBSET V
    BY <1>1, <2>3
  <2>7. \A v \in V \ done(i-1) : v # n => ix[v] < ix[n]
    <3> SUFFICES ASSUME NEW v \in V \ done(i-1), v # n PROVE ix[v] < ix[n]
      OBVIOUS
    <3>1. PICK j \in 1..k : seq[j] = v
      BY <1>1
    <3>2. j \notin 1..i-1 /\ j # i
      BY <3>1
    <3>3. i < j
      BY <1>1, <3>2
    <3> QED BY <1>1, <3>1, <3>3
  <2>8. \A m \in K : wx[m] \in Nat
    BY <2>2, Placed
  <2>9. \A a, b \in K : wx[a] = wx[b] => a = b
    BY <2>2, Placed
  <2> HIDE DEF S, done, wx, w, n, jx, L
  <2>10. n \in V \ done(i-1) /\ n \in K \ S /\ S \in SUBSET K
    BY <2>1, <2>4, <2>6 DEF S
  <2>11. ASSUME NEW m \in K, wx[n] < wx[m] PROVE m \in S
    <3>1. wx[m] \in Nat /\ wx[n] \in Nat /\ ix[m] \in Nat /\ ix[n] \in Nat
      BY <1>3, <2>1, <2>8
    <3>2. m # n /\ ~(wx[m] < wx[n])
      BY <2>11, <3>1
    <3>3. ~(ix[m] < ix[n])
      BY <2>1, <2>10, <3>2
    <3>4. m \notin V \ done(i-1)
      BY <2>7, <3>2, <3>3
    <3> QED BY <3>4 DEF S
  <2>12. ASSUME NEW m \in S, wx[m] < wx[n] PROVE Before(w, m, n)
    <3>1. m \in K /\ m # n
      BY <2>10
    <3>2. ix[m] < ix[n]
      BY <2>1, <2>10, <2>12, <3>1
    <3>3. m \notin done(i-1)
      <4>1. ASSUME NEW j \in 1..i-1, m = seq[j] PROVE FALSE
        <5>1. ix[n] < ix[m] /\ ix[n] \in Nat /\ ix[m] \in Nat
          BY <1>1, <1>3, <2>1, <2>3, <3>1, <4>1 DEF n
        <5> QED BY <3>2, <5>1
      <4> QED BY <4>1 DEF done
    <3>4. Before(tl, m, n)
      BY <2>10, <3>2, <3>3 DEF S
    <3> QED BY <2>1, <3>4 DEF Before
  <2>13. SortedOn(Rise(w, n), S \union {n})
    BY <2>1, <2>2, <2>10, <2>11, <2>12, RiseSorts DEF wx
  <2>14. SortedOn(r[i], (K \ V) \union done(i))
    <3>1. (K \ V) \union done(i) = S \union {n}
      BY <2>5 DEF S
    <3> QED BY <2>1, <2>13, <3>1
  <2>15. Kept(r[i], w, K) /\ r[i].rank = w.rank
    BY <2>1, <2>2, RiseKeeps
  <2>16. Kept(r[i], tl, K) /\ r[i].rank = tl.rank
    BY <2>1, <2>15, KeptTwice
  <2>17. \E p \in wx[n]..L-1 : Passes(Rise(w, n), w, K, n, p)
    <3>1. \E p \in w.indx[n]..Len(w.linear)-1 : Passes(Rise(w, n), w, K, n, p)
      BY <2>1, <2>2, RiseIs
    <3> QED BY <3>1 DEF wx, L
  <2>18. PICK p \in wx[n]..L-1 : Passes(Rise(w, n), w, K, n, p)
    BY <2>17
  <2>19. /\ \A a, b \in K \ {n} : jx[a] < jx[b] <=> wx[a] < wx[b]
         /\ \A a \in K \ {n} : jx[a] < jx[n] <=> wx[a] <= p
    BY <2>1, <2>18 DEF Passes, jx, wx
  <2>20. \A m \in K : jx[m] \in Nat
    BY <2>16, Placed DEF Kept, jx
  <2>21. ASSUME NEW v \in V \ done(i), NEW a \in K \ {v}
         PROVE  jx[a] < jx[v] <=> ix[a] < ix[v]
    <3>1. v \in V \ done(i-1) /\ v # n /\ v \in K \ {n}
      BY <2>5
    <3>2. ix[v] < ix[n]
      BY <2>7, <3>1
    <3>3. CASE a # n
      <4>1. a \in K \ {n}
        BY <3>3
      <4> QED BY <2>1, <2>19, <3>1, <4>1
    <3>4. CASE a = n
      <4>1. wx[v] < wx[n]
        BY <2>1, <2>10, <3>1, <3>2
      <4>2. wx[v] \in Nat /\ wx[n] \in Nat /\ ix[v] \in Nat /\ ix[n] \in Nat
            /\ jx[v] \in Nat /\ jx[n] \in Nat
        BY <1>3, <2>1, <2>8, <2>20, <3>1
      <4>3. wx[v] <= p
        BY <2>18, <4>1, <4>2
      <4>4. jx[v] < jx[n]
        BY <2>19, <3>1, <4>3
      <4> QED BY <3>2, <3>4, <4>2, <4>4
    <3> QED BY <3>3, <3>4
  <2> QED BY <2>14, <2>16, <2>21 DEF jx
<1>7. T = {}
  <2> HIDE DEF J
  <2> SUFFICES ASSUME T # {} PROVE FALSE
    OBVIOUS
  <2>1. T \in SUBSET Nat
    BY <1>1
  <2>2. PICK i \in T : \A j \in T : i <= j
    <3> HIDE DEF T
    <3> QED BY <2>1, LeastNat
  <2>3. i # 0
    BY <1>5, <2>2
  <2>4. i \in 1..k /\ i-1 \in 0..k /\ ~(i <= i-1)
    BY <1>1, <2>2, <2>3
  <2>5. J(i-1)
    BY <2>2, <2>4
  <2> QED BY <1>6, <2>2, <2>4, <2>5
<1>8. J(k)
  <2>1. k \in 0..k
    BY <1>1
  <2> HIDE DEF J
  <2> QED BY <1>7, <2>1, Zenon
<1>9. V \subseteq done(k)
  BY <1>1
<1>10. \A a \in K : a \in (K \ V) \union done(k)
  BY <1>9
<1>11. SortedOn(u, K)
  <2> HIDE DEF done
  <2>1. SortedOn(u, (K \ V) \union done(k))
    BY <1>2, <1>8
  <2> QED BY <1>10, <2>1 DEF SortedOn
<1>12. Kept(u, tl, K) /\ u.rank = tl.rank
  BY <1>2, <1>8
<1> QED BY <1>11, <1>12 DEF u, seq

-----------------------------------------------------------------------------
(***************************************************************************)
(* Depth: the lengths of the chains of causes.  There are no cycles, so    *)
(* the recursion defines a function.                                       *)
(***************************************************************************)
CausesIn(K, n) == after[n] \cap K
IsDepth(d, K) ==
  /\ d \in [K -> Nat]
  /\ \A n \in K : \A c \in CausesIn(K, n) : d[c] < d[n]
  /\ \A n \in K : d[n] = 0 \/ \E c \in CausesIn(K, n) : d[n] = d[c] + 1
  /\ \E bound \in Nat : \A n \in K : d[n] <= bound
Height(d, K, n) == Max({0} \union {d[c] + 1 : c \in CausesIn(K, n)})

(* Some posts of any are before the others. *)
LEMMA FirstOne ==
  ASSUME after \in Graphs, NEW S \in SUBSET DOMAIN after, S # {}
  PROVE  \E n \in S : after[n] \cap S = {}
<1>1. Acyclic(after)
  BY TimelineAssumption
<1> QED BY <1>1 DEF Acyclic

(* One more than the largest depth of a known cause.                       *)
LEMMA HeightIs ==
  ASSUME NEW K, NEW d, NEW n, NEW bound \in Nat,
         \A c \in CausesIn(K, n) : d[c] \in Nat /\ d[c] <= bound
  PROVE  /\ Height(d, K, n) \in Nat /\ Height(d, K, n) <= bound + 1
         /\ \A c \in CausesIn(K, n) : d[c] < Height(d, K, n)
         /\ \/ Height(d, K, n) = 0
            \/ \E c \in CausesIn(K, n) : Height(d, K, n) = d[c] + 1
<1> DEFINE T == {0} \union {d[c] + 1 : c \in CausesIn(K, n)}
           h == Max(T)
<1>1. T \in SUBSET Nat /\ T # {} /\ bound + 1 \in Nat /\ \A x \in T : x <= bound + 1
  <2>1. \A c \in CausesIn(K, n) : d[c] + 1 \in Nat /\ d[c] + 1 <= bound + 1
    OBVIOUS
  <2> QED BY <2>1
<1>2. h \in T /\ \A x \in T : x <= h
  <2> HIDE DEF T
  <2> QED BY <1>1, MaxIs
<1>3. Height(d, K, n) = h
  BY Zenon DEF Height
<1> HIDE DEF h
<1>4. h \in Nat /\ h <= bound + 1
  <2> HIDE DEF T
  <2> QED BY <1>1, <1>2
<1>5. \A c \in CausesIn(K, n) : d[c] < h
  <2> TAKE c \in CausesIn(K, n)
  <2>1. d[c] + 1 \in T /\ d[c] \in Nat
    OBVIOUS
  <2>2. d[c] + 1 <= h
    BY <1>2, <2>1
  <2> QED BY <1>4, <2>1, <2>2
<1>6. h = 0 \/ \E c \in CausesIn(K, n) : h = d[c] + 1
  BY <1>2
<1> QED BY <1>3, <1>4, <1>5, <1>6

(* Depths can be given to any finite set of posts, causes first.           *)
LEMMA DepthExists ==
  ASSUME after \in Graphs, NEW K \in SUBSET DOMAIN after, IsFiniteSet(K)
  PROVE  \E d \in [K -> Nat] :
           /\ \E bound \in Nat : \A n \in K : d[n] <= bound
           /\ \A n \in K : d[n] = Height(d, K, n)
<1> DEFINE Good(S) ==
             /\ S \in SUBSET K
             /\ \A n \in S : CausesIn(K, n) \subseteq S
             /\ \E d \in [S -> Nat] :
                  /\ \E bound \in Nat : \A n \in S : d[n] <= bound
                  /\ \A n \in S : d[n] = Height(d, K, n)
           T == {Cardinality(K \ S) : S \in {s \in SUBSET K : Good(s)}}
<1>1. Good({})
  <2> DEFINE d == [n \in {} |-> 0]
  <2>1. d \in [{} -> Nat] /\ 0 \in Nat
    OBVIOUS
  <2> QED BY <2>1
<1>2. \A S \in SUBSET K : IsFiniteSet(K \ S) /\ Cardinality(K \ S) \in Nat
  <2> TAKE S \in SUBSET K
  <2>1. IsFiniteSet(K \ S)
    BY FS_Subset
  <2> QED BY <2>1, FS_CardinalityType
<1> HIDE DEF Good
<1>3. T \in SUBSET Nat /\ T # {}
  BY <1>1, <1>2
<1>4. PICK x \in T : \A y \in T : x <= y
  <2> HIDE DEF T
  <2> QED BY <1>3, LeastNat
<1>5. PICK S \in SUBSET K : Good(S) /\ x = Cardinality(K \ S)
  BY <1>4
<1>6. K \ S = {}
  <2> SUFFICES ASSUME K \ S # {} PROVE FALSE
    OBVIOUS
  <2>1. K \ S \in SUBSET DOMAIN after
    OBVIOUS
  <2>2. PICK n \in K \ S : after[n] \cap (K \ S) = {}
    BY <2>1, FirstOne
  <2> DEFINE R == S \union {n}
  <2>3. CausesIn(K, n) \subseteq S
    BY <2>2 DEF CausesIn
  <2>4. \A m \in S : CausesIn(K, m) \subseteq S
    BY <1>5 DEF Good
  <2>5. PICK d \in [S -> Nat] :
          /\ \E bound \in Nat : \A m \in S : d[m] <= bound
          /\ \A m \in S : d[m] = Height(d, K, m)
    BY <1>5 DEF Good
  <2>6. PICK bound \in Nat : \A m \in S : d[m] <= bound
    BY <2>5
  <2> DEFINE h == Height(d, K, n)
  <2>7. h \in Nat /\ h <= bound + 1
    <3>1. \A c \in CausesIn(K, n) : d[c] \in Nat /\ d[c] <= bound
      BY <2>3, <2>6
    <3> QED BY <3>1, HeightIs
  <2> HIDE DEF h
  <2> DEFINE g == [m \in R |-> IF m = n THEN h ELSE d[m]]
  <2>8. g \in [R -> Nat] /\ g[n] = h /\ \A m \in S : g[m] = d[m]
    BY <2>7
  <2> HIDE DEF g
  <2>9. \A m \in R : g[m] <= bound + 1
    <3>1. \A m \in S : d[m] \in Nat /\ d[m] <= bound
      BY <2>6
    <3> QED BY <2>7, <2>8, <3>1
  <2>10. ASSUME NEW m \in R PROVE g[m] = Height(g, K, m)
    <3>1. CausesIn(K, m) \subseteq S
      BY <2>3, <2>4
    <3>2. {g[c] + 1 : c \in CausesIn(K, m)} = {d[c] + 1 : c \in CausesIn(K, m)}
      BY <2>8, <3>1
    <3>3. Height(g, K, m) = Height(d, K, m)
      BY <3>2, Zenon DEF Height
    <3> QED BY <2>5, <2>8, <3>3 DEF h
  <2>11. R \in SUBSET K /\ \A m \in R : CausesIn(K, m) \subseteq R
    BY <2>3, <2>4
  <2>12. bound + 1 \in Nat
    OBVIOUS
  <2>13. Good(R)
    <3> HIDE DEF R
    <3> QED BY <2>8, <2>9, <2>10, <2>11, <2>12 DEF Good
  <2>14. Cardinality(K \ R) \in T
    <3> HIDE DEF R
    <3> QED BY <2>11, <2>13
  <2>15. Cardinality(K \ R) = Cardinality(K \ S) - 1
    <3>1. K \ R = (K \ S) \ {n}
      OBVIOUS
    <3> DEFINE W == K \ S
    <3>2. IsFiniteSet(W) /\ n \in W
      BY <1>2
    <3> HIDE DEF W
    <3>3. Cardinality(W \ {n}) = Cardinality(W) - 1
      BY <3>2, FS_RemoveElement
    <3> QED BY <3>1, <3>3 DEF W
  <2>16. Cardinality(K \ S) \in Nat /\ x <= Cardinality(K \ R)
    BY <1>2, <1>4, <2>14
  <2> QED BY <1>5, <2>15, <2>16
<1>7. S = K
  BY <1>6
<1> QED BY <1>5, <1>7 DEF Good

(* Depth, which is defined by recursion, is such a function.               *)
LEMMA DepthIs ==
  ASSUME after \in Graphs, NEW K \in SUBSET DOMAIN after, IsFiniteSet(K)
  PROVE  IsDepth(Depth(K), K)
<1> DEFINE F(f) == [n \in K |-> Max({0} \union {f[c] + 1 : c \in after[n] \cap K})]
           e == CHOOSE f : f = F(f)
<1>1. PICK d \in [K -> Nat] : /\ \E bound \in Nat : \A n \in K : d[n] <= bound
                              /\ \A n \in K : d[n] = Height(d, K, n)
  BY DepthExists
<1>2. PICK bound \in Nat : \A n \in K : d[n] <= bound
  BY <1>1
<1>3. \A f : F(f) = [n \in K |-> Height(f, K, n)]
  BY DEF Height, CausesIn
<1>4. d = F(d)
  <2> HIDE DEF F
  <2>1. d = [n \in K |-> d[n]]
    OBVIOUS
  <2>2. [n \in K |-> d[n]] = [n \in K |-> Height(d, K, n)]
    BY <1>1
  <2> QED BY <1>3, <2>1, <2>2, Zenon
<1>5. e = F(e)
  <2> HIDE DEF F
  <2> QED BY <1>4, Zenon
<1>6. Depth(K) = e
  BY Zenon DEF Depth, Depths
<1> HIDE DEF e, F
<1>7. \A n \in K : e[n] = Height(e, K, n)
  <2>1. e = [n \in K |-> Height(e, K, n)]
    BY <1>3, <1>5, Zenon
  <2> QED BY <2>1
<1>8. DOMAIN e = K /\ e = [n \in K |-> e[n]]
  <2>1. e = [n \in K |-> Height(e, K, n)]
    BY <1>3, <1>5, Zenon
  <2> QED BY <2>1
<1> DEFINE S == {n \in K : e[n] # d[n]}
<1>9. S = {}
  <2> SUFFICES ASSUME S # {} PROVE FALSE
    OBVIOUS
  <2>1. PICK n \in S : after[n] \cap S = {}
    <3>1. S \in SUBSET DOMAIN after
      OBVIOUS
    <3> HIDE DEF S
    <3> QED BY <3>1, FirstOne
  <2>2. \A c \in CausesIn(K, n) : e[c] = d[c]
    BY <2>1 DEF CausesIn
  <2>3. {e[c] + 1 : c \in CausesIn(K, n)} = {d[c] + 1 : c \in CausesIn(K, n)}
    BY <2>2
  <2>4. Height(e, K, n) = Height(d, K, n)
    BY <2>3, Zenon DEF Height
  <2> QED BY <1>1, <1>7, <2>4
<1>10. e \in [K -> Nat] /\ \A n \in K : e[n] <= bound
  BY <1>2, <1>8, <1>9
<1>11. ASSUME NEW n \in K
       PROVE  /\ \A c \in CausesIn(K, n) : e[c] < e[n]
              /\ e[n] = 0 \/ \E c \in CausesIn(K, n) : e[n] = e[c] + 1
  <2>1. \A c \in CausesIn(K, n) : e[c] \in Nat /\ e[c] <= bound
    BY <1>10 DEF CausesIn
  <2>2. /\ \A c \in CausesIn(K, n) : e[c] < Height(e, K, n)
        /\ \/ Height(e, K, n) = 0
           \/ \E c \in CausesIn(K, n) : Height(e, K, n) = e[c] + 1
    BY <2>1, HeightIs
  <2> QED BY <1>7, <2>2
<1> QED BY <1>6, <1>10, <1>11 DEF IsDepth

(* Whatever grows along the causes is at least the depth.                  *)
LEMMA DepthIsLeast ==
  ASSUME after \in Graphs, NEW K \in SUBSET DOMAIN after, IsFiniteSet(K),
         NEW r, \A n \in K : r[n] \in Nat,
         \A n \in K : \A c \in CausesIn(K, n) : r[c] < r[n]
  PROVE  \A n \in K : Depth(K)[n] <= r[n]
<1> DEFINE d == Depth(K)
           S == {n \in K : ~(d[n] <= r[n])}
<1>1. IsDepth(d, K)
  BY DepthIs
<1> HIDE DEF d
<1>2. S = {}
  <2> SUFFICES ASSUME S # {} PROVE FALSE
    OBVIOUS
  <2>1. PICK n \in S : after[n] \cap S = {}
    <3>1. S \in SUBSET DOMAIN after
      OBVIOUS
    <3> HIDE DEF S
    <3> QED BY <3>1, FirstOne
  <2>2. n \in K /\ d[n] \in Nat /\ r[n] \in Nat /\ ~(d[n] <= r[n])
    BY <1>1 DEF IsDepth
  <2>3. PICK c \in CausesIn(K, n) : d[n] = d[c] + 1
    BY <1>1, <2>2 DEF IsDepth
  <2>4. c \in K /\ c \notin S
    BY <2>1, <2>3 DEF CausesIn
  <2>5. d[c] <= r[c] /\ r[c] < r[n] /\ d[c] \in Nat /\ r[c] \in Nat
    BY <1>1, <2>2, <2>3, <2>4 DEF IsDepth
  <2> QED BY <2>2, <2>3, <2>5
<1> QED BY <1>2 DEF d

(* With more posts known, no chain of causes gets shorter.                 *)
LEMMA DepthGrows ==
  ASSUME after \in Graphs, NEW K2 \in SUBSET DOMAIN after, IsFiniteSet(K2), NEW K \in SUBSET K2
  PROVE  \A n \in K : Depth(K)[n] <= Depth(K2)[n]
<1> DEFINE r == Depth(K2)
<1>1. IsDepth(r, K2) /\ IsFiniteSet(K)
  BY DepthIs, FS_Subset
<1> HIDE DEF r
<1>2. /\ \A n \in K : r[n] \in Nat
      /\ \A n \in K : \A c \in CausesIn(K, n) : r[c] < r[n]
  BY <1>1 DEF IsDepth, CausesIn
<1>3. \A n \in K : Depth(K)[n] <= r[n]
  BY <1>1, <1>2, DepthIsLeast
<1> QED BY <1>3 DEF r

-----------------------------------------------------------------------------
(***************************************************************************)
(* _visit, one step of its walk.                                           *)
(***************************************************************************)
(* A list with an element more.                                            *)
LEMMA FrontOfAppend ==
  ASSUME NEW S, NEW s \in Seq(S), NEW x \in S
  PROVE  Front(Append(s, x)) = s /\ Last(Append(s, x)) = x /\ Append(s, x) # <<>>
         /\ ToSet(Append(s, x)) = ToSet(s) \union {x} /\ Append(s, x) \in Seq(S)
         /\ Len(Append(s, x)) = Len(s) + 1
<1> DEFINE a == Append(s, x)
<1>1. /\ a \in Seq(S) /\ a # <<>> /\ Len(a) = Len(s) + 1 /\ a[Len(s)+1] = x
      /\ \A i \in 1..Len(s) : a[i] = s[i]
  BY AppendProperties
<1>2. Len(s) \in Nat /\ DOMAIN s = 1..Len(s) /\ DOMAIN a = 1..Len(a)
  BY <1>1, LenProperties
<1> HIDE DEF a
<1>3. Last(a) = x
  BY <1>1 DEF Last
<1>4. Front(a) = s
  <2> DEFINE f == Front(a)
  <2>1. Len(a) - 1 = Len(s) /\ 1 \in 1..Len(a)+1 /\ Len(s) \in 1-1..Len(a)
    BY <1>1, <1>2
  <2>2. f = SubSeq(a, 1, Len(s))
    BY <2>1, Zenon DEF Front
  <2>3. /\ f \in Seq(S) /\ Len(f) = Len(s) - 1 + 1
        /\ \A i \in 1..Len(s)-1+1 : f[i] = a[1+i-1]
    BY <1>1, <2>1, <2>2, SubSeqIs
  <2> HIDE DEF f
  <2>4. Len(f) = Len(s) /\ \A i \in 1..Len(f) : f[i] = s[i]
    BY <1>1, <1>2, <2>3
  <2>5. f = s
    BY <2>3, <2>4, SeqEqual
  <2> QED BY <2>5 DEF f
<1>5. ToSet(a) = ToSet(s) \union {x}
  <2>1. 1..Len(a) = 1..Len(s) \union {Len(s)+1}
    BY <1>1, <1>2
  <2> QED BY <1>1, <1>2, <2>1 DEF ToSet
<1> QED BY <1>1, <1>3, <1>4, <1>5 DEF a

(* A list that is not empty ends in an element.                            *)
LEMMA SeqIsAppend ==
  ASSUME NEW S, NEW s \in Seq(S), s # <<>>
  PROVE  \E l \in Seq(S), x \in S : s = Append(l, x)
BY SequenceEmptyOrAppend

(* The elements of a list.                                                 *)
LEMMA ToSetIs ==
  ASSUME NEW S, NEW s \in Seq(S)
  PROVE  ToSet(s) \in SUBSET S /\ ToSet(s) = {s[i] : i \in 1..Len(s)}
         /\ (ToSet(s) = {} <=> s = <<>>) /\ ToSet(<<>>) = {}
<1>1. Len(s) \in Nat /\ DOMAIN s = 1..Len(s) /\ \A i \in 1..Len(s) : s[i] \in S
  BY LenProperties, ElementOfSeq
<1>2. s # <<>> => 1 \in 1..Len(s)
  BY <1>1, EmptySeq
<1>3. ToSet(<<>>) = {}
  BY DEF ToSet
<1> QED BY <1>1, <1>2, <1>3 DEF ToSet

-----------------------------------------------------------------------------
Wave(rk, vis, out) == [rank |-> rk, visited |-> vis, out |-> out]

(* States of the walk are records of ranks, nodes and stacked lists.       *)
LEMMA WaveType ==
  ASSUME NEW tl, NEW K, HasFields(tl, K)
  PROVE  /\ \A rk \in [K -> Nat], vis \in SUBSET K, out \in Seq(Seq(K)) :
              Wave(rk, vis, out) \in Waves(tl)
         /\ \A v \in Waves(tl) :
              /\ v = Wave(v.rank, v.visited, v.out)
              /\ v.rank \in [K -> Nat] /\ v.visited \in SUBSET K /\ v.out \in Seq(Seq(K))
<1>1. Known(tl) = K
  BY DEF Known, HasFields
<1> QED BY <1>1 DEF Waves, Wave

(* The fields of such a record.                                            *)
LEMMA WaveFields ==
  ASSUME NEW rk, NEW vis, NEW out
  PROVE  Wave(rk, vis, out).rank = rk /\ Wave(rk, vis, out).visited = vis
         /\ Wave(rk, vis, out).out = out
BY DEF Wave

(* A list that is done is taken from the stack.                            *)
LEMMA StepOnEmpty ==
  ASSUME NEW K, NEW o \in Seq(Seq(K)), NEW rk, NEW vis, NEW succ, NEW r
  PROVE  VisitStep(Wave(rk, vis, Append(o, <<>>)), succ, r) = Wave(rk, vis, o)
<1> DEFINE out == Append(o, <<>>)  v == Wave(rk, vis, out)
<1>1. Front(out) = o /\ Last(out) = <<>>
  <2>1. <<>> \in Seq(K)
    BY EmptySeq
  <2> QED BY <2>1, FrontOfAppend
<1> HIDE DEF out
<1>3. v.out = out
  BY WaveFields
<1>2. VisitStep(v, succ, r) = [v EXCEPT !.out = Front(v.out)]
  <2> HIDE DEF v
  <2>1. Last(v.out) = <<>>
    BY <1>1, <1>3
  <2> QED BY <2>1, Zenon DEF VisitStep
<1>4. [v EXCEPT !.out = o] = Wave(rk, vis, o)
  BY DEF Wave
<1> QED BY <1>1, <1>2, <1>3, <1>4 DEF out

RaisedTo(rk, c, x) == [rk EXCEPT ![c] = x]
AfterLast(rk, vis, o, l, c, succ, r) ==
  IF rk[c] <= r + Len(o)
  THEN Wave(RaisedTo(rk, c, r + Len(o) + 1), vis \union {c}, Append(Append(o, l), succ[c]))
  ELSE Wave(rk, vis \union {c}, Append(o, l))

OnLast(K, rk, o, l, c, succ, r) ==
  /\ rk \in [K -> Nat] /\ o \in Seq(Seq(K)) /\ l \in Seq(K) /\ c \in K
  /\ succ \in [K -> Seq(K)] /\ r \in Nat

(* One node of the last list: it is raised, and its effects are next, or   *)
(* it is high enough.                                                      *)
LEMMA StepOnLast ==
  ASSUME NEW K, NEW rk, NEW vis, NEW o, NEW l, NEW c, NEW succ, NEW r,
         OnLast(K, rk, o, l, c, succ, r)
  PROVE  VisitStep(Wave(rk, vis, Append(o, Append(l, c))), succ, r) =
           AfterLast(rk, vis, o, l, c, succ, r)
<1> DEFINE top == Append(l, c)
           out == Append(o, top)
           v == Wave(rk, vis, out)
           rest == Append(o, l)
<1>0. /\ rk \in [K -> Nat] /\ o \in Seq(Seq(K)) /\ l \in Seq(K) /\ c \in K
      /\ succ \in [K -> Seq(K)] /\ r \in Nat
  BY DEF OnLast
<1>1. top \in Seq(K) /\ Front(top) = l /\ Last(top) = c /\ top # <<>>
  BY <1>0, FrontOfAppend
<1> HIDE DEF top
<1>2. Front(out) = o /\ Last(out) = top
  BY <1>0, <1>1, FrontOfAppend
<1>3. Len(rest) = Len(o) + 1 /\ Len(o) \in Nat
  BY <1>0, FrontOfAppend, LenProperties
<1> HIDE DEF out, v, rest
<1>4. v.rank = rk /\ v.visited = vis /\ v.out = out
  BY WaveFields DEF v
<1>5. Last(v.out) = top /\ Last(Last(v.out)) = c
  BY <1>1, <1>2, <1>4
<1>6. Append(Front(v.out), Front(Last(v.out))) = rest
  BY <1>1, <1>2, <1>4 DEF rest
<1>7. r + Len(rest) - 1 = r + Len(o) /\ r + Len(rest) = r + Len(o) + 1
  BY <1>0, <1>3
<1>8. VisitStep(v, succ, r) = VisitLast(v, succ, r)
  BY <1>1, <1>5 DEF VisitStep
<1>9. VisitLast(v, succ, r) =
        [rank    |-> IF rk[c] <= r + Len(rest) - 1 THEN [rk EXCEPT ![c] = r + Len(rest)] ELSE rk,
         visited |-> vis \union {c},
         out     |-> IF rk[c] <= r + Len(rest) - 1 THEN Append(rest, succ[c]) ELSE rest]
  BY <1>4, <1>5, <1>6, Zenon DEF VisitLast
<1>10. CASE rk[c] <= r + Len(o)
  BY <1>7, <1>8, <1>9, <1>10 DEF Wave, v, out, top, rest, AfterLast, RaisedTo
<1>11. CASE ~(rk[c] <= r + Len(o))
  BY <1>7, <1>8, <1>9, <1>11 DEF Wave, v, out, top, rest, AfterLast
<1> QED BY <1>10, <1>11

(* A step of the walk gives a state of the walk.                           *)
LEMMA StepOfWave ==
  ASSUME NEW tl, NEW K, HasFields(tl, K), NEW r \in Nat, NEW succ \in [K -> Seq(K)],
         NEW rk \in [K -> Nat], NEW vis \in SUBSET K, NEW out \in Seq(Seq(K)), out # <<>>
  PROVE  VisitStep(Wave(rk, vis, out), succ, r) \in Waves(tl)
<1>1. PICK o \in Seq(Seq(K)), top \in Seq(K) : out = Append(o, top)
  BY SeqIsAppend
<1>2. CASE top = <<>>
  <2>1. VisitStep(Wave(rk, vis, out), succ, r) = Wave(rk, vis, o)
    BY <1>1, <1>2, StepOnEmpty
  <2>2. Wave(rk, vis, o) \in Waves(tl)
    BY WaveType
  <2> QED BY <2>1, <2>2
<1>3. CASE top # <<>>
  <2>1. PICK l \in Seq(K), c \in K : top = Append(l, c)
    BY <1>3, SeqIsAppend
  <2>2. VisitStep(Wave(rk, vis, Append(o, Append(l, c))), succ, r)
          = AfterLast(rk, vis, o, l, c, succ, r)
    <3>1. OnLast(K, rk, o, l, c, succ, r)
      BY DEF OnLast
    <3> QED BY <3>1, StepOnLast
  <2>3. VisitStep(Wave(rk, vis, out), succ, r) = AfterLast(rk, vis, o, l, c, succ, r)
    BY <1>1, <2>1, <2>2
  <2> DEFINE rk2 == RaisedTo(rk, c, r + Len(o) + 1)
             vis2 == vis \union {c}
             rest == Append(o, l)
             out2 == Append(rest, succ[c])
  <2>4. Len(o) \in Nat /\ rest \in Seq(Seq(K)) /\ succ[c] \in Seq(K)
    BY LenProperties, FrontOfAppend
  <2>5. out2 \in Seq(Seq(K))
    <3> HIDE DEF rest
    <3> QED BY <2>4, FrontOfAppend
  <2>6. rk2 \in [K -> Nat] /\ vis2 \in SUBSET K
    BY <2>4 DEF RaisedTo
  <2>7. AfterLast(rk, vis, o, l, c, succ, r)
          = IF rk[c] <= r + Len(o) THEN Wave(rk2, vis2, out2) ELSE Wave(rk, vis2, rest)
    BY Zenon DEF AfterLast
  <2> HIDE DEF rk2, vis2, rest, out2
  <2>8. Wave(rk2, vis2, out2) \in Waves(tl) /\ Wave(rk, vis2, rest) \in Waves(tl)
    BY <2>4, <2>5, <2>6, WaveType
  <2> QED BY <2>3, <2>7, <2>8
<1> QED BY <1>2, <1>3

(* So it does for any such state.                                          *)
LEMMA StepType ==
  ASSUME NEW tl, NEW K, HasFields(tl, K), NEW r \in Nat,
         NEW v \in Waves(tl), v.out # <<>>
  PROVE  VisitStep(v, tl.succ, r) \in Waves(tl)
<1>1. v = Wave(v.rank, v.visited, v.out) /\ v.rank \in [K -> Nat]
      /\ v.visited \in SUBSET K /\ v.out \in Seq(Seq(K))
  BY WaveType
<1>2. tl.succ \in [K -> Seq(K)]
  BY DEF HasFields
<1>3. VisitStep(Wave(v.rank, v.visited, v.out), tl.succ, r) \in Waves(tl)
  BY <1>1, <1>2, StepOfWave
<1> QED BY <1>1, <1>3

-----------------------------------------------------------------------------
(***************************************************************************)
(* The walk as a function: it exists whether or not every walk ends.       *)
(***************************************************************************)
IsVisit(visit, tl, r) ==
  /\ \A v \in Waves(tl) : v.out = <<>> => visit[v] = v
  /\ \A v \in Waves(tl) : v.out # <<>> => visit[v] = visit[VisitStep(v, tl.succ, r)]

(* The recursion of _visit defines a function, whether or not it ends.     *)
LEMMA VisitExists ==
  ASSUME NEW tl, NEW K, HasFields(tl, K), NEW r \in Nat, NEW n
  PROVE  \E visit : /\ IsVisit(visit, tl, r)
                    /\ Visit(tl, n, r) = visit[Wave(tl.rank, {}, <<<<n>>>>)]
<1> DEFINE Wv == Waves(tl)
           St(v) == VisitStep(v, tl.succ, r)
           Walk(p, v, w, k) ==
             /\ p[0] = v /\ p[k] = w /\ w.out = <<>>
             /\ \A i \in 1..k : p[i-1].out # <<>> /\ p[i] = St(p[i-1])
           Ends(v) == {w \in Wv : \E k \in Nat : \E p \in [0..k -> Wv] : Walk(p, v, w, k)}
           F(f) == [v \in Wv |-> IF v.out = <<>> THEN v ELSE f[St(v)]]
           h == [v \in Wv |-> CHOOSE w : w \in Ends(v)]
           visit == CHOOSE f : f = F(f)
<1>1. \A v \in Wv : v.out # <<>> => St(v) \in Wv
  BY StepType
<1>2. Visit(tl, n, r) = visit[Wave(tl.rank, {}, <<<<n>>>>)]
  BY Zenon DEF Visit, Wave
<1> HIDE DEF Wv, St
<1>3. ASSUME NEW v \in Wv, v.out = <<>> PROVE Ends(v) = {v}
  <2>1. ASSUME NEW w \in Ends(v) PROVE w = v
    <3>1. PICK k \in Nat : \E p \in [0..k -> Wv] : Walk(p, v, w, k)
      OBVIOUS
    <3>2. PICK p \in [0..k -> Wv] : Walk(p, v, w, k)
      BY <3>1
    <3>3. k = 0
      <4> SUFFICES ASSUME k # 0 PROVE FALSE
        OBVIOUS
      <4>1. 1 \in 1..k /\ 1 - 1 = 0
        OBVIOUS
      <4>2. p[1-1].out # <<>>
        BY <3>2, <4>1
      <4> QED BY <1>3, <3>2, <4>1, <4>2
    <3> QED BY <3>2, <3>3
  <2>2. v \in Ends(v)
    <3> DEFINE p == [i \in 0..0 |-> v]
    <3>1. p \in [0..0 -> Wv] /\ Walk(p, v, v, 0) /\ 0 \in Nat
      BY <1>3
    <3> HIDE DEF p, Walk
    <3> QED BY <3>1
  <2> HIDE DEF Ends
  <2> QED BY <2>1, <2>2
<1>4. ASSUME NEW v \in Wv, v.out # <<>> PROVE Ends(v) = Ends(St(v))
  <2> DEFINE x == St(v)
  <2>0. x \in Wv
    BY <1>1, <1>4
  <2>1. ASSUME NEW w \in Ends(v) PROVE w \in Ends(x)
    <3>1. PICK k \in Nat : \E p \in [0..k -> Wv] : Walk(p, v, w, k)
      BY <2>1
    <3>2. PICK p \in [0..k -> Wv] : Walk(p, v, w, k)
      BY <3>1
    <3>3. k # 0
      BY <1>4, <3>2
    <3> DEFINE q == [i \in 0..k-1 |-> p[i+1]]
    <3>4. \A i \in 0..k-1 : i + 1 \in 0..k /\ q[i] = p[i+1]
      BY <3>3
    <3>5. q \in [0..k-1 -> Wv]
      BY <3>4
    <3> HIDE DEF q
    <3>6. q[0] = x
      <4>1. 1 \in 1..k /\ 1 - 1 = 0 /\ 0 \in 0..k-1 /\ 0 + 1 = 1
        BY <3>3
      <4>2. p[1] = St(p[1-1])
        BY <3>2, <4>1
      <4>3. q[0] = p[0+1]
        BY <3>4, <4>1
      <4> QED BY <3>2, <4>1, <4>2, <4>3
    <3>7. q[k-1] = w
      <4>1. k - 1 \in 0..k-1 /\ k - 1 + 1 = k
        BY <3>3
      <4> QED BY <3>2, <3>4, <4>1
    <3>8. \A i \in 1..k-1 : q[i-1].out # <<>> /\ q[i] = St(q[i-1])
      <4> TAKE i \in 1..k-1
      <4>1. i - 1 \in 0..k-1 /\ i \in 0..k-1 /\ i + 1 \in 1..k /\ i - 1 + 1 = i /\ i + 1 - 1 = i
        OBVIOUS
      <4>2. q[i-1] = p[i] /\ q[i] = p[i+1]
        BY <3>4, <4>1
      <4>3. p[(i+1)-1].out # <<>> /\ p[i+1] = St(p[(i+1)-1])
        BY <3>2, <4>1
      <4>4. (i + 1) - 1 = i
        OBVIOUS
      <4> QED BY <4>2, <4>3, <4>4
    <3>9. Walk(q, x, w, k-1)
      BY <3>2, <3>6, <3>7, <3>8
    <3>10. k - 1 \in Nat /\ w \in Wv
      BY <2>1, <3>3
    <3> HIDE DEF Walk, x
    <3> QED BY <3>5, <3>9, <3>10
  <2>2. ASSUME NEW w \in Ends(x) PROVE w \in Ends(v)
    <3>1. PICK k \in Nat : \E p \in [0..k -> Wv] : Walk(p, x, w, k)
      BY <2>2
    <3>2. PICK p \in [0..k -> Wv] : Walk(p, x, w, k)
      BY <3>1
    <3> DEFINE q == [i \in 0..k+1 |-> IF i = 0 THEN v ELSE p[i-1]]
    <3>3. q[0] = v /\ \A i \in 1..k+1 : i - 1 \in 0..k /\ q[i] = p[i-1]
      OBVIOUS
    <3>4. q \in [0..k+1 -> Wv]
      <4>1. \A i \in 0..k+1 : i # 0 => i - 1 \in 0..k
        OBVIOUS
      <4> QED BY <4>1, <1>4
    <3> HIDE DEF q
    <3>5. q[k+1] = w
      <4>1. k + 1 \in 1..k+1 /\ (k + 1) - 1 = k
        OBVIOUS
      <4>2. q[k+1] = p[(k+1)-1]
        BY <3>3, <4>1
      <4> QED BY <3>2, <4>1, <4>2
    <3>6. \A i \in 1..k+1 : q[i-1].out # <<>> /\ q[i] = St(q[i-1])
      <4> TAKE i \in 1..k+1
      <4>1. CASE i = 1
        <5>1. i - 1 = 0 /\ q[i] = p[0]
          BY <3>3, <4>1
        <5> QED BY <1>4, <3>2, <3>3, <5>1
      <4>2. CASE i # 1
        <5>1. i - 1 \in 1..k /\ i - 1 \in 1..k+1 /\ i \in 1..k+1
          BY <4>2
        <5>2. q[i-1] = p[(i-1)-1] /\ q[i] = p[i-1]
          BY <3>3, <5>1
        <5>3. p[(i-1)-1].out # <<>> /\ p[i-1] = St(p[(i-1)-1])
          BY <3>2, <5>1
        <5> QED BY <5>2, <5>3
      <4> QED BY <4>1, <4>2
    <3>7. Walk(q, v, w, k+1)
      BY <3>2, <3>3, <3>5, <3>6
    <3>8. k + 1 \in Nat /\ w \in Wv
      BY <2>2
    <3> HIDE DEF Walk
    <3> QED BY <3>4, <3>7, <3>8
  <2> HIDE DEF Ends, x
  <2>3. Ends(v) = Ends(x)
    BY <2>1, <2>2
  <2> QED BY <2>3 DEF x
<1> HIDE DEF Ends
<1>5. h = F(h)
  <2>1. ASSUME NEW v \in Wv
        PROVE  (CHOOSE w : w \in Ends(v)) = IF v.out = <<>> THEN v ELSE h[St(v)]
    <3>1. CASE v.out = <<>>
      <4>1. (CHOOSE w : w \in Ends(v)) = (CHOOSE w : w \in {v})
        BY <1>3, <3>1, Zenon
      <4>2. (CHOOSE w : w \in {v}) = v
        OBVIOUS
      <4> QED BY <3>1, <4>1, <4>2
    <3>2. CASE v.out # <<>>
      <4>1. St(v) \in Wv /\ Ends(v) = Ends(St(v))
        BY <1>1, <1>4, <3>2
      <4>2. h[St(v)] = CHOOSE w : w \in Ends(St(v))
        BY <4>1
      <4>3. (CHOOSE w : w \in Ends(v)) = (CHOOSE w : w \in Ends(St(v)))
        BY <4>1, Zenon
      <4> QED BY <3>2, <4>2, <4>3, Zenon
    <3> QED BY <3>1, <3>2
  <2>2. h = [v \in Wv |-> CHOOSE w : w \in Ends(v)]
    OBVIOUS
  <2> HIDE DEF h
  <2>3. [v \in Wv |-> CHOOSE w : w \in Ends(v)]
          = [v \in Wv |-> IF v.out = <<>> THEN v ELSE h[St(v)]]
    BY <2>1, Zenon
  <2> QED BY <2>2, <2>3, Zenon
<1>6. visit = F(visit)
  <2> HIDE DEF h, F
  <2> QED BY <1>5, Zenon
<1> HIDE DEF visit
<1>7. /\ \A v \in Wv : v.out = <<>> => visit[v] = v
      /\ \A v \in Wv : v.out # <<>> => visit[v] = visit[St(v)]
  BY <1>6
<1>8. IsVisit(visit, tl, r)
  BY <1>7 DEF IsVisit, Wv, St
<1> QED BY <1>2, <1>8 DEF visit, Wv, St, F

-----------------------------------------------------------------------------
(***************************************************************************)
(* What a walk through a list of nodes does to the ranks.                  *)
(***************************************************************************)
(* The ranks that one list of the walk leaves, and the nodes it visits.    *)
Walked(K, succ, D, q, l, rk, vis, rk2, vis2) ==
  /\ rk2 \in [K -> Nat] /\ vis2 \in SUBSET K /\ vis \subseteq vis2 /\ ToSet(l) \subseteq vis2
  /\ \A m \in K : rk[m] <= rk2[m] /\ (m \notin vis2 => rk2[m] = rk[m])
  /\ \A c \in ToSet(l) : q < rk2[c]
  /\ \A a \in K : \A b \in ToSet(succ[a]) :
       rk[a] < rk[b] \/ rk2[a] # rk[a] => rk2[a] < rk2[b]
  /\ (\A m \in K : rk[m] <= D[m]) /\ (\A c \in ToSet(l) : q < D[c])
       => \A m \in K : rk2[m] <= D[m]
  /\ \A U \in SUBSET K :
       (\A a \in U : ToSet(succ[a]) \subseteq U) /\ ToSet(l) \subseteq U
         => vis2 \subseteq vis \union U /\ \A m \in K \ U : rk2[m] = rk[m]
Climbs(K, succ, D) ==
  /\ succ \in [K -> Seq(K)] /\ D \in [K -> Nat]
  /\ \A a \in K : ToSet(succ[a]) \in SUBSET K /\ \A b \in ToSet(succ[a]) : D[a] < D[b]

(* An empty list.                                                          *)
LEMMA WalkedNothing ==
  ASSUME NEW K, NEW succ, NEW D, NEW q, NEW rk \in [K -> Nat], NEW vis \in SUBSET K
  PROVE  Walked(K, succ, D, q, <<>>, rk, vis, rk, vis)
<1>1. ToSet(<<>>) = {}
  BY DEF ToSet
<1>2. \A m \in K : rk[m] \in Nat /\ rk[m] <= rk[m]
  OBVIOUS
<1> QED BY <1>1, <1>2 DEF Walked

(* A node that is high enough already, then the rest of the list.          *)
LEMMA WalkedOver ==
  ASSUME NEW K, NEW succ, NEW D, Climbs(K, succ, D), NEW q \in Nat,
         NEW l \in Seq(K), NEW c \in K, NEW rk \in [K -> Nat], NEW vis \in SUBSET K,
         ~(rk[c] <= q), NEW rk2, NEW vis2,
         Walked(K, succ, D, q, l, rk, vis \union {c}, rk2, vis2)
  PROVE  Walked(K, succ, D, q, Append(l, c), rk, vis, rk2, vis2)
<1>1. ToSet(Append(l, c)) = ToSet(l) \union {c}
  BY FrontOfAppend
<1> DEFINE L2 == ToSet(Append(l, c))  L1 == ToSet(l)
<1> HIDE DEF L2, L1
<1>2. L2 = L1 \union {c}
  BY <1>1 DEF L2, L1
<1>3. rk2 \in [K -> Nat] /\ vis2 \in SUBSET K /\ vis \subseteq vis2 /\ L2 \subseteq vis2
  BY <1>2 DEF Walked, L1
<1>4. /\ \A m \in K : rk[m] <= rk2[m] /\ (m \notin vis2 => rk2[m] = rk[m])
      /\ \A a \in K : \A b \in ToSet(succ[a]) :
           rk[a] < rk[b] \/ rk2[a] # rk[a] => rk2[a] < rk2[b]
  BY DEF Walked
<1>5. \A x \in L2 : q < rk2[x]
  <2>1. q < rk2[c]
    <3>1. rk[c] \in Nat /\ rk2[c] \in Nat /\ rk[c] <= rk2[c] /\ ~(rk[c] <= q)
      BY <1>3, <1>4
    <3> QED BY <3>1
  <2>2. \A x \in L1 : q < rk2[x]
    BY DEF Walked, L1
  <2> QED BY <1>2, <2>1, <2>2
<1>6. (\A m \in K : rk[m] <= D[m]) /\ (\A x \in L2 : q < D[x]) => \A m \in K : rk2[m] <= D[m]
  BY <1>2 DEF Walked, L1
<1>7. ASSUME NEW U \in SUBSET K, \A a \in U : ToSet(succ[a]) \subseteq U, L2 \subseteq U
      PROVE  vis2 \subseteq vis \union U /\ \A m \in K \ U : rk2[m] = rk[m]
  <2>1. L1 \subseteq U /\ c \in U
    BY <1>2, <1>7
  <2>2. vis2 \subseteq (vis \union {c}) \union U /\ \A m \in K \ U : rk2[m] = rk[m]
    BY <1>7, <2>1, Zenon DEF Walked, L1
  <2> QED BY <2>1, <2>2
<1>8. /\ L2 \subseteq vis2
      /\ \A U \in SUBSET K :
           (\A a \in U : ToSet(succ[a]) \subseteq U) /\ L2 \subseteq U
             => vis2 \subseteq vis \union U /\ \A m \in K \ U : rk2[m] = rk[m]
  BY <1>3, <1>7
<1> QED BY <1>3, <1>4, <1>5, <1>6, <1>8, Zenon DEF Walked, L2

(* A node that is raised: its effects, then the rest of the list.          *)
LEMMA WalkedUp ==
  ASSUME NEW K, NEW succ, NEW D, Climbs(K, succ, D), NEW q \in Nat,
         NEW l \in Seq(K), NEW c \in K, NEW rk \in [K -> Nat], NEW vis \in SUBSET K,
         rk[c] <= q, NEW rk1, NEW vis1, NEW rk2, NEW vis2,
         Walked(K, succ, D, q + 1, succ[c], RaisedTo(rk, c, q + 1), vis \union {c}, rk1, vis1),
         Walked(K, succ, D, q, l, rk1, vis1, rk2, vis2)
  PROVE  Walked(K, succ, D, q, Append(l, c), rk, vis, rk2, vis2)
<1> DEFINE L2 == ToSet(Append(l, c))  L1 == ToSet(l)
           rk0 == RaisedTo(rk, c, q + 1)
           Out(a) == ToSet(succ[a])
<1>1. L2 = L1 \union {c}
  BY FrontOfAppend
<1>2. rk0 \in [K -> Nat] /\ rk0[c] = q + 1 /\ \A m \in K : m # c => rk0[m] = rk[m]
  BY DEF RaisedTo
<1>3. \A m \in K : rk[m] \in Nat /\ rk0[m] \in Nat
  BY <1>2
<1> HIDE DEF L2, L1, rk0
<1>4. \A m \in K : rk[m] <= rk0[m]
  <2> TAKE m \in K
  <2>1. rk[c] \in Nat /\ rk[m] \in Nat /\ rk[c] <= q
    BY <1>3
  <2>2. CASE m = c
    <3>1. rk0[m] = q + 1 /\ rk[m] <= q
      BY <1>2, <2>1, <2>2
    <3> QED BY <2>1, <3>1
  <2>3. CASE m # c
    <3>1. rk0[m] = rk[m]
      BY <1>2, <2>3
    <3> QED BY <2>1, <3>1
  <2> QED BY <2>2, <2>3
<1>5. /\ rk1 \in [K -> Nat] /\ vis1 \in SUBSET K
      /\ vis \union {c} \subseteq vis1 /\ Out(c) \subseteq vis1
      /\ \A m \in K : rk0[m] <= rk1[m] /\ (m \notin vis1 => rk1[m] = rk0[m])
      /\ \A b \in Out(c) : q + 1 < rk1[b]
      /\ \A a \in K : \A b \in Out(a) : rk0[a] < rk0[b] \/ rk1[a] # rk0[a] => rk1[a] < rk1[b]
      /\ (\A m \in K : rk0[m] <= D[m]) /\ (\A b \in Out(c) : q + 1 < D[b])
           => \A m \in K : rk1[m] <= D[m]
      /\ \A U \in SUBSET K :
           (\A a \in U : Out(a) \subseteq U) /\ Out(c) \subseteq U
             => vis1 \subseteq (vis \union {c}) \union U /\ \A m \in K \ U : rk1[m] = rk0[m]
  <2>1. Walked(K, succ, D, q + 1, succ[c], rk0, vis \union {c}, rk1, vis1)
    BY DEF rk0
  <2> QED BY <2>1, Zenon DEF Walked
<1>6. /\ rk2 \in [K -> Nat] /\ vis2 \in SUBSET K /\ vis1 \subseteq vis2 /\ L1 \subseteq vis2
      /\ \A m \in K : rk1[m] <= rk2[m] /\ (m \notin vis2 => rk2[m] = rk1[m])
      /\ \A x \in L1 : q < rk2[x]
      /\ \A a \in K : \A b \in Out(a) : rk1[a] < rk1[b] \/ rk2[a] # rk1[a] => rk2[a] < rk2[b]
      /\ (\A m \in K : rk1[m] <= D[m]) /\ (\A x \in L1 : q < D[x])
           => \A m \in K : rk2[m] <= D[m]
      /\ \A U \in SUBSET K :
           (\A a \in U : Out(a) \subseteq U) /\ L1 \subseteq U
             => vis2 \subseteq vis1 \union U /\ \A m \in K \ U : rk2[m] = rk1[m]
  BY Zenon DEF Walked, L1
<1>7. /\ D \in [K -> Nat] /\ \A m \in K : D[m] \in Nat
      /\ \A a \in K : Out(a) \in SUBSET K /\ \A b \in Out(a) : D[a] < D[b]
  BY DEF Climbs
<1>8. \A m \in K : rk1[m] \in Nat /\ rk2[m] \in Nat
  BY <1>5, <1>6
<1> HIDE DEF Out
<1>9. vis \subseteq vis2 /\ L2 \subseteq vis2
  BY <1>1, <1>5, <1>6
<1>10. ASSUME NEW m \in K PROVE rk[m] <= rk2[m] /\ (m \notin vis2 => rk2[m] = rk[m])
  <2>1. rk[m] <= rk0[m] /\ rk0[m] <= rk1[m] /\ rk1[m] <= rk2[m]
    BY <1>4, <1>5, <1>6
  <2>2. rk[m] \in Nat /\ rk0[m] \in Nat /\ rk1[m] \in Nat /\ rk2[m] \in Nat
    BY <1>3, <1>8
  <2>3. m \notin vis2 => m # c /\ m \notin vis1
    BY <1>5, <1>6
  <2>4. m \notin vis2 => rk2[m] = rk1[m] /\ rk1[m] = rk0[m] /\ rk0[m] = rk[m]
    BY <1>2, <1>5, <1>6, <2>3
  <2> QED BY <2>1, <2>2, <2>4
<1>11. ASSUME NEW x \in L2 PROVE q < rk2[x]
  <2>1. CASE x = c
    <3>1. rk0[c] <= rk1[c] /\ rk1[c] <= rk2[c] /\ rk0[c] = q + 1
      BY <1>2, <1>5, <1>6
    <3>2. rk1[c] \in Nat /\ rk2[c] \in Nat
      BY <1>8
    <3> QED BY <2>1, <3>1, <3>2
  <2> QED BY <1>1, <1>6, <1>11, <2>1
<1>12. ASSUME NEW a \in K, NEW b \in Out(a), rk[a] < rk[b] \/ rk2[a] # rk[a]
       PROVE  rk2[a] < rk2[b]
  <2>1. b \in K
    BY <1>7
  <2>2. SUFFICES rk1[a] < rk1[b] \/ rk2[a] # rk1[a]
    BY <1>6
  <2>3. SUFFICES ASSUME rk2[a] = rk1[a] PROVE rk1[a] < rk1[b]
    OBVIOUS
  <2>4. CASE a = c
    <3>1. CASE rk1[a] = rk0[a]
      BY <1>2, <1>5, <2>4, <3>1
    <3>2. CASE rk1[a] # rk0[a]
      BY <1>5, <3>2
    <3> QED BY <3>1, <3>2
  <2>5. CASE a # c
    <3>1. rk0[a] = rk[a]
      BY <1>2, <2>5
    <3>2. rk1[a] # rk0[a] => rk1[a] < rk1[b]
      BY <1>5
    <3>3. CASE rk1[a] = rk0[a]
      <4>1. rk[a] < rk[b]
        BY <1>12, <2>3, <3>1, <3>3
      <4>2. rk[a] \in Nat /\ rk[b] \in Nat /\ rk0[b] \in Nat /\ rk[b] <= rk0[b]
        BY <1>3, <1>4, <2>1
      <4>3. rk0[a] < rk0[b]
        BY <3>1, <4>1, <4>2
      <4> QED BY <1>5, <4>3
    <3> QED BY <3>2, <3>3
  <2> QED BY <2>4, <2>5
<1>13. ASSUME \A m \in K : rk[m] <= D[m], \A x \in L2 : q < D[x]
       PROVE  \A m \in K : rk2[m] <= D[m]
  <2>1. q < D[c] /\ D[c] \in Nat /\ \A x \in L1 : q < D[x]
    BY <1>1, <1>7, <1>13
  <2>2. \A m \in K : rk0[m] <= D[m]
    <3> TAKE m \in K
    <3>1. CASE m = c
      <4>1. rk0[m] = q + 1 /\ q < D[m] /\ D[m] \in Nat
        BY <1>2, <2>1, <3>1
      <4> QED BY <4>1
    <3>2. CASE m # c
      <4>1. rk0[m] = rk[m] /\ rk[m] <= D[m]
        BY <1>2, <1>13, <3>2
      <4> QED BY <4>1
    <3> QED BY <3>1, <3>2
  <2>3. \A b \in Out(c) : q + 1 < D[b]
    <3> TAKE b \in Out(c)
    <3>1. D[c] < D[b] /\ D[b] \in Nat
      BY <1>7
    <3> QED BY <2>1, <3>1
  <2>4. \A m \in K : rk1[m] <= D[m]
    BY <1>5, <2>2, <2>3
  <2> QED BY <1>6, <2>1, <2>4
<1>14. ASSUME NEW U \in SUBSET K, \A a \in U : Out(a) \subseteq U, L2 \subseteq U
       PROVE  vis2 \subseteq vis \union U /\ \A m \in K \ U : rk2[m] = rk[m]
  <2>1. L1 \subseteq U /\ c \in U /\ Out(c) \subseteq U
    BY <1>1, <1>14
  <2>2. vis1 \subseteq (vis \union {c}) \union U /\ \A m \in K \ U : rk1[m] = rk0[m]
    BY <1>5, <1>14, <2>1
  <2>3. vis2 \subseteq vis1 \union U /\ \A m \in K \ U : rk2[m] = rk1[m]
    BY <1>6, <1>14, <2>1
  <2>4. \A m \in K \ U : rk0[m] = rk[m]
    BY <1>2, <2>1
  <2> QED BY <2>1, <2>2, <2>3, <2>4
<1>15. \A m \in K : rk[m] <= rk2[m] /\ (m \notin vis2 => rk2[m] = rk[m])
  BY <1>10
<1>16. \A x \in L2 : q < rk2[x]
  BY <1>11
<1>17. \A a \in K : \A b \in Out(a) : rk[a] < rk[b] \/ rk2[a] # rk[a] => rk2[a] < rk2[b]
  BY <1>12
<1>18. (\A m \in K : rk[m] <= D[m]) /\ (\A x \in L2 : q < D[x]) => \A m \in K : rk2[m] <= D[m]
  BY <1>13
<1>19. \A U \in SUBSET K :
         (\A a \in U : Out(a) \subseteq U) /\ L2 \subseteq U
           => vis2 \subseteq vis \union U /\ \A m \in K \ U : rk2[m] = rk[m]
  BY <1>14
<1> QED BY <1>6, <1>9, <1>15, <1>16, <1>17, <1>18, <1>19, Zenon DEF Walked, L2, Out

-----------------------------------------------------------------------------
(***************************************************************************)
(* The walk ends, because the depths bound the ranks; its outcome.         *)
(***************************************************************************)
Reaches(visit, K, succ, D, r, o, l, rk, vis) ==
  \E rk2 \in [K -> Nat], vis2 \in SUBSET K :
    /\ visit[Wave(rk, vis, Append(o, l))] = visit[Wave(rk2, vis2, o)]
    /\ Walked(K, succ, D, r + Len(o), l, rk, vis, rk2, vis2)
(* One more node is walked, once this is so for what it affects (when it   *)
(* rises) and for the rest of the list.                                    *)
LEMMA WalksOn ==
  ASSUME NEW tl, NEW K, HasFields(tl, K), NEW D, Climbs(K, tl.succ, D),
         NEW r \in Nat, NEW visit, IsVisit(visit, tl, r),
         NEW l \in Seq(K), NEW c \in K,
         NEW o \in Seq(Seq(K)), NEW rk \in [K -> Nat], NEW vis \in SUBSET K,
         rk[c] <= r + Len(o) =>
           Reaches(visit, K, tl.succ, D, r, Append(o, l), tl.succ[c],
                   RaisedTo(rk, c, r + Len(o) + 1), vis \union {c}),
         \A rk1 \in [K -> Nat], vis1 \in SUBSET K :
           Reaches(visit, K, tl.succ, D, r, o, l, rk1, vis1)
  PROVE  Reaches(visit, K, tl.succ, D, r, o, Append(l, c), rk, vis)
<1> DEFINE succ == tl.succ
           q == r + Len(o)
           al == Append(l, c)
           ol == Append(o, l)
           v == Wave(rk, vis, Append(o, al))
           vc == vis \union {c}
<1>1. succ \in [K -> Seq(K)] /\ Climbs(K, succ, D)
  BY DEF HasFields
<1>2. Len(o) \in Nat /\ q \in Nat
  BY LenProperties
<1>3. al \in Seq(K) /\ ol \in Seq(Seq(K)) /\ Len(ol) = Len(o) + 1
  BY FrontOfAppend
<1>4. Append(o, al) \in Seq(Seq(K)) /\ Append(o, al) # <<>>
  <2> HIDE DEF al
  <2> QED BY <1>3, FrontOfAppend
<1>5. v \in Waves(tl) /\ v.out # <<>>
  <2> DEFINE out == Append(o, al)
  <2>1. out \in Seq(Seq(K)) /\ out # <<>>
    BY <1>4
  <2> HIDE DEF out
  <2>2. Wave(rk, vis, out) \in Waves(tl)
    BY <2>1, WaveType
  <2>3. Wave(rk, vis, out).out = out
    BY WaveFields
  <2> QED BY <2>1, <2>2, <2>3 DEF out
<1>6. VisitStep(v, succ, r) = AfterLast(rk, vis, o, l, c, succ, r)
  <2>1. OnLast(K, rk, o, l, c, succ, r)
    BY <1>1 DEF OnLast
  <2> HIDE DEF succ
  <2> QED BY <2>1, StepOnLast
<1>7. visit[v] = visit[AfterLast(rk, vis, o, l, c, succ, r)]
  <2>1. visit[v] = visit[VisitStep(v, succ, r)]
    <3> HIDE DEF v
    <3> QED BY <1>5 DEF IsVisit
  <2> QED BY <1>6, <2>1
<1>8. vc \in SUBSET K
  OBVIOUS
<1> HIDE DEF v
<1>9. CASE ~(rk[c] <= q)
  <2>1. AfterLast(rk, vis, o, l, c, succ, r) = Wave(rk, vc, ol)
    BY <1>9, Zenon DEF AfterLast
  <2>2. Reaches(visit, K, succ, D, r, o, l, rk, vc)
    BY <1>8
  <2>3. PICK rk2 \in [K -> Nat], vis2 \in SUBSET K :
          /\ visit[Wave(rk, vc, ol)] = visit[Wave(rk2, vis2, o)]
          /\ Walked(K, succ, D, q, l, rk, vc, rk2, vis2)
    BY <2>2 DEF Reaches
  <2>4. Walked(K, succ, D, q, al, rk, vis, rk2, vis2)
    <3> HIDE DEF q, succ
    <3> QED BY <1>1, <1>2, <1>9, <2>3, WalkedOver
  <2>5. visit[v] = visit[Wave(rk2, vis2, o)]
    BY <1>7, <2>1, <2>3
  <2> QED BY <2>4, <2>5 DEF Reaches, v
<1>10. CASE rk[c] <= q
  <2> DEFINE rk0 == RaisedTo(rk, c, q + 1)
  <2>1. AfterLast(rk, vis, o, l, c, succ, r) = Wave(rk0, vc, Append(ol, succ[c]))
    BY <1>10, Zenon DEF AfterLast
  <2>2. Reaches(visit, K, succ, D, r, ol, succ[c], rk0, vc)
    BY <1>10
  <2>3. r + Len(ol) = q + 1
    BY <1>2, <1>3
  <2>4. PICK rk1 \in [K -> Nat], vis1 \in SUBSET K :
          /\ visit[Wave(rk0, vc, Append(ol, succ[c]))] = visit[Wave(rk1, vis1, ol)]
          /\ Walked(K, succ, D, r + Len(ol), succ[c], rk0, vc, rk1, vis1)
    BY <2>2 DEF Reaches
  <2>5. Reaches(visit, K, succ, D, r, o, l, rk1, vis1)
    BY <2>4
  <2>6. PICK rk2 \in [K -> Nat], vis2 \in SUBSET K :
          /\ visit[Wave(rk1, vis1, ol)] = visit[Wave(rk2, vis2, o)]
          /\ Walked(K, succ, D, q, l, rk1, vis1, rk2, vis2)
    BY <2>5 DEF Reaches
  <2>7. Walked(K, succ, D, q, al, rk, vis, rk2, vis2)
    <3>1. Walked(K, succ, D, q + 1, succ[c], RaisedTo(rk, c, q + 1), vis \union {c}, rk1, vis1)
      BY <2>3, <2>4
    <3> HIDE DEF q, succ
    <3> QED BY <1>1, <1>2, <1>10, <2>6, <3>1, WalkedUp
  <2>8. visit[v] = visit[Wave(rk2, vis2, o)]
    BY <1>7, <2>1, <2>4, <2>6
  <2> QED BY <2>7, <2>8 DEF Reaches, v
<1> QED BY <1>9, <1>10

(* The walk through an empty list is over.                                 *)
LEMMA WalksNowhere ==
  ASSUME NEW tl, NEW K, HasFields(tl, K), NEW D, NEW r \in Nat,
         NEW visit, IsVisit(visit, tl, r),
         NEW o \in Seq(Seq(K)), NEW rk \in [K -> Nat], NEW vis \in SUBSET K
  PROVE  Reaches(visit, K, tl.succ, D, r, o, <<>>, rk, vis)
<1> DEFINE out == Append(o, <<>>)
           v == Wave(rk, vis, out)
<1>1. out \in Seq(Seq(K)) /\ out # <<>>
  <2>1. <<>> \in Seq(K)
    BY EmptySeq
  <2> QED BY <2>1, FrontOfAppend
<1>2. VisitStep(v, tl.succ, r) = Wave(rk, vis, o)
  BY StepOnEmpty
<1> HIDE DEF out
<1>3. v \in Waves(tl) /\ v.out # <<>>
  <2>1. v \in Waves(tl)
    BY <1>1, WaveType
  <2>2. v.out = out
    BY WaveFields
  <2> QED BY <1>1, <2>1, <2>2
<1> HIDE DEF v
<1>4. visit[v] = visit[Wave(rk, vis, o)]
  BY <1>2, <1>3 DEF IsVisit
<1>5. Walked(K, tl.succ, D, r + Len(o), <<>>, rk, vis, rk, vis)
  BY WalkedNothing
<1> QED BY <1>4, <1>5 DEF Reaches, v, out

(* The walk through any list ends.  Each level down raises the bar by one, *)
(* and no rank on the way is above the largest depth.                      *)
LEMMA WalksAll ==
  ASSUME NEW tl, NEW K, HasFields(tl, K), NEW D, Climbs(K, tl.succ, D),
         NEW r \in Nat, NEW visit, IsVisit(visit, tl, r),
         NEW bound \in Nat, \A m \in K : D[m] <= bound,
         NEW o \in Seq(Seq(K)), NEW l \in Seq(K), NEW rk \in [K -> Nat], NEW vis \in SUBSET K
  PROVE  Reaches(visit, K, tl.succ, D, r, o, l, rk, vis)
<1> DEFINE succ == tl.succ
           Low(x, m) == \A c \in ToSet(m) : bound < D[c] + x
           Claim(x, m) == \A p \in Seq(Seq(K)), rk1 \in [K -> Nat], vis1 \in SUBSET K :
                            Reaches(visit, K, succ, D, r, p, m, rk1, vis1)
           All(x) == \A m \in Seq(K) : Low(x, m) => Claim(x, m)
           T == {x \in Nat : ~All(x)}
<1>1. /\ succ \in [K -> Seq(K)] /\ \A m \in K : D[m] \in Nat
      /\ \A a \in K : ToSet(succ[a]) \in SUBSET K /\ \A b \in ToSet(succ[a]) : D[a] < D[b]
  BY DEF Climbs
<1>2. ASSUME NEW x \in Nat, x # 0 => All(x-1) PROVE All(x)
  <2> DEFINE R == {k \in Nat : \E m \in Seq(K) : Len(m) = k /\ Low(x, m) /\ ~Claim(x, m)}
  <2>1. R = {}
    <3> SUFFICES ASSUME R # {} PROVE FALSE
      OBVIOUS
    <3>1. PICK k \in R : \A j \in R : k <= j
      <4>1. R \in SUBSET Nat
        OBVIOUS
      <4> HIDE DEF R
      <4> QED BY <4>1, LeastNat
    <3>2. PICK m \in Seq(K) : Len(m) = k /\ Low(x, m) /\ ~Claim(x, m)
      BY <3>1
    <3>3. k \in Nat
      BY <3>1
    <3>4. m # <<>>
      <4>1. Claim(x, <<>>)
        BY WalksNowhere
      <4> HIDE DEF Claim, Low
      <4> QED BY <3>2, <4>1
    <3>5. PICK m1 \in Seq(K), c \in K : m = Append(m1, c)
      BY <3>4, SeqIsAppend
    <3>6. ToSet(m) = ToSet(m1) \union {c} /\ k = Len(m1) + 1 /\ Len(m1) \in Nat
      BY <3>2, <3>5, FrontOfAppend, LenProperties
    <3>7. Low(x, m1) /\ bound < D[c] + x /\ D[c] \in Nat /\ D[c] <= bound
      BY <1>1, <3>2, <3>6
    <3>8. Claim(x, m1)
      <4>1. ~(k <= Len(m1))
        BY <3>6
      <4>2. Len(m1) \notin R
        BY <3>1, <4>1
      <4> HIDE DEF Claim, Low
      <4> QED BY <3>6, <3>7, <4>2
    <3>9. x # 0 /\ All(x-1) /\ x - 1 \in Nat
      <4> HIDE DEF All
      <4>1. x # 0
        BY <3>7
      <4> QED BY <1>2, <4>1
    <3>10. succ[c] \in Seq(K) /\ Low(x-1, succ[c])
      <4>1. succ[c] \in Seq(K)
        BY <1>1
      <4>2. ASSUME NEW b \in ToSet(succ[c]) PROVE bound < D[b] + (x-1)
        <5> DEFINE y == D[c]  z == D[b]
        <5>1. y < z /\ y \in Nat /\ z \in Nat
          BY <1>1, <3>7
        <5>2. bound < y + x
          BY <3>7
        <5> HIDE DEF y, z
        <5>3. bound < z + (x-1)
          BY <5>1, <5>2
        <5> QED BY <5>3 DEF z
      <4> QED BY <4>1, <4>2
    <3>11. Claim(x-1, succ[c])
      <4> HIDE DEF Claim, Low
      <4> QED BY <3>9, <3>10
    <3>12. ASSUME NEW p \in Seq(Seq(K)), NEW rk1 \in [K -> Nat], NEW vis1 \in SUBSET K
           PROVE  Reaches(visit, K, succ, D, r, p, Append(m1, c), rk1, vis1)
      <4> DEFINE rk0 == RaisedTo(rk1, c, r + Len(p) + 1)
                 vc == vis1 \union {c}
                 pm == Append(p, m1)
      <4>1. rk0 \in [K -> Nat] /\ vc \in SUBSET K /\ pm \in Seq(Seq(K))
        <5>1. Len(p) \in Nat
          BY LenProperties
        <5> QED BY <5>1, FrontOfAppend DEF RaisedTo
      <4>2. Reaches(visit, K, succ, D, r, pm, succ[c], rk0, vc)
        <5> HIDE DEF rk0, vc, pm
        <5> QED BY <3>11, <4>1
      <4>3. \A rk2 \in [K -> Nat], vis2 \in SUBSET K :
              Reaches(visit, K, succ, D, r, p, m1, rk2, vis2)
        BY <3>8
      <4> QED BY <4>2, <4>3, WalksOn
    <3>13. Claim(x, m)
      BY <3>5, <3>12
    <3> QED BY <3>2, <3>13
  <2>2. ASSUME NEW m \in Seq(K), Low(x, m) PROVE Claim(x, m)
    <3>1. Len(m) \in Nat /\ Len(m) \notin R
      BY <2>1, LenProperties
    <3> HIDE DEF Claim, Low
    <3> QED BY <2>2, <3>1
  <2> HIDE DEF Claim, Low
  <2> QED BY <2>2
<1>3. T = {}
  <2> HIDE DEF All
  <2> SUFFICES ASSUME T # {} PROVE FALSE
    OBVIOUS
  <2>1. PICK x \in T : \A y \in T : x <= y
    <3>1. T \in SUBSET Nat
      OBVIOUS
    <3> HIDE DEF T
    <3> QED BY <3>1, LeastNat
  <2>2. x # 0 => x - 1 \in Nat /\ ~(x <= x - 1)
    BY <2>1
  <2>3. x # 0 => All(x-1)
    BY <2>1, <2>2
  <2> QED BY <1>2, <2>1, <2>3
<1>4. All(bound + 1)
  <2>1. bound + 1 \in Nat
    OBVIOUS
  <2> HIDE DEF All
  <2> QED BY <1>3, <2>1
<1>5. Low(bound + 1, l)
  <2>1. ToSet(l) \in SUBSET K
    BY ToSetIs
  <2>2. ASSUME NEW c \in ToSet(l) PROVE bound < D[c] + (bound + 1)
    <3>1. D[c] \in Nat
      BY <1>1, <2>1
    <3> QED BY <3>1
  <2> QED BY <2>2
<1>6. Claim(bound + 1, l)
  <2> HIDE DEF Claim, Low
  <2> QED BY <1>4, <1>5
<1> QED BY <1>6

(* _visit: what it leaves behind.                                          *)
LEMMA VisitIs ==
  ASSUME NEW tl, NEW K, HasFields(tl, K), NEW D, Climbs(K, tl.succ, D),
         NEW bound \in Nat, \A m \in K : D[m] <= bound,
         NEW r \in Nat, NEW n \in K
  PROVE  Walked(K, tl.succ, D, r, <<n>>, tl.rank, {}, Visit(tl, n, r).rank, Visit(tl, n, r).visited)
<1>1. PICK visit : /\ IsVisit(visit, tl, r)
                   /\ Visit(tl, n, r) = visit[Wave(tl.rank, {}, <<<<n>>>>)]
  BY VisitExists
<1>2. tl.rank \in [K -> Nat] /\ {} \in SUBSET K
  BY DEF HasFields
<1>3. <<>> \in Seq(Seq(K)) /\ <<n>> \in Seq(K) /\ Len(<<>>) = 0 /\ Append(<<>>, <<n>>) = <<<<n>>>>
  BY EmptySeq
<1>4. Reaches(visit, K, tl.succ, D, r, <<>>, <<n>>, tl.rank, {})
  BY <1>1, <1>2, <1>3, WalksAll
<1>5. PICK rk2 \in [K -> Nat], vis2 \in SUBSET K :
        /\ visit[Wave(tl.rank, {}, Append(<<>>, <<n>>))] = visit[Wave(rk2, vis2, <<>>)]
        /\ Walked(K, tl.succ, D, r + Len(<<>>), <<n>>, tl.rank, {}, rk2, vis2)
  BY <1>4 DEF Reaches
<1>6. r + Len(<<>>) = r
  BY <1>3
<1>7. Wave(rk2, vis2, <<>>) \in Waves(tl) /\ Wave(rk2, vis2, <<>>).out = <<>>
  <2>1. Wave(rk2, vis2, <<>>) \in Waves(tl)
    BY <1>3, WaveType
  <2>2. Wave(rk2, vis2, <<>>).out = <<>>
    BY WaveFields
  <2> QED BY <2>1, <2>2
<1>8. visit[Wave(rk2, vis2, <<>>)] = Wave(rk2, vis2, <<>>)
  BY <1>1, <1>7 DEF IsVisit
<1>9. Visit(tl, n, r) = Wave(rk2, vis2, <<>>)
  BY <1>1, <1>3, <1>5, <1>8
<1> QED BY <1>5, <1>6, <1>9, WaveFields

-----------------------------------------------------------------------------
(***************************************************************************)
(* add_edge_to_the_past, for an array that is sorted.                      *)
(***************************************************************************)
Reranked(tl, rk) == [tl EXCEPT !.rank = rk]

(* New ranks leave the array alone.                                        *)
LEMMA RerankedIs ==
  ASSUME NEW K, NEW tl, HasFields(tl, K), IsArray(tl, K), NEW rk \in [K -> Nat]
  PROVE  /\ Kept(Reranked(tl, rk), tl, K) /\ Reranked(tl, rk).rank = rk
         /\ Reranked(tl, rk).indx = tl.indx
<1> DEFINE u == Reranked(tl, rk)
           li == tl.linear  ix == tl.indx  pv == tl.prev  sc == tl.succ
           pn == tl.pending  tp == tl.tips  cs == tl.cmds  r0 == tl.rank
<1>1. tl = [linear |-> li, indx |-> ix, rank |-> r0, prev |-> pv, succ |-> sc,
            pending |-> pn, tips |-> tp, cmds |-> cs] /\ sc \in [K -> Seq(K)]
  BY DEF HasFields
<1> HIDE DEF li, ix, pv, sc, pn, tp, cs, r0
<1>2. u = [[linear |-> li, indx |-> ix, rank |-> r0, prev |-> pv, succ |-> sc,
            pending |-> pn, tips |-> tp, cmds |-> cs] EXCEPT !.rank = rk]
  BY <1>1, Zenon DEF Reranked
<1>3. u = [linear |-> li, indx |-> ix, rank |-> rk, prev |-> pv, succ |-> sc,
           pending |-> pn, tips |-> tp, cmds |-> cs]
  BY <1>2
<1> HIDE DEF u
<1>4. /\ u.linear = li /\ u.indx = ix /\ u.rank = rk /\ u.prev = pv /\ u.succ = sc
      /\ u.pending = pn /\ u.tips = tp /\ u.cmds = cs
  BY <1>3
<1>5. u = [linear |-> u.linear, indx |-> u.indx, rank |-> u.rank, prev |-> u.prev,
           succ |-> u.succ, pending |-> u.pending, tips |-> u.tips, cmds |-> u.cmds]
  BY <1>3, <1>4
<1>6. HasFields(u, K)
  BY <1>1, <1>4, <1>5 DEF HasFields
<1>7. IsArray(u, K)
  BY <1>4 DEF IsArray, At, li, ix
<1>8. Follows(u, tl)
  BY <1>4 DEF Follows, li, pv, sc, pn, tp
<1>9. \A seq \in Seq(K) : Leads(K, seq, tl.cmds, tl.linear) => Leads(K, seq, u.cmds, u.linear)
  BY <1>4 DEF li, cs
<1> QED BY <1>4, <1>6, <1>7, <1>8, <1>9 DEF Kept, u, ix

(* n has passed only what is before it, or not behind its cause.           *)
PutBehind(w, tl, K, n, cause) ==
  \E p \in tl.indx[n]..Len(tl.linear)-1 :
    /\ Passes(w, tl, K, n, p)
    /\ \A m \in K : tl.indx[m] \in tl.indx[n]+1..p =>
         Before(w, m, n) \/ tl.indx[m] <= tl.indx[cause]

(* Moved to its cause, or risen as it is.                                  *)
LEMMA BehindIs ==
  ASSUME NEW K, NEW tl, HasFields(tl, K), IsArray(tl, K), NEW n \in K, NEW cause \in K
  PROVE  /\ Kept(Behind(tl, n, cause), tl, K) /\ Behind(tl, n, cause).rank = tl.rank
         /\ PutBehind(Behind(tl, n, cause), tl, K, n, cause)
<1>1. CASE tl.indx[n] < tl.indx[cause]
  <2> DEFINE p == tl.indx[cause]
  <2>1. Behind(tl, n, cause) = Jump(tl, n, p)
    BY <1>1 DEF Behind
  <2>2. p \in 0..Len(tl.linear)-1 /\ tl.indx[n] \in Nat /\ Len(tl.linear) \in Nat
        /\ \A m \in K : tl.indx[m] \in Nat
    BY Placed
  <2>3. p \in tl.indx[n]..Len(tl.linear)-1
    <3> DEFINE q == tl.indx[n]
    <3> HIDE DEF p, q
    <3>1. q < p /\ q \in Nat
      BY <1>1, <2>2 DEF p, q
    <3>2. p \in q..Len(tl.linear)-1
      BY <2>2, <3>1
    <3> QED BY <3>2 DEF q
  <2>4. \A m \in K : tl.indx[m] \in tl.indx[n]+1..p => tl.indx[m] <= p
    BY <2>2
  <2> HIDE DEF p
  <2>5. /\ Kept(Jump(tl, n, p), tl, K) /\ Jump(tl, n, p).rank = tl.rank
        /\ Passes(Jump(tl, n, p), tl, K, n, p)
    BY <2>3, JumpKeeps
  <2>6. PutBehind(Jump(tl, n, p), tl, K, n, cause)
    BY <2>3, <2>4, <2>5 DEF PutBehind, p
  <2> QED BY <2>1, <2>5, <2>6
<1>2. CASE ~(tl.indx[n] < tl.indx[cause])
  <2>1. Behind(tl, n, cause) = Rise(tl, n)
    BY <1>2 DEF Behind
  <2>2. Kept(Rise(tl, n), tl, K) /\ Rise(tl, n).rank = tl.rank
    BY RiseIs
  <2>3. \E p \in tl.indx[n]..Len(tl.linear)-1 :
              /\ Passes(Rise(tl, n), tl, K, n, p)
              /\ \A m \in K : tl.indx[m] \in tl.indx[n]+1..p => Before(tl, m, n)
    BY RiseIs
  <2>4. \A m \in K : Before(tl, m, n) => Before(Rise(tl, n), m, n)
    BY <2>2 DEF Before
  <2>5. PutBehind(Rise(tl, n), tl, K, n, cause)
    BY <2>3, <2>4 DEF PutBehind
  <2> QED BY <2>1, <2>2, <2>5
<1> QED BY <1>1, <1>2

(* The parts of an edge to the past. *)
Edge(tl, n, cause) == Visit(tl, n, tl.rank[cause])
EdgeBehind(tl, n, cause) == Behind(Reranked(tl, Edge(tl, n, cause).rank), n, cause)

EdgeParts(u, w, rk2, V, tl, K, D, n, cause) ==
  /\ u = Risen(w, LatestFirst(w, V))
  /\ Walked(K, tl.succ, D, tl.rank[cause], <<n>>, tl.rank, {}, rk2, V)
  /\ V \in SUBSET K /\ IsFiniteSet(V) /\ n \in V
  /\ Kept(w, tl, K) /\ w.rank = rk2 /\ rk2 \in [K -> Nat]
  /\ PutBehind(w, tl, K, n, cause)

(* add_edge_to_the_past in parts: new ranks, one node put behind its cause, *)
(* and the nodes visited that rise.                                        *)
LEMMA EdgeIs ==
  ASSUME NEW K \in SUBSET Nat, IsFiniteSet(K), NEW tl, HasFields(tl, K), IsArray(tl, K),
         NEW n \in K, NEW cause \in K, NEW D, Climbs(K, tl.succ, D),
         NEW bound \in Nat, \A m \in K : D[m] <= bound
  PROVE  \E w, rk2, V : EdgeParts(AddEdge(tl, n, cause), w, rk2, V, tl, K, D, n, cause)
<1> DEFINE r == tl.rank[cause]
           v == Edge(tl, n, cause)
           t1 == Reranked(tl, v.rank)
           w == EdgeBehind(tl, n, cause)
<1>1. r \in Nat
  BY DEF HasFields
<1>2. v = Visit(tl, n, r)
  BY DEF Edge
<1>3. AddEdge(tl, n, cause) = Risen(w, LatestFirst(w, v.visited))
  BY Zenon DEF AddEdge, Edge, EdgeBehind, Reranked
<1>4. w = Behind(t1, n, cause)
  BY DEF EdgeBehind
<1> HIDE DEF r, v, w
<1>5. Walked(K, tl.succ, D, r, <<n>>, tl.rank, {}, v.rank, v.visited)
  BY <1>1, <1>2, VisitIs
<1>6. ToSet(<<n>>) = {n}
  BY DEF ToSet
<1>7. v.rank \in [K -> Nat] /\ v.visited \in SUBSET K /\ n \in v.visited
  BY <1>5, <1>6 DEF Walked
<1>8. IsFiniteSet(v.visited)
  BY <1>7, FS_Subset
<1>9. Kept(t1, tl, K) /\ t1.rank = v.rank /\ t1.indx = tl.indx
  BY <1>7, RerankedIs
<1> HIDE DEF t1
<1>10. HasFields(t1, K) /\ IsArray(t1, K) /\ Len(t1.linear) = Len(tl.linear)
  BY <1>9 DEF Kept, Follows
<1>11. /\ Kept(w, t1, K) /\ w.rank = t1.rank
       /\ PutBehind(w, t1, K, n, cause)
  BY <1>4, <1>10, BehindIs
<1>12. Kept(w, tl, K)
  BY <1>9, <1>11, KeptTwice
<1>13. PutBehind(w, tl, K, n, cause)
  <2>1. PICK p \in t1.indx[n]..Len(t1.linear)-1 :
          /\ Passes(w, t1, K, n, p)
          /\ \A m \in K : t1.indx[m] \in t1.indx[n]+1..p =>
               Before(w, m, n) \/ t1.indx[m] <= t1.indx[cause]
    BY <1>11 DEF PutBehind
  <2>2. p \in tl.indx[n]..Len(tl.linear)-1
    BY <1>9, <1>10, <2>1
  <2>3. Passes(w, tl, K, n, p)
    BY <1>9, <2>1 DEF Passes
  <2> QED BY <1>9, <2>1, <2>2, <2>3 DEF PutBehind
<1>14. w.rank = v.rank
  BY <1>9, <1>11
<1>15. EdgeParts(AddEdge(tl, n, cause), w, v.rank, v.visited, tl, K, D, n, cause)
  BY <1>3, <1>5, <1>7, <1>8, <1>12, <1>13, <1>14 DEF r, EdgeParts
<1> QED BY <1>15

EdgeAdded(u, tl, K, D, n, cause) ==
  /\ Kept(u, tl, K)
  /\ \E vis \in SUBSET K :
       n \in vis /\ Walked(K, tl.succ, D, tl.rank[cause], <<n>>, tl.rank, {}, u.rank, vis)

(* When all are sorted before, all are sorted afterwards.                  *)
LEMMA AddEdgeSorts ==
  ASSUME NEW K \in SUBSET Nat, IsFiniteSet(K), NEW tl, HasFields(tl, K), IsArray(tl, K),
         NEW n \in K, NEW cause \in K, NEW D, Climbs(K, tl.succ, D),
         NEW bound \in Nat, \A m \in K : D[m] <= bound,
         SortedOn(tl, K)
  PROVE  /\ EdgeAdded(AddEdge(tl, n, cause), tl, K, D, n, cause)
         /\ SortedOn(AddEdge(tl, n, cause), K)
<1> DEFINE u == AddEdge(tl, n, cause)
           ix == tl.indx
           rk == tl.rank
<1>0. PICK w, rk2, V : EdgeParts(u, w, rk2, V, tl, K, D, n, cause)
  BY EdgeIs
<1> HIDE DEF u
<1>1. /\ u = Risen(w, LatestFirst(w, V))
      /\ Walked(K, tl.succ, D, tl.rank[cause], <<n>>, tl.rank, {}, rk2, V)
      /\ V \in SUBSET K /\ IsFiniteSet(V) /\ n \in V
      /\ Kept(w, tl, K) /\ w.rank = rk2 /\ rk2 \in [K -> Nat]
      /\ PutBehind(w, tl, K, n, cause)
  BY <1>0, Zenon DEF EdgeParts
<1>2. PICK p \in tl.indx[n]..Len(tl.linear)-1 :
           /\ Passes(w, tl, K, n, p)
           /\ \A m \in K : tl.indx[m] \in tl.indx[n]+1..p =>
                Before(w, m, n) \/ tl.indx[m] <= tl.indx[cause]
  BY <1>1 DEF PutBehind
<1>3. HasFields(w, K) /\ IsArray(w, K)
  BY <1>1 DEF Kept
<1>4. /\ \A m \in K : rk[m] \in Nat /\ rk2[m] \in Nat /\ rk[m] <= rk2[m]
      /\ \A m \in K \ V : rk2[m] = rk[m]
      /\ rk[cause] < rk2[n]
  <2>1. ToSet(<<n>>) = {n}
    BY DEF ToSet
  <2>2. /\ \A m \in K : rk[m] <= rk2[m] /\ (m \notin V => rk2[m] = rk[m])
        /\ \A c \in ToSet(<<n>>) : rk[cause] < rk2[c]
    BY <1>1, Zenon DEF Walked
  <2>3. \A m \in K : rk[m] \in Nat /\ rk2[m] \in Nat
    BY <1>1 DEF HasFields
  <2> QED BY <2>1, <2>2, <2>3
<1>5. ASSUME NEW s \in K \ V, NEW m \in K, Before(tl, s, m) PROVE Before(w, s, m)
  <2> DEFINE rs == rk[s]  rm == rk[m]  rs2 == rk2[s]  rm2 == rk2[m]
  <2>1. rs \in Nat /\ rm \in Nat /\ rs2 = rs /\ rm2 \in Nat /\ rm <= rm2
    BY <1>4
  <2>2. rs < rm \/ (rs = rm /\ s < m)
    BY <1>5 DEF Before
  <2> HIDE DEF rs, rm, rs2, rm2
  <2>3. rs2 < rm2 \/ (rs2 = rm2 /\ s < m)
    BY <2>1, <2>2
  <2> QED BY <1>1, <2>3 DEF Before, rs2, rm2
<1>6. /\ \A a, b \in K \ {n} : w.indx[a] < w.indx[b] <=> ix[a] < ix[b]
      /\ \A a \in K \ {n} : w.indx[a] < w.indx[n] <=> ix[a] <= p
  BY <1>2 DEF Passes
<1>7. /\ \A m \in K : ix[m] \in Nat
      /\ \A a, b \in K : ix[a] = ix[b] => a = b
  BY Placed
<1>8. \A a, b \in K : ix[a] < ix[b] => Before(tl, a, b)
  BY DEF SortedOn
<1>9. SortedOn(w, K \ V)
  <2>1. ASSUME NEW a \in K \ V, NEW b \in K \ V, w.indx[a] < w.indx[b] PROVE Before(w, a, b)
    <3>1. a \in K \ {n} /\ b \in K \ {n}
      BY <1>1
    <3>2. Before(tl, a, b)
      BY <1>6, <1>8, <2>1, <3>1
    <3> QED BY <1>5, <3>2
  <2> QED BY <2>1 DEF SortedOn
<1>10. ASSUME NEW s \in K \ V, NEW m \in V, w.indx[s] < w.indx[m] PROVE Before(w, s, m)
  <2>0. s \in K \ {n} /\ m \in K
    BY <1>1
  <2>1. CASE m # n
    <3>1. ix[s] < ix[m]
      BY <1>6, <1>10, <2>0, <2>1
    <3> QED BY <1>5, <1>8, <2>0, <3>1
  <2>2. CASE m = n
    <3>1. ix[s] <= p /\ ix[s] \in Nat /\ ix[n] \in Nat /\ ix[cause] \in Nat /\ ix[s] # ix[n]
      BY <1>6, <1>7, <1>10, <2>0, <2>2
    <3>2. CASE ix[s] < ix[n]
      BY <1>5, <1>8, <2>0, <2>2, <3>2
    <3>3. CASE ix[s] <= ix[cause]
      <4>1. s = cause \/ Before(tl, s, cause)
        <5>1. ix[s] < ix[cause] \/ ix[s] = ix[cause]
          BY <3>1, <3>3
        <5> QED BY <1>7, <1>8, <2>0, <5>1
      <4>2. rk[s] <= rk[cause]
        <5>1. rk[s] \in Nat /\ rk[cause] \in Nat
          BY <1>4, <2>0
        <5> QED BY <4>1, <5>1 DEF Before
      <4>3. rk2[s] < rk2[n]
        <5>1. rk[s] \in Nat /\ rk[cause] \in Nat /\ rk2[s] = rk[s] /\ rk2[n] \in Nat
              /\ rk[cause] < rk2[n]
          BY <1>4, <2>0
        <5> QED BY <4>2, <5>1
      <4> QED BY <1>1, <2>2, <4>3 DEF Before
    <3>4. CASE ~(ix[s] < ix[n]) /\ ~(ix[s] <= ix[cause])
      <4> DEFINE is == ix[s]  in == ix[n]
      <4>1. is <= p /\ is \in Nat /\ in \in Nat /\ is # in /\ ~(is < in)
        BY <3>1, <3>4
      <4>2. p \in Int
        BY <1>2, <1>7
      <4> HIDE DEF is, in
      <4>3. is \in in+1..p
        BY <4>1, <4>2
      <4> QED BY <1>2, <2>0, <2>2, <3>4, <4>3 DEF is, in
    <3> QED BY <3>2, <3>3, <3>4
  <2> QED BY <2>1, <2>2
<1>11. Kept(u, w, K) /\ u.rank = w.rank /\ SortedOn(u, K)
  BY <1>1, <1>3, <1>9, <1>10, RisenSorts
<1>12. Kept(u, tl, K)
  BY <1>1, <1>11, KeptTwice
<1> QED BY <1>1, <1>11, <1>12 DEF EdgeAdded, u

-----------------------------------------------------------------------------
(***************************************************************************)
(* add_edge_to_the_past, for a node that has no place yet and no effects.  *)
(***************************************************************************)
InPlace(tl, K, n) == \A s \in K \ {n} : tl.indx[s] < tl.indx[n] => Before(tl, s, n)

(* What one cause does to a node that affects nothing yet.                 *)
EdgeFirst(u, tl, K, D, n, cause) ==
  /\ Kept(u, tl, K) /\ SortedOn(u, K \ {n})
  /\ \A m \in K \ {n} : u.rank[m] = tl.rank[m]
  /\ tl.rank[n] <= u.rank[n] /\ tl.rank[cause] < u.rank[n]
  /\ (\A m \in K : tl.rank[m] <= D[m]) /\ tl.rank[cause] < D[n]
       => \A m \in K : u.rank[m] <= D[m]
  /\ \A s \in K \ {n} : u.indx[s] < u.indx[n] => tl.indx[s] < tl.indx[n] \/ Before(u, s, n)
  /\ InPlace(u, K, n) => SortedOn(u, K)

(* Only the new node rises, and it passes only what is before it.          *)
LEMMA AddEdgeFirst ==
  ASSUME NEW K \in SUBSET Nat, IsFiniteSet(K), NEW tl, HasFields(tl, K), IsArray(tl, K),
         NEW n \in K, NEW cause \in K \ {n}, NEW D, Climbs(K, tl.succ, D),
         NEW bound \in Nat, \A m \in K : D[m] <= bound,
         SortedOn(tl, K \ {n}), tl.succ[n] = <<>>
  PROVE  EdgeFirst(AddEdge(tl, n, cause), tl, K, D, n, cause)
<1> DEFINE u == AddEdge(tl, n, cause)
           ix == tl.indx
           rk == tl.rank
<1>0. PICK w, rk2, V : EdgeParts(u, w, rk2, V, tl, K, D, n, cause)
  BY EdgeIs
<1> HIDE DEF u
<1>1. /\ u = Risen(w, LatestFirst(w, V))
      /\ Walked(K, tl.succ, D, tl.rank[cause], <<n>>, tl.rank, {}, rk2, V)
      /\ V \in SUBSET K /\ IsFiniteSet(V) /\ n \in V
      /\ Kept(w, tl, K) /\ w.rank = rk2 /\ rk2 \in [K -> Nat]
      /\ PutBehind(w, tl, K, n, cause)
  BY <1>0, Zenon DEF EdgeParts
<1>2. PICK p \in tl.indx[n]..Len(tl.linear)-1 :
           /\ Passes(w, tl, K, n, p)
           /\ \A m \in K : tl.indx[m] \in tl.indx[n]+1..p =>
                Before(w, m, n) \/ tl.indx[m] <= tl.indx[cause]
  BY <1>1 DEF PutBehind
<1>3. HasFields(w, K) /\ IsArray(w, K)
  BY <1>1 DEF Kept
<1>4. /\ V = {n}
      /\ \A m \in K \ {n} : rk2[m] = rk[m]
      /\ \A m \in K : rk[m] <= rk2[m]
      /\ rk[cause] < rk2[n]
      /\ (\A m \in K : rk[m] <= D[m]) /\ rk[cause] < D[n] => \A m \in K : rk2[m] <= D[m]
  <2>1. ToSet(<<n>>) = {n} /\ ToSet(tl.succ[n]) = {} /\ {n} \in SUBSET K
    BY DEF ToSet
  <2>2. \A U \in SUBSET K :
          (\A a \in U : ToSet(tl.succ[a]) \subseteq U) /\ ToSet(<<n>>) \subseteq U
            => V \subseteq {} \union U /\ \A m \in K \ U : rk2[m] = rk[m]
    BY <1>1, Zenon DEF Walked
  <2>3. V \subseteq {n} /\ \A m \in K \ {n} : rk2[m] = rk[m]
    BY <2>1, <2>2
  <2>4. /\ \A m \in K : rk[m] <= rk2[m]
        /\ \A c \in ToSet(<<n>>) : rk[cause] < rk2[c]
        /\ (\A m \in K : rk[m] <= D[m]) /\ (\A c \in ToSet(<<n>>) : rk[cause] < D[c])
             => \A m \in K : rk2[m] <= D[m]
    BY <1>1, Zenon DEF Walked
  <2> QED BY <1>1, <2>1, <2>3, <2>4
<1>5. u = Rise(w, n)
  BY <1>1, <1>3, <1>4, RisenOne
<1>6. Kept(u, w, K) /\ u.rank = rk2
  BY <1>1, <1>3, <1>5, RiseKeeps
<1>7. Kept(u, tl, K)
  BY <1>1, <1>6, KeptTwice
<1>8. PICK p2 \in w.indx[n]..Len(w.linear)-1 :
        /\ Passes(u, w, K, n, p2)
        /\ \A m \in K : w.indx[m] \in w.indx[n]+1..p2 => Before(w, m, n)
  <2>1. \E q \in w.indx[n]..Len(w.linear)-1 :
          /\ Passes(Rise(w, n), w, K, n, q)
          /\ \A m \in K : w.indx[m] \in w.indx[n]+1..q => Before(w, m, n)
    BY <1>3, RiseIs
  <2> QED BY <1>5, <2>1
<1>9. \A a, b \in K : Before(w, a, b) <=> Before(u, a, b)
  BY <1>1, <1>6 DEF Before
<1>10. \A m \in K : rk[m] \in Nat /\ rk2[m] \in Nat
  BY <1>1 DEF HasFields
<1>11. /\ \A m \in K : ix[m] \in Nat
       /\ \A a, b \in K : ix[a] = ix[b] => a = b
  BY Placed
<1>12. /\ \A m \in K : w.indx[m] \in Nat
       /\ \A a, b \in K : w.indx[a] = w.indx[b] => a = b
  BY <1>3, Placed
<1>13. /\ \A a, b \in K \ {n} : w.indx[a] < w.indx[b] <=> ix[a] < ix[b]
       /\ \A a \in K \ {n} : w.indx[a] < w.indx[n] <=> ix[a] <= p
       /\ \A a, b \in K \ {n} : u.indx[a] < u.indx[b] <=> w.indx[a] < w.indx[b]
       /\ \A a \in K \ {n} : u.indx[a] < u.indx[n] <=> w.indx[a] <= p2
  BY <1>2, <1>8 DEF Passes
<1>14. SortedOn(w, K \ {n})
  <2>1. ASSUME NEW a \in K \ {n}, NEW b \in K \ {n}, w.indx[a] < w.indx[b]
        PROVE  Before(w, a, b)
    <3>1. Before(tl, a, b)
      BY <1>13, <2>1 DEF SortedOn
    <3> QED BY <1>1, <1>4, <3>1 DEF Before
  <2> QED BY <2>1 DEF SortedOn
<1>15. SortedOn(u, K \ {n})
  BY <1>9, <1>13, <1>14 DEF SortedOn
<1>16. ASSUME NEW s \in K \ {n}, w.indx[s] < w.indx[n]
       PROVE  ix[s] < ix[n] \/ Before(w, s, n)
  <2> DEFINE is == ix[s]  in == ix[n]  ic == ix[cause]
  <2>1. is <= p /\ is \in Nat /\ in \in Nat /\ is # in /\ ic \in Nat /\ p \in Int
    BY <1>2, <1>11, <1>13, <1>16
  <2>2. CASE is <= ic
    <3>1. s = cause \/ Before(tl, s, cause)
      <4>1. is < ic \/ is = ic
        <5> HIDE DEF is, ic
        <5> QED BY <2>1, <2>2
      <4> QED BY <1>11, <4>1 DEF SortedOn
    <3> DEFINE rs == rk[s]  rc == rk[cause]  rs2 == rk2[s]  rn2 == rk2[n]
    <3>2. rs \in Nat /\ rc \in Nat /\ rs2 = rs /\ rn2 \in Nat /\ rc < rn2
      BY <1>4, <1>10
    <3>3. rs = rc \/ rs < rc
      BY <3>1 DEF Before
    <3> HIDE DEF rs, rc, rs2, rn2
    <3>4. rs2 < rn2
      BY <3>2, <3>3
    <3> QED BY <1>1, <3>4 DEF Before, rs2, rn2
  <2>3. CASE ~(is <= ic) /\ ~(is < in)
    <3>1. is \in in+1..p
      <4> HIDE DEF is, in
      <4> QED BY <2>1, <2>3
    <3> QED BY <1>2, <2>3, <3>1
  <2> QED BY <2>2, <2>3
<1>17. ASSUME NEW s \in K \ {n}, u.indx[s] < u.indx[n]
       PROVE  ix[s] < ix[n] \/ Before(u, s, n)
  <2> DEFINE is == w.indx[s]  in == w.indx[n]
  <2>1. is <= p2 /\ is \in Nat /\ in \in Nat /\ is # in /\ p2 \in Int
    BY <1>8, <1>12, <1>13, <1>17
  <2>2. CASE is < in
    BY <1>9, <1>16, <2>2
  <2>3. CASE ~(is < in)
    <3>1. is \in in+1..p2
      <4> HIDE DEF is, in
      <4> QED BY <2>1, <2>3
    <3> QED BY <1>8, <1>9, <3>1
  <2> QED BY <2>2, <2>3
<1>18. ASSUME InPlace(u, K, n) PROVE SortedOn(u, K)
  <2>1. ASSUME NEW s \in K \ {n}, w.indx[s] < w.indx[n] PROVE Before(w, s, n)
    <3> DEFINE is == w.indx[s]  in == w.indx[n]
    <3>1. is < in /\ is \in Nat /\ in \in Nat /\ p2 \in Int /\ in <= p2
      BY <1>8, <1>12, <2>1
    <3>2. is <= p2
      <4> HIDE DEF is, in
      <4> QED BY <3>1
    <3>3. u.indx[s] < u.indx[n]
      BY <1>13, <3>2
    <3> QED BY <1>9, <1>18, <3>3 DEF InPlace
  <2> DEFINE S == K \ {n}
  <2>2. S \in SUBSET K /\ n \in K \ S /\ \A m \in K : w.indx[n] < w.indx[m] => m \in S
    <3> DEFINE in == w.indx[n]
    <3>1. in \in Nat
      BY <1>12
    <3>2. ~(in < in)
      <4> HIDE DEF in
      <4> QED BY <3>1
    <3> QED BY <3>2
  <2>3. \A m \in S : w.indx[m] < w.indx[n] => Before(w, m, n)
    BY <2>1
  <2>4. SortedOn(w, S)
    BY <1>14
  <2> HIDE DEF S
  <2>5. SortedOn(Rise(w, n), S \union {n})
    BY <1>3, <2>2, <2>3, <2>4, RiseSorts
  <2>6. S \union {n} = K
    BY DEF S
  <2> QED BY <1>5, <2>5, <2>6
<1>19. rk[n] <= rk2[n]
  BY <1>4
<1> QED BY <1>4, <1>6, <1>7, <1>15, <1>17, <1>18, <1>19 DEF EdgeFirst, u

-----------------------------------------------------------------------------
(***************************************************************************)
(* The causes of a new post, one after the other.                          *)
(***************************************************************************)
(* n has just been put where its last known cause is.                      *)
Ready(tl, K, D, n, known) ==
  /\ HasFields(tl, K) /\ IsArray(tl, K) /\ n \in K
  /\ SortedOn(tl, K \ {n}) /\ tl.succ[n] = <<>>
  /\ Climbs(K, tl.succ, D) /\ (\A m \in K : tl.rank[m] <= D[m])
  /\ known \in Seq(K \ {n}) /\ \A j \in 1..Len(known) : D[known[j]] < D[n]
  /\ \A s \in K \ {n} : tl.indx[s] < tl.indx[n] =>
       \E j \in 1..Len(known) : tl.rank[s] <= tl.rank[known[j]]

(* The first i causes are linked.                                          *)
Linked(u, tl, K, D, n, known, i) ==
  /\ Kept(u, tl, K) /\ SortedOn(u, K \ {n})
  /\ \A m \in K \ {n} : u.rank[m] = tl.rank[m]
  /\ \A j \in 1..i : tl.rank[known[j]] < u.rank[n]
  /\ \A m \in K : u.rank[m] <= D[m]
  /\ \A s \in K \ {n} : u.indx[s] < u.indx[n] => tl.indx[s] < tl.indx[n] \/ Before(u, s, n)
  /\ i # 0 /\ InPlace(u, K, n) => SortedOn(u, K)

(* One cause more.                                                         *)
LEMMA LinkedOn ==
  ASSUME NEW K \in SUBSET Nat, IsFiniteSet(K), NEW tl, NEW D, NEW n, NEW known,
         Ready(tl, K, D, n, known), NEW bound \in Nat, \A m \in K : D[m] <= bound,
         NEW i \in 1..Len(known), NEW w, Linked(w, tl, K, D, n, known, i-1)
  PROVE  Linked(AddEdge(w, n, known[i]), tl, K, D, n, known, i)
<1> DEFINE c == known[i]
           u == AddEdge(w, n, c)
<1>0. Len(known) \in Nat /\ i \in Nat /\ i # 0
  BY DEF Ready
<1>1. n \in K /\ c \in K \ {n} /\ D[c] < D[n]
  BY DEF Ready
<1>2. /\ Kept(w, tl, K) /\ SortedOn(w, K \ {n})
      /\ \A m \in K \ {n} : w.rank[m] = tl.rank[m]
      /\ \A j \in 1..i-1 : tl.rank[known[j]] < w.rank[n]
      /\ \A m \in K : w.rank[m] <= D[m]
      /\ \A s \in K \ {n} : w.indx[s] < w.indx[n] => tl.indx[s] < tl.indx[n] \/ Before(w, s, n)
  BY Zenon DEF Linked
<1>3. HasFields(w, K) /\ IsArray(w, K) /\ w.succ = tl.succ
  BY <1>2 DEF Kept, Follows
<1>4. Climbs(K, w.succ, D) /\ w.succ[n] = <<>>
  BY <1>3 DEF Ready
<1> HIDE DEF c, u
<1>5. EdgeFirst(u, w, K, D, n, c)
  BY <1>1, <1>2, <1>3, <1>4, AddEdgeFirst DEF u
<1>6. /\ Kept(u, w, K) /\ SortedOn(u, K \ {n})
      /\ \A m \in K \ {n} : u.rank[m] = w.rank[m]
      /\ w.rank[n] <= u.rank[n] /\ w.rank[c] < u.rank[n]
      /\ (\A m \in K : w.rank[m] <= D[m]) /\ w.rank[c] < D[n]
           => \A m \in K : u.rank[m] <= D[m]
      /\ \A s \in K \ {n} : u.indx[s] < u.indx[n] => w.indx[s] < w.indx[n] \/ Before(u, s, n)
      /\ InPlace(u, K, n) => SortedOn(u, K)
  BY <1>5, Zenon DEF EdgeFirst
<1>7. Kept(u, tl, K)
  BY <1>2, <1>6, KeptTwice
<1>8. /\ \A m \in K : w.rank[m] \in Nat /\ u.rank[m] \in Nat /\ tl.rank[m] \in Nat
      /\ \A m \in K : D[m] \in Nat
  BY <1>3, <1>7, <1>4 DEF HasFields, Kept, Climbs, Ready
<1>9. \A m \in K : u.rank[m] <= D[m]
  <2> DEFINE a == w.rank[c]  b == D[c]  d == D[n]
  <2>1. a \in Nat /\ b \in Nat /\ d \in Nat /\ a <= b /\ b < d
    BY <1>1, <1>2, <1>8
  <2> HIDE DEF a, b, d
  <2>2. a < d
    BY <2>1
  <2> QED BY <1>2, <1>6, <2>2 DEF a, d
<1>10. \A m \in K \ {n} : u.rank[m] = tl.rank[m]
  BY <1>2, <1>6
<1>11. ASSUME NEW j \in 1..i PROVE tl.rank[known[j]] < u.rank[n]
  <2>1. CASE j = i
    BY <1>1, <1>2, <1>6, <2>1 DEF c
  <2>2. CASE j # i
    <3>1. j \in 1..i-1
      BY <1>0, <2>2
    <3>2. known[j] \in K
      BY <1>0, <3>1 DEF Ready
    <3> DEFINE a == tl.rank[known[j]]  b == w.rank[n]  d == u.rank[n]
    <3>3. a \in Nat /\ b \in Nat /\ d \in Nat /\ a < b /\ b <= d
      BY <1>1, <1>2, <1>6, <1>8, <3>1, <3>2
    <3> HIDE DEF a, b, d
    <3>4. a < d
      BY <3>3
    <3> QED BY <3>4 DEF a, d
  <2> QED BY <2>1, <2>2
<1>12. ASSUME NEW s \in K \ {n}, u.indx[s] < u.indx[n]
       PROVE  tl.indx[s] < tl.indx[n] \/ Before(u, s, n)
  <2>1. ASSUME Before(w, s, n) PROVE Before(u, s, n)
    <3> DEFINE a == w.rank[s]  b == w.rank[n]  d == u.rank[n]
    <3>1. a \in Nat /\ b \in Nat /\ d \in Nat /\ b <= d /\ (a < b \/ (a = b /\ s < n))
          /\ u.rank[s] = a
      BY <1>1, <1>6, <1>8, <2>1 DEF Before
    <3> HIDE DEF a, b, d
    <3>2. a < d \/ (a = d /\ s < n)
      BY <3>1
    <3> QED BY <3>1, <3>2 DEF Before, d
  <2> QED BY <1>2, <1>6, <1>12, <2>1
<1> QED BY <1>6, <1>7, <1>9, <1>10, <1>11, <1>12 DEF Linked, u, c

(* The recursion of Anchored, unrolled.                                    *)
LEMMA LinkedSteps ==
  ASSUME NEW tl, NEW n, NEW known, Len(known) \in Nat, known # <<>>
  PROVE  \E linked :
           /\ Anchored(tl, n, known) = linked[Len(known)] /\ linked[0] = tl
           /\ \A i \in 1..Len(known) : linked[i] = AddEdge(linked[i-1], n, known[i])
<1> DEFINE k == Len(known)
           F(h) == [i \in 0..k |-> IF i = 0 THEN tl ELSE AddEdge(h[i-1], n, known[i])]
           Steps(j, h) == h[0] = tl /\ \A i \in 1..j : h[i] = AddEdge(h[i-1], n, known[i])
           T == {j \in 0..k : ~ \E h : Steps(j, h)}
<1>1. Anchored(tl, n, known) = (CHOOSE h : h = F(h))[k]
  BY DEF Anchored
<1>2. T = {}
  <2> SUFFICES ASSUME T # {} PROVE FALSE
    OBVIOUS
  <2>1. PICK j \in T : \A i \in T : j <= i
    <3>1. T \in SUBSET Nat
      OBVIOUS
    <3> HIDE DEF T
    <3> QED BY <3>1, LeastNat
  <2>2. CASE j = 0
    <3>1. Steps(0, [i \in 0..0 |-> tl])
      OBVIOUS
    <3> QED BY <2>2, <3>1
  <2>3. CASE j # 0
    <3>1. j-1 \in 0..k /\ ~(j <= j-1) /\ j \in Nat
      BY <2>3
    <3>2. j-1 \notin T
      <4> HIDE DEF T
      <4> QED BY <2>1, <3>1
    <3>3. PICK h : Steps(j-1, h)
      BY <3>1, <3>2
    <3> DEFINE g == [i \in 0..j |-> IF i = j THEN AddEdge(h[j-1], n, known[j]) ELSE h[i]]
    <3>4. \A i \in 0..j : i # j => g[i] = h[i]
      OBVIOUS
    <3>5. g[j] = AddEdge(h[j-1], n, known[j])
      BY <3>1
    <3> HIDE DEF g
    <3>6. g[0] = tl
      BY <2>3, <3>1, <3>3, <3>4
    <3>7. ASSUME NEW i \in 1..j PROVE g[i] = AddEdge(g[i-1], n, known[i])
      <4>1. i-1 \in 0..j /\ i-1 # j
        BY <3>1
      <4>2. g[i-1] = h[i-1]
        BY <3>4, <4>1
      <4>3. CASE i = j
        BY <3>5, <4>2, <4>3
      <4>4. CASE i # j
        <5>1. i \in 0..j /\ i \in 1..j-1
          BY <3>1, <4>4
        <5> QED BY <3>3, <3>4, <4>2, <4>4, <5>1
      <4> QED BY <4>3, <4>4
    <3>8. Steps(j, g)
      BY <3>6, <3>7
    <3> HIDE DEF Steps
    <3> QED BY <2>1, <3>8
  <2> QED BY <2>2, <2>3
<1>3. PICK h : Steps(k, h)
  <2>1. k \in 0..k
    OBVIOUS
  <2> QED BY <1>2, <2>1, Zenon
<1> DEFINE h2 == [i \in 0..k |-> h[i]]
<1>4. h2 = F(h2)
  <2>1. ASSUME NEW i \in 0..k
        PROVE  h2[i] = IF i = 0 THEN tl ELSE AddEdge(h2[i-1], n, known[i])
    <3>1. CASE i = 0
      BY <1>3, <3>1
    <3>2. CASE i # 0
      <4>1. i \in 1..k /\ i-1 \in 0..k
        BY <3>2
      <4> QED BY <1>3, <3>2, <4>1
    <3> QED BY <3>1, <3>2
  <2>2. h2 = [i \in 0..k |-> h2[i]]
    OBVIOUS
  <2> HIDE DEF h2
  <2> QED BY <2>1, <2>2
<1> DEFINE linked == CHOOSE f : f = F(f)
<1>5. linked = F(linked)
  <2> HIDE DEF F, h2
  <2> QED BY <1>4
<1>6. linked[0] = tl /\ \A i \in 1..k : linked[i] = AddEdge(linked[i-1], n, known[i])
  <2> HIDE DEF linked
  <2> QED BY <1>5
<1> HIDE DEF linked
<1> QED BY <1>1, <1>6 DEF linked

(* The sort is complete again, and n is above all its known causes.        *)
IsAnchored(u, tl, K, D, n, known) ==
  /\ Kept(u, tl, K) /\ SortedOn(u, K)
  /\ \A m \in K \ {n} : u.rank[m] = tl.rank[m]
  /\ \A j \in 1..Len(known) : tl.rank[known[j]] < u.rank[n]
  /\ \A m \in K : u.rank[m] <= D[m]

(* When all causes are linked, or there are none, the array is sorted.     *)
LEMMA AnchoredIs ==
  ASSUME NEW K \in SUBSET Nat, IsFiniteSet(K), NEW tl, NEW D, NEW n, NEW known,
         Ready(tl, K, D, n, known), NEW bound \in Nat, \A m \in K : D[m] <= bound
  PROVE  IsAnchored(Anchored(tl, n, known), tl, K, D, n, known)
<1>1. /\ HasFields(tl, K) /\ IsArray(tl, K) /\ n \in K /\ SortedOn(tl, K \ {n})
      /\ (\A m \in K : tl.rank[m] <= D[m])
      /\ known \in Seq(K \ {n})
      /\ \A s \in K \ {n} : tl.indx[s] < tl.indx[n] =>
           \E j \in 1..Len(known) : tl.rank[s] <= tl.rank[known[j]]
  BY Zenon DEF Ready
<1>2. Len(known) \in Nat
  BY <1>1
<1>3. CASE known = <<>>
  <2>1. Anchored(tl, n, known) = Rise(tl, n) /\ Len(known) = 0
    BY <1>3 DEF Anchored
  <2>2. \A s \in K \ {n} : ~(tl.indx[s] < tl.indx[n])
    BY <1>1, <2>1
  <2>3. Kept(Rise(tl, n), tl, K) /\ Rise(tl, n).rank = tl.rank
    BY <1>1, RiseKeeps
  <2> DEFINE S == K \ {n}
  <2>4. S \in SUBSET K /\ n \in K \ S /\ \A m \in K : tl.indx[n] < tl.indx[m] => m \in S
    <3> DEFINE in == tl.indx[n]
    <3>1. in \in Nat
      BY <1>1, Placed
    <3>2. ~(in < in)
      <4> HIDE DEF in
      <4> QED BY <3>1
    <3> QED BY <1>1, <3>2
  <2>5. \A m \in S : tl.indx[m] < tl.indx[n] => Before(tl, m, n)
    BY <2>2
  <2>6. SortedOn(tl, S)
    BY <1>1
  <2> HIDE DEF S
  <2>7. SortedOn(Rise(tl, n), S \union {n})
    BY <1>1, <2>4, <2>5, <2>6, RiseSorts
  <2>8. S \union {n} = K
    BY <1>1 DEF S
  <2>9. \A j \in 1..Len(known) : FALSE
    BY <2>1
  <2> QED BY <1>1, <2>1, <2>3, <2>7, <2>8, <2>9 DEF IsAnchored
<1>4. CASE known # <<>>
  <2>1. PICK linked :
           /\ Anchored(tl, n, known) = linked[Len(known)] /\ linked[0] = tl
           /\ \A i \in 1..Len(known) : linked[i] = AddEdge(linked[i-1], n, known[i])
    BY <1>2, <1>4, LinkedSteps
  <2> DEFINE k == Len(known)
             J(i) == Linked(linked[i], tl, K, D, n, known, i)
             T == {i \in 0..k : ~J(i)}
  <2>2. J(0)
    <3>1. Kept(tl, tl, K)
      BY <1>1, KeptAlways
    <3>2. \A j \in 1..0 : tl.rank[known[j]] < tl.rank[n]
      OBVIOUS
    <3>3. Linked(tl, tl, K, D, n, known, 0)
      BY <1>1, <3>1, <3>2, Zenon DEF Linked
    <3> QED BY <2>1, <3>3
  <2>3. ASSUME NEW i \in 1..k, J(i-1) PROVE J(i)
    BY <2>1, <2>3, LinkedOn
  <2> HIDE DEF J
  <2>4. T = {}
    <3> SUFFICES ASSUME T # {} PROVE FALSE
      OBVIOUS
    <3>1. PICK i \in T : \A j \in T : i <= j
      <4>1. T \in SUBSET Nat
        OBVIOUS
      <4> HIDE DEF T
      <4> QED BY <4>1, LeastNat
    <3>2. i \in 0..k /\ ~J(i)
      OBVIOUS
    <3>3. i # 0
      BY <2>2, <3>2
    <3>4. i \in 1..k /\ i-1 \in 0..k /\ ~(i <= i-1)
      BY <1>2, <3>2, <3>3
    <3>5. i-1 \notin T
      <4> HIDE DEF T
      <4> QED BY <3>1, <3>4
    <3> QED BY <2>3, <3>2, <3>4, <3>5
  <2>5. J(k)
    <3>1. k \in 0..k
      BY <1>2
    <3> QED BY <2>4, <3>1
  <2> DEFINE u == Anchored(tl, n, known)
  <2>6. Linked(u, tl, K, D, n, known, k)
    BY <2>1, <2>5 DEF J
  <2> HIDE DEF u
  <2>7. /\ Kept(u, tl, K) /\ SortedOn(u, K \ {n})
        /\ \A m \in K \ {n} : u.rank[m] = tl.rank[m]
        /\ \A j \in 1..k : tl.rank[known[j]] < u.rank[n]
        /\ \A m \in K : u.rank[m] <= D[m]
        /\ \A s \in K \ {n} : u.indx[s] < u.indx[n] => tl.indx[s] < tl.indx[n] \/ Before(u, s, n)
        /\ k # 0 /\ InPlace(u, K, n) => SortedOn(u, K)
    BY <2>6, Zenon DEF Linked
  <2>8. k # 0
    BY <1>1, <1>4
  <2>9. \A m \in K : tl.rank[m] \in Nat /\ u.rank[m] \in Nat
    BY <1>1, <2>7 DEF HasFields, Kept
  <2>10. ASSUME NEW s \in K \ {n}, u.indx[s] < u.indx[n] PROVE Before(u, s, n)
    <3>1. CASE tl.indx[s] < tl.indx[n]
      <4>1. PICK j \in 1..k : tl.rank[s] <= tl.rank[known[j]]
        BY <1>1, <3>1
      <4>2. known[j] \in K
        BY <1>1, <4>1
      <4> DEFINE a == tl.rank[s]  b == tl.rank[known[j]]  d == u.rank[n]
      <4>3. a \in Nat /\ b \in Nat /\ d \in Nat /\ a <= b /\ b < d /\ u.rank[s] = a
        BY <1>1, <2>7, <2>9, <4>1, <4>2
      <4> HIDE DEF a, b, d
      <4>4. a < d
        BY <4>3
      <4> QED BY <4>3, <4>4 DEF Before, d
    <3> QED BY <2>7, <2>10, <3>1
  <2>11. SortedOn(u, K)
    BY <2>7, <2>8, <2>10 DEF InPlace
  <2>12. IsAnchored(u, tl, K, D, n, known)
    BY <2>7, <2>11 DEF IsAnchored
  <2> QED BY <2>12 DEF u
<1> QED BY <1>3, <1>4

-----------------------------------------------------------------------------
(***************************************************************************)
(* One effect that waited for the new post.                                *)
(***************************************************************************)
WithEdge(w, n, e) ==
  [w EXCEPT !.succ[n] = Append(@, e), !.tips = @ \ {n}, !.prev[e] = @ \union {n}]
EdgeLinked(u, w, K, n, e) ==
  /\ HasFields(u, K) /\ IsArray(u, K)
  /\ u.linear = w.linear /\ u.indx = w.indx /\ u.rank = w.rank /\ u.cmds = w.cmds
  /\ u.pending = w.pending /\ u.tips = w.tips \ {n}
  /\ u.succ = [w.succ EXCEPT ![n] = Append(@, e)]
  /\ u.prev = [w.prev EXCEPT ![e] = @ \union {n}]

(* An effect is entered at its cause, and the cause at its effect.         *)
LEMMA WithEdgeIs ==
  ASSUME NEW K, NEW w, HasFields(w, K), IsArray(w, K), NEW n \in K, NEW e \in K
  PROVE  EdgeLinked(WithEdge(w, n, e), w, K, n, e)
<1> DEFINE u == WithEdge(w, n, e)
           li == w.linear  ix == w.indx  pv == w.prev  sc == w.succ
           pn == w.pending  tp == w.tips  cs == w.cmds  rk == w.rank
           sc2 == [sc EXCEPT ![n] = Append(@, e)]
           pv2 == [pv EXCEPT ![e] = @ \union {n}]
<1>1. w = [linear |-> li, indx |-> ix, rank |-> rk, prev |-> pv, succ |-> sc,
           pending |-> pn, tips |-> tp, cmds |-> cs]
      /\ sc \in [K -> Seq(K)] /\ rk \in [K -> Nat]
  BY DEF HasFields
<1>2. sc2 \in [K -> Seq(K)]
  <2>1. Append(sc[n], e) \in Seq(K)
    BY <1>1
  <2> HIDE DEF sc
  <2> QED BY <1>1, <2>1
<1> HIDE DEF li, ix, pv, sc, pn, tp, cs, rk
<1>3. u = [[linear |-> li, indx |-> ix, rank |-> rk, prev |-> pv, succ |-> sc,
            pending |-> pn, tips |-> tp, cmds |-> cs]
             EXCEPT !.succ[n] = Append(@, e), !.tips = @ \ {n}, !.prev[e] = @ \union {n}]
  BY <1>1, Zenon DEF WithEdge
<1>4. u = [linear |-> li, indx |-> ix, rank |-> rk, prev |-> pv2, succ |-> sc2,
           pending |-> pn, tips |-> tp \ {n}, cmds |-> cs]
  BY <1>3
<1> HIDE DEF u, sc2, pv2
<1>5. /\ u.linear = li /\ u.indx = ix /\ u.rank = rk /\ u.prev = pv2 /\ u.succ = sc2
      /\ u.pending = pn /\ u.tips = tp \ {n} /\ u.cmds = cs
  BY <1>4
<1>6. u = [linear |-> u.linear, indx |-> u.indx, rank |-> u.rank, prev |-> u.prev,
           succ |-> u.succ, pending |-> u.pending, tips |-> u.tips, cmds |-> u.cmds]
  BY <1>4, <1>5
<1>7. HasFields(u, K)
  BY <1>1, <1>2, <1>5, <1>6 DEF HasFields
<1>8. IsArray(u, K)
  BY <1>5 DEF IsArray, At, li, ix
<1>9. u.succ = [w.succ EXCEPT ![n] = Append(@, e)]
  BY <1>5 DEF sc2, sc
<1>10. u.prev = [w.prev EXCEPT ![e] = @ \union {n}]
  BY <1>5 DEF pv2, pv
<1>11. /\ u.linear = w.linear /\ u.indx = w.indx /\ u.rank = w.rank /\ u.cmds = w.cmds
       /\ u.pending = w.pending /\ u.tips = w.tips \ {n}
  BY <1>5 DEF li, ix, rk, cs, pn, tp
<1>12. EdgeLinked(u, w, K, n, e)
  BY <1>7, <1>8, <1>9, <1>10, <1>11 DEF EdgeLinked
<1> QED BY <1>12 DEF u

(* The array is sorted, and every link is to a larger rank.                *)
Ordered(tl, K, D) ==
  /\ HasFields(tl, K) /\ IsArray(tl, K) /\ SortedOn(tl, K)
  /\ Climbs(K, tl.succ, D) /\ Climbs(K, tl.succ, tl.rank)
  /\ \A m \in K : tl.rank[m] <= D[m]

Joined(u, tl, K, D, n, e) ==
  /\ Ordered(u, K, D)
  /\ u.succ = [tl.succ EXCEPT ![n] = Append(@, e)]
  /\ u.prev = [tl.prev EXCEPT ![e] = @ \union {n}]
  /\ u.tips = tl.tips \ {n} /\ u.pending = tl.pending
  /\ \A seq \in Seq(K) : Leads(K, seq, tl.cmds, tl.linear) => Leads(K, seq, u.cmds, u.linear)

(* A link more to a larger one. *)
LEMMA ClimbsMore ==
  ASSUME NEW K, NEW succ, NEW D, Climbs(K, succ, D), NEW n \in K, NEW e \in K, D[n] < D[e]
  PROVE  Climbs(K, [succ EXCEPT ![n] = Append(@, e)], D)
<1> DEFINE s2 == [succ EXCEPT ![n] = Append(@, e)]
<1>1. succ \in [K -> Seq(K)] /\ D \in [K -> Nat]
  BY DEF Climbs
<1>2. s2[n] = Append(succ[n], e) /\ (\A m \in K \ {n} : s2[m] = succ[m]) /\ s2 \in [K -> Seq(K)]
  <2>1. Append(succ[n], e) \in Seq(K)
    BY <1>1
  <2> QED BY <1>1, <2>1
<1> HIDE DEF s2
<1>3. ToSet(s2[n]) = ToSet(succ[n]) \union {e}
  BY <1>1, <1>2, FrontOfAppend
<1>4. ASSUME NEW a \in K
      PROVE  ToSet(s2[a]) \in SUBSET K /\ \A b \in ToSet(s2[a]) : D[a] < D[b]
  <2>1. ToSet(succ[a]) \in SUBSET K /\ \A b \in ToSet(succ[a]) : D[a] < D[b]
    BY DEF Climbs
  <2>2. CASE a = n
    BY <1>3, <2>1, <2>2
  <2>3. CASE a # n
    BY <1>2, <2>1, <2>3
  <2> QED BY <2>2, <2>3
<1>5. Climbs(K, s2, D)
  BY <1>1, <1>2, <1>4 DEF Climbs
<1> QED BY <1>5 DEF s2

(* The effect goes behind n, with all it affects; n keeps its rank, which  *)
(* is below.                                                               *)
LEMMA EffectIs ==
  ASSUME NEW K \in SUBSET Nat, IsFiniteSet(K), NEW tl, NEW D, Ordered(tl, K, D),
         NEW n \in K, NEW e \in K, D[n] < D[e], NEW bound \in Nat, \A m \in K : D[m] <= bound
  PROVE  Joined(Effect(tl, n, e), tl, K, D, n, e)
<1> DEFINE w == AddEdge(tl, e, n)
           u == Effect(tl, n, e)
           rk == tl.rank
           rk2 == w.rank
<1>1. /\ HasFields(tl, K) /\ IsArray(tl, K) /\ SortedOn(tl, K)
      /\ Climbs(K, tl.succ, D) /\ Climbs(K, tl.succ, rk)
      /\ \A m \in K : rk[m] <= D[m]
  BY Zenon DEF Ordered
<1>2. EdgeAdded(w, tl, K, D, e, n) /\ SortedOn(w, K)
  BY <1>1, AddEdgeSorts
<1>3. u = WithEdge(w, n, e)
  BY Zenon DEF Effect, WithEdge
<1> HIDE DEF w, u
<1>4. Kept(w, tl, K)
  BY <1>2 DEF EdgeAdded
<1>5. HasFields(w, K) /\ IsArray(w, K) /\ Follows(w, tl)
  BY <1>4 DEF Kept
<1>6. EdgeLinked(u, w, K, n, e)
  BY <1>3, <1>5, WithEdgeIs
<1>7. /\ HasFields(u, K) /\ IsArray(u, K)
      /\ u.linear = w.linear /\ u.indx = w.indx /\ u.rank = w.rank /\ u.cmds = w.cmds
      /\ u.pending = w.pending /\ u.tips = w.tips \ {n}
      /\ u.succ = [w.succ EXCEPT ![n] = Append(@, e)]
      /\ u.prev = [w.prev EXCEPT ![e] = @ \union {n}]
  BY <1>6, Zenon DEF EdgeLinked
<1>8. /\ w.succ = tl.succ /\ w.prev = tl.prev /\ w.pending = tl.pending /\ w.tips = tl.tips
  BY <1>5 DEF Follows
<1>9. PICK vis \in SUBSET K : Walked(K, tl.succ, D, rk[n], <<e>>, rk, {}, rk2, vis)
  BY <1>2, Zenon DEF EdgeAdded
<1>10. D \in [K -> Nat] /\ rk \in [K -> Nat] /\ rk2 \in [K -> Nat]
  BY <1>1, <1>5 DEF Climbs, HasFields
<1>11. ToSet(<<e>>) = {e}
  BY DEF ToSet
<1>12. /\ \A m \in K : rk2[m] <= D[m]
       /\ rk[n] < rk2[e]
       /\ \A a \in K : \A b \in ToSet(tl.succ[a]) : rk2[a] < rk2[b]
  <2>1. /\ \A c \in ToSet(<<e>>) : rk[n] < rk2[c]
        /\ \A a \in K : \A b \in ToSet(tl.succ[a]) :
             rk[a] < rk[b] \/ rk2[a] # rk[a] => rk2[a] < rk2[b]
        /\ (\A m \in K : rk[m] <= D[m]) /\ (\A c \in ToSet(<<e>>) : rk[n] < D[c])
             => \A m \in K : rk2[m] <= D[m]
    BY <1>9, Zenon DEF Walked
  <2>2. \A a \in K : \A b \in ToSet(tl.succ[a]) : rk[a] < rk[b]
    BY <1>1 DEF Climbs
  <2>3. rk[n] < D[e]
    <3> DEFINE a == rk[n]  b == D[n]  d == D[e]
    <3>1. a \in Nat /\ b \in Nat /\ d \in Nat /\ a <= b /\ b < d
      BY <1>1, <1>10
    <3> HIDE DEF a, b, d
    <3>2. a < d
      BY <3>1
    <3> QED BY <3>2 DEF a, d
  <2> QED BY <1>1, <1>11, <2>1, <2>2, <2>3
<1>13. rk2[n] = rk[n]
  <2> DEFINE U == {m \in K : D[e] <= D[m]}
  <2>1. n \notin U /\ e \in U /\ U \in SUBSET K
    BY <1>10
  <2>2. ASSUME NEW a \in U PROVE ToSet(tl.succ[a]) \subseteq U
    <3>1. ASSUME NEW b \in ToSet(tl.succ[a]) PROVE b \in U
      <4>1. b \in K /\ D[a] < D[b] /\ a \in K /\ D[e] <= D[a]
        BY <1>1 DEF Climbs
      <4> DEFINE x == D[a]  y == D[b]  z == D[e]
      <4>2. x \in Nat /\ y \in Nat /\ z \in Nat /\ x < y /\ z <= x
        BY <1>10, <4>1
      <4> HIDE DEF x, y, z
      <4>3. z <= y
        BY <4>2
      <4> QED BY <4>1, <4>3 DEF y, z
    <3> QED BY <3>1
  <2> HIDE DEF U
  <2>3. \A X \in SUBSET K :
          (\A a \in X : ToSet(tl.succ[a]) \subseteq X) /\ ToSet(<<e>>) \subseteq X
            => vis \subseteq {} \union X /\ \A m \in K \ X : rk2[m] = rk[m]
    BY <1>9, Zenon DEF Walked
  <2> QED BY <1>11, <2>1, <2>2, <2>3
<1>14. Climbs(K, tl.succ, rk2)
  BY <1>1, <1>10, <1>12 DEF Climbs
<1>15. rk2[n] < rk2[e]
  BY <1>12, <1>13
<1>16. Climbs(K, u.succ, D) /\ Climbs(K, u.succ, u.rank)
  <2>1. Climbs(K, [tl.succ EXCEPT ![n] = Append(@, e)], D)
    BY <1>1, ClimbsMore
  <2>2. Climbs(K, [tl.succ EXCEPT ![n] = Append(@, e)], rk2)
    <3> HIDE DEF rk2
    <3> QED BY <1>14, <1>15, ClimbsMore
  <2> QED BY <1>7, <1>8, <2>1, <2>2
<1>17. SortedOn(u, K)
  BY <1>2, <1>7 DEF SortedOn, Before
<1>18. Ordered(u, K, D)
  BY <1>7, <1>12, <1>16, <1>17 DEF Ordered
<1>19. \A seq \in Seq(K) : Leads(K, seq, tl.cmds, tl.linear) => Leads(K, seq, u.cmds, u.linear)
  BY <1>4, <1>7 DEF Kept
<1>20. Joined(u, tl, K, D, n, e)
  BY <1>7, <1>8, <1>18, <1>19 DEF Joined
<1> QED BY <1>20 DEF u

-----------------------------------------------------------------------------
(***************************************************************************)
(* All the effects that waited for it.                                     *)
(***************************************************************************)
(* The effects that wait for n *)
Waiting(tl, n) == IF n \in DOMAIN tl.pending THEN tl.pending[n] ELSE <<>>

(* The recursion of Effects, unrolled.                                     *)
LEMMA EffectsSteps ==
  ASSUME NEW tl, NEW n, Len(Waiting(tl, n)) \in Nat
  PROVE  \E joined :
           /\ Effects(tl, n) = joined[Len(Waiting(tl, n))] /\ joined[0] = tl
           /\ \A i \in 1..Len(Waiting(tl, n)) :
                joined[i] = Effect(joined[i-1], n, Waiting(tl, n)[i])
<1> DEFINE wt == Waiting(tl, n)
           k == Len(wt)
           F(h) == [i \in 0..k |-> IF i = 0 THEN tl ELSE Effect(h[i-1], n, wt[i])]
           Steps(j, h) == h[0] = tl /\ \A i \in 1..j : h[i] = Effect(h[i-1], n, wt[i])
           T == {j \in 0..k : ~ \E h : Steps(j, h)}
<1>1. Effects(tl, n) = (CHOOSE h : h = F(h))[k]
  BY DEF Effects, Waiting
<1> HIDE DEF wt
<1>2. T = {}
  <2> SUFFICES ASSUME T # {} PROVE FALSE
    OBVIOUS
  <2>1. PICK j \in T : \A i \in T : j <= i
    <3>1. T \in SUBSET Nat
      OBVIOUS
    <3> HIDE DEF T
    <3> QED BY <3>1, LeastNat
  <2>2. CASE j = 0
    <3>1. Steps(0, [i \in 0..0 |-> tl])
      OBVIOUS
    <3> QED BY <2>2, <3>1
  <2>3. CASE j # 0
    <3>1. j-1 \in 0..k /\ ~(j <= j-1) /\ j \in Nat
      BY <2>3
    <3>2. j-1 \notin T
      <4> HIDE DEF T
      <4> QED BY <2>1, <3>1
    <3>3. PICK h : Steps(j-1, h)
      BY <3>1, <3>2
    <3> DEFINE g == [i \in 0..j |-> IF i = j THEN Effect(h[j-1], n, wt[j]) ELSE h[i]]
    <3>4. \A i \in 0..j : i # j => g[i] = h[i]
      OBVIOUS
    <3>5. g[j] = Effect(h[j-1], n, wt[j])
      BY <3>1
    <3> HIDE DEF g
    <3>6. g[0] = tl
      BY <2>3, <3>1, <3>3, <3>4
    <3>7. ASSUME NEW i \in 1..j PROVE g[i] = Effect(g[i-1], n, wt[i])
      <4>1. i-1 \in 0..j /\ i-1 # j
        BY <3>1
      <4>2. g[i-1] = h[i-1]
        BY <3>4, <4>1
      <4>3. CASE i = j
        BY <3>5, <4>2, <4>3
      <4>4. CASE i # j
        <5>1. i \in 0..j /\ i \in 1..j-1
          BY <3>1, <4>4
        <5> QED BY <3>3, <3>4, <4>2, <4>4, <5>1
      <4> QED BY <4>3, <4>4
    <3>8. Steps(j, g)
      BY <3>6, <3>7
    <3> HIDE DEF Steps
    <3> QED BY <2>1, <3>8
  <2> QED BY <2>2, <2>3
<1>3. PICK h : Steps(k, h)
  <2>1. k \in 0..k
    OBVIOUS
  <2> QED BY <1>2, <2>1, Zenon
<1> DEFINE h2 == [i \in 0..k |-> h[i]]
<1>4. h2 = F(h2)
  <2>1. ASSUME NEW i \in 0..k
        PROVE  h2[i] = IF i = 0 THEN tl ELSE Effect(h2[i-1], n, wt[i])
    <3>1. CASE i = 0
      BY <1>3, <3>1
    <3>2. CASE i # 0
      <4>1. i \in 1..k /\ i-1 \in 0..k
        BY <3>2
      <4> QED BY <1>3, <3>2, <4>1
    <3> QED BY <3>1, <3>2
  <2>2. h2 = [i \in 0..k |-> h2[i]]
    OBVIOUS
  <2> HIDE DEF h2
  <2> QED BY <2>1, <2>2
<1> DEFINE joined == CHOOSE f : f = F(f)
<1>5. joined = F(joined)
  <2> HIDE DEF F, h2
  <2> QED BY <1>4
<1>6. joined[0] = tl /\ \A i \in 1..k : joined[i] = Effect(joined[i-1], n, wt[i])
  <2> HIDE DEF joined
  <2> QED BY <1>5
<1> HIDE DEF joined
<1> QED BY <1>1, <1>6 DEF joined, wt

IsJoined(u, tl, K, D, n, W) ==
  /\ Ordered(u, K, D)
  /\ (\A m \in K \ {n} : u.succ[m] = tl.succ[m]) /\ ToSet(u.succ[n]) = W
  /\ u.prev = [m \in K |-> IF m \in W THEN tl.prev[m] \union {n} ELSE tl.prev[m]]
  /\ u.tips = (IF W = {} THEN tl.tips ELSE tl.tips \ {n}) /\ u.pending = tl.pending
  /\ \A seq \in Seq(K) : Leads(K, seq, tl.cmds, tl.linear) => Leads(K, seq, u.cmds, u.linear)

(* One effect more.                                                        *)
LEMMA JoinedOn ==
  ASSUME NEW K \in SUBSET Nat, IsFiniteSet(K), NEW tl, NEW D, NEW n \in K, NEW W \in SUBSET (K \ {n}),
         NEW w, IsJoined(w, tl, K, D, n, W),
         NEW e \in K \ {n}, D[n] < D[e], NEW bound \in Nat, \A m \in K : D[m] <= bound
  PROVE  IsJoined(Effect(w, n, e), tl, K, D, n, W \union {e})
<1> DEFINE u == Effect(w, n, e)
<1>1. /\ Ordered(w, K, D)
      /\ (\A m \in K \ {n} : w.succ[m] = tl.succ[m]) /\ ToSet(w.succ[n]) = W
      /\ w.prev = [m \in K |-> IF m \in W THEN tl.prev[m] \union {n} ELSE tl.prev[m]]
      /\ w.tips = (IF W = {} THEN tl.tips ELSE tl.tips \ {n}) /\ w.pending = tl.pending
      /\ \A seq \in Seq(K) : Leads(K, seq, tl.cmds, tl.linear) => Leads(K, seq, w.cmds, w.linear)
  BY Zenon DEF IsJoined
<1>2. Joined(u, w, K, D, n, e)
  BY <1>1, EffectIs
<1> HIDE DEF u
<1>3. /\ Ordered(u, K, D)
      /\ u.succ = [w.succ EXCEPT ![n] = Append(@, e)]
      /\ u.prev = [w.prev EXCEPT ![e] = @ \union {n}]
      /\ u.tips = w.tips \ {n} /\ u.pending = w.pending
      /\ \A seq \in Seq(K) : Leads(K, seq, w.cmds, w.linear) => Leads(K, seq, u.cmds, u.linear)
  BY <1>2, Zenon DEF Joined
<1>4. w.succ \in [K -> Seq(K)]
  BY <1>1 DEF Ordered, HasFields
<1>5. (\A m \in K \ {n} : u.succ[m] = tl.succ[m]) /\ u.succ[n] = Append(w.succ[n], e)
  BY <1>1, <1>3, <1>4
<1>6. ToSet(u.succ[n]) = W \union {e}
  <2>1. w.succ[n] \in Seq(K)
    BY <1>4
  <2>2. ToSet(Append(w.succ[n], e)) = ToSet(w.succ[n]) \union {e}
    BY <2>1, FrontOfAppend
  <2> QED BY <1>1, <1>5, <2>2
<1>7. u.prev = [m \in K |-> IF m \in W \union {e} THEN tl.prev[m] \union {n} ELSE tl.prev[m]]
  <2> DEFINE P == [m \in K |-> IF m \in W THEN tl.prev[m] \union {n} ELSE tl.prev[m]]
             P2 == [m \in K |-> IF m \in W \union {e} THEN tl.prev[m] \union {n} ELSE tl.prev[m]]
  <2>1. u.prev = [P EXCEPT ![e] = P[e] \union {n}]
    BY <1>1, <1>3
  <2>2. ASSUME NEW m \in K PROVE [P EXCEPT ![e] = P[e] \union {n}][m] = P2[m]
    <3>1. CASE m = e
      <4>1. P[e] \union {n} = tl.prev[e] \union {n}
        OBVIOUS
      <4>2. P2[e] = tl.prev[e] \union {n}
        OBVIOUS
      <4>3. [P EXCEPT ![e] = P[e] \union {n}][e] = P[e] \union {n}
        OBVIOUS
      <4> QED BY <3>1, <4>1, <4>2, <4>3
    <3>2. CASE m # e
      BY <3>2
    <3> QED BY <3>1, <3>2
  <2>3. [P EXCEPT ![e] = P[e] \union {n}] = P2
    BY <2>2
  <2> QED BY <2>1, <2>3
<1>8. u.tips = (IF W \union {e} = {} THEN tl.tips ELSE tl.tips \ {n}) /\ u.pending = tl.pending
  <2>1. W \union {e} # {}
    OBVIOUS
  <2>2. u.tips = tl.tips \ {n}
    BY <1>1, <1>3
  <2> QED BY <1>1, <1>3, <2>1, <2>2
<1>9. \A seq \in Seq(K) : Leads(K, seq, tl.cmds, tl.linear) => Leads(K, seq, u.cmds, u.linear)
  BY <1>1, <1>3
<1>10. IsJoined(u, tl, K, D, n, W \union {e})
  BY <1>3, <1>5, <1>6, <1>7, <1>8, <1>9 DEF IsJoined
<1> QED BY <1>10 DEF u

(* All that were waiting have n as their cause.                            *)
LEMMA EffectsIs ==
  ASSUME NEW K \in SUBSET Nat, IsFiniteSet(K), NEW tl, NEW D, Ordered(tl, K, D), NEW n \in K,
         tl.succ[n] = <<>>, DOMAIN tl.prev = K, tl.prev = [m \in K |-> tl.prev[m]],
         Waiting(tl, n) \in Seq(K \ {n}),
         \A e \in ToSet(Waiting(tl, n)) : D[n] < D[e], NEW bound \in Nat, \A m \in K : D[m] <= bound
  PROVE  IsJoined(Effects(tl, n), tl, K, D, n, ToSet(Waiting(tl, n)))
<1> DEFINE wt == Waiting(tl, n)
           k == Len(wt)
           Y(i) == {wt[j] : j \in 1..i}
<1>1. k \in Nat /\ \A i \in 1..k : wt[i] \in K \ {n}
  OBVIOUS
<1>2. ToSet(wt) = Y(k)
  <2> HIDE DEF wt
  <2> QED BY ToSetIs DEF wt
<1>3. PICK joined :
        /\ Effects(tl, n) = joined[k] /\ joined[0] = tl
        /\ \A i \in 1..k : joined[i] = Effect(joined[i-1], n, wt[i])
  BY <1>1, EffectsSteps
<1>4. \A e \in ToSet(wt) : D[n] < D[e]
  OBVIOUS
<1> HIDE DEF wt
<1> DEFINE J(i) == IsJoined(joined[i], tl, K, D, n, Y(i))
           T == {i \in 0..k : ~J(i)}
<1>5. J(0)
  <2>1. Y(0) = {}
    OBVIOUS
  <2>2. ToSet(tl.succ[n]) = {}
    BY DEF ToSet
  <2>3. tl.prev = [m \in K |-> IF m \in {} THEN tl.prev[m] \union {n} ELSE tl.prev[m]]
    OBVIOUS
  <2>4. IsJoined(tl, tl, K, D, n, {})
    BY <2>2, <2>3 DEF IsJoined
  <2> HIDE DEF Y
  <2> QED BY <1>3, <2>1, <2>4
<1>6. ASSUME NEW i \in 1..k, J(i-1) PROVE J(i)
  <2>1. Y(i-1) \in SUBSET (K \ {n}) /\ Y(i) = Y(i-1) \union {wt[i]}
    <3>1. \A j \in 1..i-1 : j \in 1..k /\ j \in 1..i
      BY <1>1
    <3>2. \A j \in 1..i : j = i \/ j \in 1..i-1
      BY <1>1
    <3>3. i \in 1..i
      BY <1>1
    <3> QED BY <1>1, <3>1, <3>2, <3>3
  <2>2. D[n] < D[wt[i]]
    BY <1>2, <1>4
  <2>3. joined[i] = Effect(joined[i-1], n, wt[i]) /\ wt[i] \in K \ {n}
    BY <1>1, <1>3
  <2> HIDE DEF Y
  <2>4. IsJoined(Effect(joined[i-1], n, wt[i]), tl, K, D, n, Y(i-1) \union {wt[i]})
    <3>1. IsJoined(joined[i-1], tl, K, D, n, Y(i-1))
      BY <1>6
    <3>2. wt[i] \in K \ {n} /\ Y(i-1) \in SUBSET (K \ {n})
      BY <2>1, <2>3
    <3> DEFINE w == joined[i-1]  e == wt[i]  W == Y(i-1)
    <3> HIDE DEF w, e, W
    <3>3. /\ IsJoined(w, tl, K, D, n, W) /\ D[n] < D[e]
          /\ e \in K \ {n} /\ W \in SUBSET (K \ {n})
      BY <2>2, <3>1, <3>2 DEF w, e, W
    <3>4. IsJoined(Effect(w, n, e), tl, K, D, n, W \union {e})
      BY <3>3, JoinedOn, ZenonT(60)
    <3> QED BY <3>4 DEF w, e, W
  <2> QED BY <2>1, <2>3, <2>4
<1> HIDE DEF J
<1>7. T = {}
  <2> SUFFICES ASSUME T # {} PROVE FALSE
    OBVIOUS
  <2>1. PICK i \in T : \A j \in T : i <= j
    <3>1. T \in SUBSET Nat
      OBVIOUS
    <3> HIDE DEF T
    <3> QED BY <3>1, LeastNat
  <2>2. i \in 0..k /\ ~J(i)
    OBVIOUS
  <2>3. i # 0
    BY <1>5, <2>2
  <2>4. i \in 1..k /\ i-1 \in 0..k /\ ~(i <= i-1)
    BY <1>1, <2>2, <2>3
  <2>5. i-1 \notin T
    <3> HIDE DEF T
    <3> QED BY <2>1, <2>4
  <2> QED BY <1>6, <2>2, <2>4, <2>5
<1>8. J(k)
  <2>1. k \in 0..k
    BY <1>1
  <2> QED BY <1>7, <2>1
<1> QED BY <1>2, <1>3, <1>8 DEF J, wt

-----------------------------------------------------------------------------
(***************************************************************************)
(* The first steps of the constructor: the new node and its place.         *)
(***************************************************************************)
(* A new post in the array: a splice. *)
PlacedAt(indx, n, pos) ==
  [m \in DOMAIN indx \union {n} |->
     IF m = n THEN pos ELSE IF indx[m] >= pos THEN indx[m] + 1 ELSE indx[m]]

(* The array with a new node, and the positions of the others.             *)
LEMMA SplicedArray ==
  ASSUME NEW K, NEW tl, IsArray(tl, K), NEW n, n \notin K, NEW pos \in 0..Len(tl.linear),
         NEW u, u.linear = SpliceIn(tl.linear, pos, n), u.indx = PlacedAt(tl.indx, n, pos)
  PROVE  /\ IsArray(u, K \union {n})
         /\ \A a, b \in K : u.indx[a] < u.indx[b] <=> tl.indx[a] < tl.indx[b]
         /\ \A a \in K : u.indx[a] < u.indx[n] <=> tl.indx[a] < pos
<1> DEFINE N == K \union {n}
           li == tl.linear
           ix == tl.indx
           k == Len(li)
           lj == u.linear
           ij == u.indx
<1>1. /\ k \in Nat /\ ix \in [K -> 0..k-1] /\ li \in Seq(K)
      /\ \A m \in K : ix[m] \in 0..k-1
      /\ \A m \in K : li[ix[m] + 1] = m
      /\ \A p \in 0..k-1 : li[p + 1] \in K /\ ix[li[p + 1]] = p
  <2>1. li \in Seq(K)
    BY DEF IsArray
  <2> QED BY <2>1, Placed DEF At
<1>2. pos \in 0..k
  OBVIOUS
<1>3. lj \in Seq(N) /\ Len(lj) = k + 1
      /\ \A i \in 1..k+1 : lj[i] = IF i = pos + 1 THEN n ELSE IF i <= pos THEN li[i] ELSE li[i-1]
  <2>1. li \in Seq(N) /\ n \in N
    BY <1>1, SeqMonotonic
  <2>2. SpliceIn(li, pos, n) \in Seq(N) /\ Spliced(SpliceIn(li, pos, n), li, pos, n)
    BY <2>1, SpliceIs
  <2> QED BY <2>2 DEF Spliced
<1>4. /\ DOMAIN ij = N /\ ij = [m \in N |-> ij[m]] /\ ij[n] = pos
      /\ \A m \in K : ij[m] = IF ix[m] >= pos THEN ix[m] + 1 ELSE ix[m]
  <2>1. ij = [m \in N |-> IF m = n THEN pos ELSE IF ix[m] >= pos THEN ix[m] + 1 ELSE ix[m]]
    BY <1>1 DEF PlacedAt
  <2> HIDE DEF ij, ix
  <2>2. \A m \in K : m \in N /\ m # n
    OBVIOUS
  <2> QED BY <2>1, <2>2
<1> HIDE DEF li, ix, k, lj, ij
<1>5. ASSUME NEW m \in K
      PROVE  ij[m] \in 0..k /\ ij[m] # pos /\ lj[ij[m] + 1] = m
  <2> DEFINE x == ix[m]
  <2>1. x \in 0..k-1 /\ li[x + 1] = m /\ ij[m] = IF x >= pos THEN x + 1 ELSE x
    BY <1>1, <1>4
  <2> HIDE DEF x
  <2>2. CASE x >= pos
    <3>1. ij[m] = x + 1 /\ x + 1 \in 0..k /\ x + 1 # pos
      BY <1>1, <1>2, <2>1, <2>2
    <3>2. (x + 1) + 1 \in 1..k+1 /\ (x + 1) + 1 # pos + 1 /\ ~((x + 1) + 1 <= pos)
          /\ ((x + 1) + 1) - 1 = x + 1
      BY <1>1, <1>2, <2>1, <2>2
    <3>3. lj[(x + 1) + 1] = li[x + 1]
      BY <1>3, <3>2
    <3> QED BY <2>1, <3>1, <3>3
  <2>3. CASE ~(x >= pos)
    <3>1. ij[m] = x /\ x \in 0..k /\ x # pos
      BY <1>1, <1>2, <2>1, <2>3
    <3>2. x + 1 \in 1..k+1 /\ x + 1 # pos + 1 /\ x + 1 <= pos
      BY <1>1, <1>2, <2>1, <2>3
    <3>3. lj[x + 1] = li[x + 1]
      BY <1>3, <3>2
    <3> QED BY <2>1, <3>1, <3>3
  <2> QED BY <2>2, <2>3
<1>6. lj[pos + 1] = n /\ pos + 1 \in 1..k+1
  <2>1. pos + 1 \in 1..k+1
    BY <1>1, <1>2
  <2> QED BY <1>3, <2>1
<1>7. ASSUME NEW p \in 0..k PROVE ij[lj[p + 1]] = p
  <2>1. p + 1 \in 1..k+1
    BY <1>1
  <2>2. CASE p = pos
    BY <1>4, <1>6, <2>2
  <2>3. CASE p < pos
    <3>1. p + 1 # pos + 1 /\ p + 1 <= pos /\ p \in 0..k-1 /\ ~(p >= pos)
      BY <1>1, <1>2, <2>3
    <3>2. lj[p + 1] = li[p + 1]
      BY <1>3, <2>1, <3>1
    <3>3. li[p + 1] \in K /\ ix[li[p + 1]] = p
      BY <1>1, <3>1
    <3> QED BY <1>4, <3>1, <3>2, <3>3
  <2>4. CASE p > pos
    <3>1. p + 1 # pos + 1 /\ ~(p + 1 <= pos) /\ (p + 1) - 1 = (p - 1) + 1
          /\ p - 1 \in 0..k-1 /\ p - 1 >= pos /\ (p - 1) + 1 = p
      BY <1>1, <1>2, <2>4
    <3>2. lj[p + 1] = li[(p - 1) + 1]
      BY <1>3, <2>1, <3>1
    <3>3. li[(p - 1) + 1] \in K /\ ix[li[(p - 1) + 1]] = p - 1
      BY <1>1, <3>1
    <3> QED BY <1>4, <3>1, <3>2, <3>3
  <2> QED BY <1>2, <2>2, <2>3, <2>4
<1>8. IsArray(u, N)
  <2>1. Len(u.linear) - 1 = k
    BY <1>1, <1>3 DEF lj
  <2>2. \A m \in N : ij[m] \in 0..k /\ lj[ij[m] + 1] = m
    BY <1>2, <1>4, <1>5, <1>6
  <2>3. ij \in [N -> 0..k]
    BY <1>4, <2>2
  <2> QED BY <1>3, <1>7, <2>1, <2>2, <2>3 DEF IsArray, At, lj, ij
<1>9. ASSUME NEW a \in K, NEW b \in K PROVE ij[a] < ij[b] <=> ix[a] < ix[b]
  <2> DEFINE x == ix[a]  y == ix[b]
  <2>1. /\ x \in 0..k-1 /\ y \in 0..k-1
        /\ ij[a] = (IF x >= pos THEN x + 1 ELSE x) /\ ij[b] = (IF y >= pos THEN y + 1 ELSE y)
    BY <1>1, <1>4
  <2> HIDE DEF x, y
  <2>2. ij[a] < ij[b] <=> x < y
    BY <1>1, <1>2, <2>1
  <2> QED BY <2>2 DEF x, y
<1>10. ASSUME NEW a \in K PROVE ij[a] < pos <=> ix[a] < pos
  <2> DEFINE x == ix[a]
  <2>1. x \in 0..k-1 /\ ij[a] = (IF x >= pos THEN x + 1 ELSE x)
    BY <1>1, <1>4
  <2> HIDE DEF x
  <2>2. ij[a] < pos <=> x < pos
    BY <1>1, <1>2, <2>1
  <2> QED BY <2>2 DEF x
<1> QED BY <1>4, <1>8, <1>9, <1>10 DEF ij, ix

-----------------------------------------------------------------------------
(* The new post under its causes, and at the place of the last one.        *)
Position(tl, known) == Max({0} \union {tl.indx[c] : c \in ToSet(known)})
LinkedTo(succ, n, known) ==
  [m \in DOMAIN succ \union {n} |->
     IF m = n THEN <<>> ELSE IF m \in ToSet(known) THEN Append(succ[m], n) ELSE succ[m]]
PendingFor(pending, n, unknown) ==
  [c \in DOMAIN pending \union unknown |->
     IF c \notin DOMAIN pending THEN <<n>>
     ELSE IF c \in unknown THEN Append(pending[c], n) ELSE pending[c]]

(* The place of the last known cause, or the first one.                    *)
LEMMA PositionIs ==
  ASSUME NEW K, NEW tl, IsArray(tl, K), NEW known \in Seq(K)
  PROVE  /\ Position(tl, known) \in 0..Len(tl.linear)
         /\ Position(tl, known) = 0 \/ \E c \in ToSet(known) : Position(tl, known) = tl.indx[c]
<1> DEFINE T == {0} \union {tl.indx[c] : c \in ToSet(known)}
           k == Len(tl.linear)
<1>1. k \in Nat /\ \A m \in K : tl.indx[m] \in 0..k-1
  BY Placed
<1>2. ToSet(known) \in SUBSET K
  BY ToSetIs
<1>3. \A x \in T : x = 0 \/ \E c \in ToSet(known) : x = tl.indx[c]
  OBVIOUS
<1> HIDE DEF k
<1>4. \A x \in T : x \in 0..k
  BY <1>1, <1>2
<1>5. T # {}
  OBVIOUS
<1>9. T \in SUBSET Nat /\ \A x \in T : x <= k
  <2> HIDE DEF T
  <2> QED BY <1>1, <1>4
<1>6. Position(tl, known) = Max(T)
  BY DEF Position
<1> HIDE DEF T
<1>7. Max(T) \in T
  BY <1>1, <1>5, <1>9, MaxIs
<1> QED BY <1>3, <1>4, <1>6, <1>7 DEF k

New(tl, n, known, unknown) == Inserted(Entered(tl, n, known, unknown), n, known)

(* The record after the first two steps, field by field.                   *)
LEMMA NewIs ==
  ASSUME NEW K, NEW tl, HasFields(tl, K), NEW n, NEW known, NEW unknown
  PROVE  New(tl, n, known, unknown) =
           [linear  |-> SpliceIn(tl.linear, Position(tl, known), n),
            indx    |-> PlacedAt(tl.indx, n, Position(tl, known)),
            rank    |-> With(tl.rank, n, 0),
            prev    |-> With(tl.prev, n, ToSet(known)),
            succ    |-> LinkedTo(tl.succ, n, known),
            pending |-> PendingFor(tl.pending, n, unknown),
            tips    |-> tl.tips \ ToSet(known),
            cmds    |-> <<[op |-> "ins", name |-> n, to |-> Position(tl, known)]>>]
<1> DEFINE li == tl.linear  ix == tl.indx  pv == tl.prev  sc == tl.succ
           pn == tl.pending  tp == tl.tips  cs == tl.cmds  rk == tl.rank
           P == PendingFor(pn, n, unknown)
           L == LinkedTo(sc, n, known)
           R == With(rk, n, 0)
           V == With(pv, n, ToSet(known))
           X(pos) == PlacedAt(ix, n, pos)
           S(pos) == SpliceIn(li, pos, n)
           C(pos) == <<[op |-> "ins", name |-> n, to |-> pos]>>
           A == Entered(tl, n, known, unknown)
           pos == Position(tl, known)
<1>1. tl = [linear |-> li, indx |-> ix, rank |-> rk, prev |-> pv, succ |-> sc,
            pending |-> pn, tips |-> tp, cmds |-> cs]
  BY DEF HasFields
<1>2. A = [tl EXCEPT !.rank = R, !.prev = V, !.succ = L,
                     !.tips = tp \ ToSet(known), !.pending = P]
  BY Zenon DEF Entered, PendingFor, LinkedTo
<1> HIDE DEF li, ix, pv, sc, pn, tp, cs, rk, P, L, R, V
<1>3. A = [[linear |-> li, indx |-> ix, rank |-> rk, prev |-> pv, succ |-> sc,
            pending |-> pn, tips |-> tp, cmds |-> cs]
             EXCEPT !.rank = R, !.prev = V, !.succ = L,
                    !.tips = tp \ ToSet(known), !.pending = P]
  BY <1>1, <1>2, Zenon
<1>4. A = [linear |-> li, indx |-> ix, rank |-> R, prev |-> V, succ |-> L,
           pending |-> P, tips |-> tp \ ToSet(known), cmds |-> cs]
  BY <1>3
<1> HIDE DEF A
<1>5. A.indx = ix /\ A.linear = li
  BY <1>4
<1>6. Inserted(A, n, known) = [A EXCEPT !.indx = X(pos), !.linear = S(pos), !.cmds = C(pos)]
  <2>1. Max({0} \union {A.indx[c] : c \in ToSet(known)}) = pos
    BY <1>5 DEF Position, ix
  <2>2. Inserted(A, n, known) =
          [A EXCEPT !.indx = PlacedAt(A.indx, n, pos), !.linear = SpliceIn(A.linear, pos, n),
                    !.cmds = C(pos)]
    BY <2>1, Zenon DEF Inserted, PlacedAt
  <2> QED BY <1>5, <2>2
<1> DEFINE x == X(pos)  s == S(pos)  c == C(pos)
<1>7. Inserted(A, n, known) = [A EXCEPT !.indx = x, !.linear = s, !.cmds = c]
  BY <1>6
<1> HIDE DEF x, s, c
<1>8. Inserted(A, n, known) =
        [[linear |-> li, indx |-> ix, rank |-> R, prev |-> V, succ |-> L,
          pending |-> P, tips |-> tp \ ToSet(known), cmds |-> cs]
           EXCEPT !.indx = x, !.linear = s, !.cmds = c]
  BY <1>4, <1>7, Zenon
<1>9. Inserted(A, n, known) =
        [linear |-> s, indx |-> x, rank |-> R, prev |-> V, succ |-> L,
         pending |-> P, tips |-> tp \ ToSet(known), cmds |-> c]
  BY <1>8
<1> QED BY <1>9, Zenon DEF New, A, x, s, c, li, ix, pv, sc, pn, tp, cs, rk, P, L, R, V

-----------------------------------------------------------------------------
(***************************************************************************)
(* Arrival of a post: its links.                                           *)
(***************************************************************************)
(* The order in which a post lists its known causes.                       *)
LEMMA SetToSeqsIs ==
  ASSUME NEW S, IsFiniteSet(S), NEW s \in SetToSeqs(S)
  PROVE  s \in Seq(S) /\ ToSet(s) = S
<1> DEFINE k == Cardinality(S)
<1>1. s \in [1..k -> S] /\ \A i, j \in 1..k : i # j => s[i] # s[j]
  BY DEF SetToSeqs
<1>2. k \in Nat
  BY FS_CardinalityType
<1>3. IsFiniteSet(1..k) /\ Cardinality(1..k) = k
  <2>1. 1 \in Int /\ k \in Int
    BY <1>2
  <2>2. IsFiniteSet(1..k) /\ Cardinality(1..k) = IF 1 > k THEN 0 ELSE k-1+1
    BY <2>1, FS_Interval
  <2> HIDE DEF k
  <2> QED BY <2>2, <1>2
<1>4. s \in Injection(1..k, S)
  <2> HIDE DEF k
  <2> QED BY <1>1, Fun_IsInj
<1>5. Cardinality(S) = Cardinality(1..k)
  BY <1>3
<1>6. s \in Surjection(1..k, S)
  <2> HIDE DEF k
  <2> QED BY <1>3, <1>4, <1>5, FS_Injection
<1> HIDE DEF k
<1>7. s \in Seq(S) /\ Len(s) = k
  <2>1. s \in Seq(S)
    BY <1>1, <1>2, SeqDef
  <2> QED BY <1>1, <1>2, <2>1, LenProperties
<1>8. \A x \in S : \E i \in 1..k : s[i] = x
  BY <1>6 DEF Surjection
<1>9. ToSet(s) = {s[i] : i \in 1..k}
  BY <1>7, ToSetIs
<1> QED BY <1>1, <1>7, <1>8, <1>9

(* Links to effects climb with the depth.                                  *)
LEMMA DepthClimbs ==
  ASSUME after \in Graphs, NEW K \in SUBSET DOMAIN after, IsFiniteSet(K),
         NEW succ \in [K -> Seq(K)],
         \A a \in K : ToSet(succ[a]) \subseteq EffectsIn(K, a)
  PROVE  Climbs(K, succ, Depth(K))
<1>1. IsDepth(Depth(K), K)
  BY DepthIs
<1>2. ASSUME NEW a \in K, NEW b \in ToSet(succ[a]) PROVE b \in K /\ Depth(K)[a] < Depth(K)[b]
  <2>1. b \in K /\ a \in CausesIn(K, b)
    BY <1>2 DEF EffectsIn, CausesIn
  <2> QED BY <1>1, <2>1 DEF IsDepth
<1>3. \A a \in K : ToSet(succ[a]) \in SUBSET K
  BY DEF EffectsIn
<1> QED BY <1>1, <1>2, <1>3 DEF Climbs, IsDepth

(* No post is its own cause.                                               *)
LEMMA NotItsCause ==
  ASSUME after \in Graphs, NEW n \in DOMAIN after
  PROVE  n \notin after[n]
<1>1. \E m \in {n} : after[m] \cap {n} = {}
  <2>1. {n} \in SUBSET DOMAIN after /\ {n} # {}
    OBVIOUS
  <2> QED BY <2>1, FirstOne
<1> QED BY <1>1

-----------------------------------------------------------------------------
(* A post arrives: what the constructor's first steps make of the links.   *)
Arrives(tl, K, n, known) ==
  /\ after \in Graphs /\ K \in SUBSET DOMAIN after /\ IsFiniteSet(K)
  /\ IsTopSort(tl, K) /\ IsLinked(tl, K)
  /\ n \in DOMAIN after /\ n \notin K
  /\ known \in SetToSeqs(after[n] \cap K)

NewPost(u, tl, K, n, known) ==
  /\ HasFields(u, K \union {n}) /\ IsArray(u, K \union {n})
  /\ Ready(u, K \union {n}, Depth(K \union {n}), n, known)
  /\ (\A m \in K : u.rank[m] = tl.rank[m]) /\ ToSet(known) = after[n] \cap K
  /\ u.prev = With(tl.prev, n, ToSet(known))
  /\ u.succ[n] = <<>>
  /\ \A m \in K : ToSet(u.succ[m]) = EffectsIn(K \union {n}, m)
  /\ u.pending = PendingFor(tl.pending, n, after[n] \ K)
  /\ u.tips = tl.tips \ ToSet(known)
  /\ Leads(K \union {n}, tl.linear, u.cmds, u.linear)

(* The known causes, in the order its author listed them.                  *)
LEMMA KnownIs ==
  ASSUME NEW tl, NEW K, NEW n, NEW known, Arrives(tl, K, n, known)
  PROVE  known \in Seq(K) /\ ToSet(known) = after[n] \cap K /\ n \notin after[n]
<1>1. n \notin after[n]
  BY NotItsCause DEF Arrives
<1>2. IsFiniteSet(after[n] \cap K)
  <2>1. after[n] \cap K \in SUBSET K
    OBVIOUS
  <2> QED BY <2>1, FS_Subset DEF Arrives
<1>3. known \in Seq(after[n] \cap K) /\ ToSet(known) = after[n] \cap K
  BY <1>2, SetToSeqsIs DEF Arrives
<1>4. known \in Seq(K)
  BY <1>3, SeqMonotonic
<1> QED BY <1>1, <1>3, <1>4

NewLinks(s, K, n) ==
  /\ s \in [K \union {n} -> Seq(K \union {n})] /\ s[n] = <<>>
  /\ \A m \in K : ToSet(s[m]) = EffectsIn(K \union {n}, m)

(* The known causes have n as their effect.                                *)
LEMMA LinkedToIs ==
  ASSUME NEW tl, NEW K, NEW n, NEW known, Arrives(tl, K, n, known)
  PROVE  NewLinks(LinkedTo(tl.succ, n, known), K, n)
<1> DEFINE s == LinkedTo(tl.succ, n, known)
           N == K \union {n}
           s0 == tl.succ
<1>1. s0 \in [K -> Seq(K)] /\ \A m \in K : ToSet(s0[m]) = EffectsIn(K, m)
  BY DEF Arrives, IsTopSort, IsLinked, HasFields
<1>2. ToSet(known) = after[n] \cap K /\ n \notin K
  BY KnownIs DEF Arrives
<1>3. s = [m \in N |-> IF m = n THEN <<>>
                       ELSE IF m \in ToSet(known) THEN Append(s0[m], n) ELSE s0[m]]
  BY <1>1 DEF LinkedTo
<1> HIDE DEF s, s0
<1>4. s[n] = <<>>
  BY <1>3
<1>5. ASSUME NEW m \in K PROVE s[m] \in Seq(N) /\ ToSet(s[m]) = EffectsIn(N, m)
  <2>1. s0[m] \in Seq(N) /\ n \in N /\ m # n /\ m \in N
    <3>1. s0[m] \in Seq(K)
      BY <1>1
    <3> QED BY <1>2, <3>1, SeqMonotonic
  <2>2. CASE m \in ToSet(known)
    <3>1. s[m] = Append(s0[m], n)
      BY <1>3, <2>1, <2>2
    <3>2. Append(s0[m], n) \in Seq(N) /\ ToSet(Append(s0[m], n)) = ToSet(s0[m]) \union {n}
      BY <2>1, FrontOfAppend
    <3>3. EffectsIn(N, m) = EffectsIn(K, m) \union {n}
      BY <1>2, <2>2 DEF EffectsIn
    <3> QED BY <1>1, <3>1, <3>2, <3>3
  <2>3. CASE m \notin ToSet(known)
    <3>1. s[m] = s0[m]
      BY <1>3, <2>1, <2>3
    <3>3. EffectsIn(N, m) = EffectsIn(K, m)
      BY <1>2, <2>3 DEF EffectsIn
    <3> QED BY <1>1, <2>1, <3>1, <3>3
  <2> QED BY <2>2, <2>3
<1>6. <<>> \in Seq(N)
  OBVIOUS
<1>7. s \in [N -> Seq(N)]
  <2>1. \A m \in N : s[m] \in Seq(N)
    BY <1>4, <1>5, <1>6
  <2> QED BY <1>3, <2>1
<1> QED BY <1>4, <1>5, <1>7 DEF s, NewLinks

(* The command that tells the listener where the post is.                  *)
LEMMA InsLeads ==
  ASSUME NEW K, NEW seq \in Seq(K), NEW n, NEW pos \in 0..Len(seq)
  PROVE  Leads(K \union {n}, seq, <<[op |-> "ins", name |-> n, to |-> pos]>>,
               SpliceIn(seq, pos, n))
<1> DEFINE N == K \union {n}
           c == [op |-> "ins", name |-> n, to |-> pos]
<1>1. seq \in Seq(N)
  BY SeqMonotonic
<1>2. Len(seq) \in Nat
  OBVIOUS
<1>3. c \in Command(N) /\ Fits(seq, c) /\ Follow(seq, c) = SpliceIn(seq, pos, n)
  <2>1. c.op = "ins" /\ c.name = n /\ c.to = pos
    OBVIOUS
  <2>2. c \in Command(N)
    BY <1>2 DEF Command
  <2> HIDE DEF c
  <2> QED BY <2>1, <2>2 DEF Fits, Follow
<1>4. Leads(N, seq, <<>>, seq)
  BY <1>1, LeadsNowhere
<1> HIDE DEF c, N
<1>5. Leads(N, seq, Append(<<>>, c), Follow(seq, c))
  BY <1>3, <1>4, LeadsOn
<1>6. Append(<<>>, c) = <<c>>
  OBVIOUS
<1> QED BY <1>3, <1>5, <1>6 DEF N, c

-----------------------------------------------------------------------------
(***************************************************************************)
(* Arrival of a post: its place.                                           *)
(***************************************************************************)
NewParts(u, tl, K, n, known, pos) ==
  /\ HasFields(u, K \union {n})
  /\ u.linear = SpliceIn(tl.linear, pos, n)
  /\ u.indx = PlacedAt(tl.indx, n, pos)
  /\ (\A m \in K : u.rank[m] = tl.rank[m]) /\ u.rank[n] = 0
  /\ u.prev = With(tl.prev, n, ToSet(known))
  /\ u.succ = LinkedTo(tl.succ, n, known)
  /\ u.pending = PendingFor(tl.pending, n, after[n] \ K)
  /\ u.tips = tl.tips \ ToSet(known)
  /\ u.cmds = <<[op |-> "ins", name |-> n, to |-> pos]>>

(* The new node, field by field, for a time line that holds K.             *)
LEMMA NewFields ==
  ASSUME NEW tl, NEW K, NEW n, NEW known, Arrives(tl, K, n, known)
  PROVE  NewParts(New(tl, n, known, after[n] \ K), tl, K, n, known, Position(tl, known))
<1> DEFINE u == New(tl, n, known, after[n] \ K)
           N == K \union {n}
           li == SpliceIn(tl.linear, Position(tl, known), n)
           ix == PlacedAt(tl.indx, n, Position(tl, known))
           rk == With(tl.rank, n, 0)
           pv == With(tl.prev, n, ToSet(known))
           sc == LinkedTo(tl.succ, n, known)
           pn == PendingFor(tl.pending, n, after[n] \ K)
           tp == tl.tips \ ToSet(known)
           cs == <<[op |-> "ins", name |-> n, to |-> Position(tl, known)]>>
<1>1. HasFields(tl, K) /\ n \notin K
  BY DEF Arrives, IsTopSort
<1>2. u = [linear |-> li, indx |-> ix, rank |-> rk, prev |-> pv, succ |-> sc,
           pending |-> pn, tips |-> tp, cmds |-> cs]
  BY <1>1, NewIs
<1>3. sc \in [N -> Seq(N)]
  <2>1. NewLinks(sc, K, n)
    BY LinkedToIs
  <2> QED BY <2>1 DEF NewLinks
<1>4. rk \in [N -> Nat] /\ (\A m \in K : rk[m] = tl.rank[m]) /\ rk[n] = 0
  <2> DEFINE r0 == tl.rank
  <2>1. r0 \in [K -> Nat]
    BY <1>1 DEF HasFields
  <2>2. rk = [m \in K \union {n} |-> IF m = n THEN 0 ELSE r0[m]]
    BY <2>1 DEF With
  <2> HIDE DEF r0, rk
  <2>3. rk \in [N -> Nat] /\ (\A m \in K : rk[m] = r0[m]) /\ rk[n] = 0
    BY <1>1, <2>1, <2>2
  <2> QED BY <2>3 DEF r0
<1> HIDE DEF u, li, ix, rk, pv, sc, pn, tp, cs
<1>5. /\ u.linear = li /\ u.indx = ix /\ u.rank = rk /\ u.prev = pv /\ u.succ = sc
      /\ u.pending = pn /\ u.tips = tp /\ u.cmds = cs
  BY <1>2
<1>6. u = [linear |-> u.linear, indx |-> u.indx, rank |-> u.rank, prev |-> u.prev,
           succ |-> u.succ, pending |-> u.pending, tips |-> u.tips, cmds |-> u.cmds]
  BY <1>2, <1>5
<1>7. HasFields(u, N)
  BY <1>3, <1>4, <1>5, <1>6 DEF HasFields
<1> QED BY <1>4, <1>5, <1>7 DEF NewParts, u, li, ix, rk, pv, sc, pn, tp, cs

(* The new post is in the array, and ready to be anchored.                 *)
LEMMA NewPostIs ==
  ASSUME NEW tl, NEW K, NEW n, NEW known, Arrives(tl, K, n, known)
  PROVE  NewPost(New(tl, n, known, after[n] \ K), tl, K, n, known)
<1> DEFINE u == New(tl, n, known, after[n] \ K)
           N == K \union {n}
           pos == Position(tl, known)
           D == Depth(N)
<1>1. /\ HasFields(u, N)
      /\ u.linear = SpliceIn(tl.linear, pos, n) /\ u.indx = PlacedAt(tl.indx, n, pos)
      /\ (\A m \in K : u.rank[m] = tl.rank[m]) /\ u.rank[n] = 0
      /\ u.prev = With(tl.prev, n, ToSet(known))
      /\ u.succ = LinkedTo(tl.succ, n, known)
      /\ u.pending = PendingFor(tl.pending, n, after[n] \ K)
      /\ u.tips = tl.tips \ ToSet(known)
      /\ u.cmds = <<[op |-> "ins", name |-> n, to |-> pos]>>
  <2>1. NewParts(u, tl, K, n, known, pos)
    BY NewFields
  <2> HIDE DEF u, pos
  <2> QED BY <2>1, Zenon DEF NewParts
<1> HIDE DEF u
<1>2. /\ after \in Graphs /\ K \in SUBSET DOMAIN after /\ IsFiniteSet(K)
      /\ HasFields(tl, K) /\ IsArray(tl, K) /\ SortedOn(tl, K) /\ tl.rank = Depth(K)
      /\ IsLinked(tl, K) /\ n \in DOMAIN after /\ n \notin K
  BY DEF Arrives, IsTopSort
<1>3. known \in Seq(K) /\ ToSet(known) = after[n] \cap K /\ n \notin after[n]
  BY KnownIs
<1>4. /\ pos \in 0..Len(tl.linear)
      /\ pos = 0 \/ \E c \in ToSet(known) : pos = tl.indx[c]
  BY <1>2, <1>3, PositionIs
<1> HIDE DEF pos
<1>5. /\ IsArray(u, N)
      /\ \A a, b \in K : u.indx[a] < u.indx[b] <=> tl.indx[a] < tl.indx[b]
      /\ \A a \in K : u.indx[a] < u.indx[n] <=> tl.indx[a] < pos
  BY <1>1, <1>2, <1>4, SplicedArray
<1>6. /\ u.succ \in [N -> Seq(N)] /\ u.succ[n] = <<>>
      /\ \A m \in K : ToSet(u.succ[m]) = EffectsIn(N, m)
  <2>1. NewLinks(u.succ, K, n)
    BY <1>1, LinkedToIs
  <2> QED BY <2>1, Zenon DEF NewLinks
<1>7. Leads(N, tl.linear, u.cmds, u.linear)
  <2>1. tl.linear \in Seq(K)
    BY <1>2 DEF IsArray
  <2> QED BY <1>1, <1>4, <2>1, InsLeads
<1>8. N \in SUBSET DOMAIN after /\ IsFiniteSet(N) /\ N \ {n} = K /\ K \in SUBSET N
  BY <1>2, FS_AddElement
<1>9. IsDepth(D, N)
  BY <1>2, <1>8, DepthIs
<1>10. Climbs(N, u.succ, D)
  <2>1. \A a \in N : ToSet(u.succ[a]) \subseteq EffectsIn(N, a)
    <3>1. ToSet(u.succ[n]) = {}
      BY <1>6 DEF ToSet
    <3> QED BY <1>6, <3>1
  <2> HIDE DEF N
  <2> QED BY <1>2, <1>6, <1>8, <2>1, DepthClimbs
<1>11. D \in [N -> Nat] /\ \A c \in CausesIn(N, n) : D[c] < D[n]
  BY <1>9 DEF IsDepth
<1>12. \A m \in N : u.rank[m] <= D[m]
  <2>1. ASSUME NEW m \in K PROVE u.rank[m] <= D[m]
    <3>1. \A x \in K : Depth(K)[x] <= Depth(N)[x]
      <4> HIDE DEF N
      <4> QED BY <1>2, <1>8, DepthGrows
    <3> QED BY <1>1, <1>2, <2>1, <3>1
  <2>2. u.rank[n] <= D[n]
    <3>1. D[n] \in Nat
      BY <1>11
    <3> HIDE DEF D
    <3> QED BY <1>1, <3>1
  <2> QED BY <2>1, <2>2
<1>13. SortedOn(u, K)
  BY <1>1, <1>2, <1>5 DEF SortedOn, Before
<1>14. ToSet(known) = {known[j] : j \in 1..Len(known)}
  BY <1>3, ToSetIs
<1>15. \A j \in 1..Len(known) : D[known[j]] < D[n]
  <2>1. \A j \in 1..Len(known) : known[j] \in CausesIn(N, n)
    BY <1>3, <1>14 DEF CausesIn
  <2> QED BY <1>11, <2>1
<1>16. ASSUME NEW s \in K, u.indx[s] < u.indx[n]
       PROVE  \E j \in 1..Len(known) : u.rank[s] <= u.rank[known[j]]
  <2>1. tl.indx[s] < pos
    BY <1>5, <1>16
  <2>2. tl.indx[s] \in Nat
    BY <1>2, Placed
  <2>3. pos # 0
    BY <2>1, <2>2
  <2>4. PICK c \in ToSet(known) : pos = tl.indx[c]
    BY <1>4, <2>3
  <2>5. c \in K
    BY <1>3, <2>4
  <2>6. Before(tl, s, c)
    BY <1>2, <2>1, <2>4, <2>5 DEF SortedOn
  <2>7. tl.rank[s] <= tl.rank[c]
    <3> DEFINE a == tl.rank[s]  b == tl.rank[c]
    <3>1. a \in Nat /\ b \in Nat
      BY <1>2, <2>5 DEF HasFields
    <3>2. a < b \/ a = b
      BY <2>6 DEF Before
    <3> HIDE DEF a, b
    <3>3. a <= b
      BY <3>1, <3>2
    <3> QED BY <3>3 DEF a, b
  <2>8. PICK j \in 1..Len(known) : known[j] = c
    BY <1>14, <2>4
  <2> QED BY <1>1, <2>5, <2>7, <2>8
<1>17. Ready(u, N, D, n, known)
  BY <1>1, <1>3, <1>5, <1>6, <1>8, <1>10, <1>12, <1>13, <1>15, <1>16 DEF Ready
<1>18. NewPost(u, tl, K, n, known)
  BY <1>1, <1>3, <1>5, <1>6, <1>7, <1>17 DEF NewPost
<1> QED BY <1>18 DEF u

-----------------------------------------------------------------------------
(* It is anchored: all links climb with the rank.                          *)
LEMMA AnchorOrders ==
  ASSUME NEW tl, NEW K, NEW n, NEW known, Arrives(tl, K, n, known),
         NEW w, NewPost(w, tl, K, n, known),
         NEW u, IsAnchored(u, w, K \union {n}, Depth(K \union {n}), n, known)
  PROVE  Ordered(u, K \union {n}, Depth(K \union {n}))
<1> DEFINE N == K \union {n}
           D == Depth(N)
<1>1. /\ Kept(u, w, N) /\ SortedOn(u, N)
      /\ \A m \in N \ {n} : u.rank[m] = w.rank[m]
      /\ \A j \in 1..Len(known) : w.rank[known[j]] < u.rank[n]
      /\ \A m \in N : u.rank[m] <= D[m]
  BY Zenon DEF IsAnchored
<1>2. /\ Ready(w, N, D, n, known)
      /\ (\A m \in K : w.rank[m] = tl.rank[m]) /\ ToSet(known) = after[n] \cap K
      /\ w.succ[n] = <<>>
      /\ \A m \in K : ToSet(w.succ[m]) = EffectsIn(N, m)
  BY Zenon DEF NewPost
<1>3. /\ after \in Graphs /\ K \in SUBSET DOMAIN after /\ IsFiniteSet(K)
      /\ tl.rank = Depth(K) /\ n \notin K
  BY DEF Arrives, IsTopSort
<1>4. HasFields(u, N) /\ IsArray(u, N) /\ u.succ = w.succ
  BY <1>1 DEF Kept, Follows
<1>5. Climbs(N, w.succ, D)
  BY <1>2 DEF Ready
<1>6. IsDepth(Depth(K), K)
  BY <1>3, DepthIs
<1>7. \A m \in K : u.rank[m] = Depth(K)[m] /\ m \in N \ {n}
  <2>1. \A m \in K : m \in N \ {n}
    BY <1>3
  <2> QED BY <1>1, <1>2, <1>3, <2>1
<1>8. ASSUME NEW a \in N, NEW b \in ToSet(u.succ[a]) PROVE u.rank[a] < u.rank[b]
  <2>0. ToSet(<<>>) = {}
    BY DEF ToSet
  <2>1. a \in K
    BY <1>2, <1>4, <1>8, <2>0
  <2>2. b \in N /\ a \in after[b]
    BY <1>2, <1>4, <1>8, <2>1 DEF EffectsIn
  <2>3. CASE b = n
    <3>1. PICK j \in 1..Len(known) : known[j] = a
      <4>1. ToSet(known) = {known[j] : j \in 1..Len(known)}
        BY KnownIs, ToSetIs
      <4> QED BY <1>2, <2>1, <2>2, <2>3, <4>1
    <3>2. w.rank[a] < u.rank[n]
      BY <1>1, <3>1
    <3> QED BY <1>1, <1>7, <2>1, <2>3, <3>2
  <2>4. CASE b # n
    <3>1. b \in K /\ a \in CausesIn(K, b)
      BY <2>1, <2>2, <2>4 DEF CausesIn
    <3>2. Depth(K)[a] < Depth(K)[b]
      BY <1>6, <3>1 DEF IsDepth
    <3> QED BY <1>7, <2>1, <3>1, <3>2
  <2> QED BY <2>3, <2>4
<1>9. Climbs(N, u.succ, u.rank)
  BY <1>4, <1>5, <1>8 DEF Climbs, HasFields
<1> QED BY <1>1, <1>4, <1>5, <1>9 DEF Ordered

-----------------------------------------------------------------------------
(***************************************************************************)
(* Arrival of a post: what was pending, the tips, and the whole constructor. *)
(***************************************************************************)
(* What is pending once n has a place, as it is until n is resolved.       *)
Pends(p, K, n) ==
  /\ DOMAIN p = (CausesOf(K) \ K) \union (after[n] \ K)
  /\ p \in [DOMAIN p -> Seq(K \union {n})]
  /\ \A c \in DOMAIN p : c # n => ToSet(p[c]) = EffectsIn(K \union {n}, c)
  /\ n \in DOMAIN p => p[n] \in Seq(K) /\ ToSet(p[n]) = EffectsIn(K, n)

(* n is pending for the causes that are missing.                           *)
LEMMA PendingIs ==
  ASSUME NEW tl, NEW K, NEW n, NEW known, Arrives(tl, K, n, known)
  PROVE  Pends(PendingFor(tl.pending, n, after[n] \ K), K, n)
<1> DEFINE p == PendingFor(tl.pending, n, after[n] \ K)
           q == tl.pending
           U == after[n] \ K
           N == K \union {n}
<1>1. /\ DOMAIN q = CausesOf(K) \ K
      /\ q \in [DOMAIN q -> Seq(K)]
      /\ \A c \in DOMAIN q : ToSet(q[c]) = EffectsIn(K, c)
      /\ n \notin K /\ n \notin after[n]
  BY KnownIs DEF Arrives, IsLinked
<1>2. p = [c \in DOMAIN q \union U |->
             IF c \notin DOMAIN q THEN <<n>> ELSE IF c \in U THEN Append(q[c], n) ELSE q[c]]
  BY DEF PendingFor
<1> HIDE DEF p, q
<1>3. ASSUME NEW c \in DOMAIN q \union U
      PROVE  /\ p[c] \in Seq(N)
             /\ c # n => ToSet(p[c]) = EffectsIn(N, c)
             /\ c = n => p[c] \in Seq(K) /\ ToSet(p[c]) = EffectsIn(K, c)
  <2>1. CASE c \notin DOMAIN q
    <3>1. p[c] = <<n>> /\ c \in U /\ c # n
      BY <1>1, <1>2, <2>1
    <3>2. ToSet(<<n>>) = {n} /\ <<n>> \in Seq(N)
      BY DEF ToSet
    <3>3. \A m \in K : c \notin after[m]
      BY <1>1, <2>1, <3>1 DEF CausesOf
    <3>4. EffectsIn(N, c) = {n}
      BY <3>1, <3>3 DEF EffectsIn
    <3> QED BY <3>1, <3>2, <3>4
  <2>2. CASE c \in DOMAIN q /\ c \in U
    <3>1. p[c] = Append(q[c], n) /\ c # n
      BY <1>1, <1>2, <2>2
    <3>2. q[c] \in Seq(N) /\ n \in N
      <4>1. q[c] \in Seq(K)
        BY <1>1, <2>2
      <4> QED BY <4>1, SeqMonotonic
    <3>3. Append(q[c], n) \in Seq(N) /\ ToSet(Append(q[c], n)) = ToSet(q[c]) \union {n}
      BY <3>2, FrontOfAppend
    <3>4. EffectsIn(N, c) = EffectsIn(K, c) \union {n}
      BY <2>2 DEF EffectsIn
    <3> QED BY <1>1, <2>2, <3>1, <3>3, <3>4
  <2>3. CASE c \in DOMAIN q /\ c \notin U
    <3>1. p[c] = q[c] /\ q[c] \in Seq(K)
      BY <1>1, <1>2, <2>3
    <3>2. q[c] \in Seq(N)
      BY <3>1, SeqMonotonic
    <3>3. c \notin after[n]
      BY <1>1, <2>3
    <3>4. EffectsIn(N, c) = EffectsIn(K, c)
      BY <3>3 DEF EffectsIn
    <3> QED BY <1>1, <2>3, <3>1, <3>2, <3>4
  <2> QED BY <2>1, <2>2, <2>3
<1>4. DOMAIN p = DOMAIN q \union U
  BY <1>2
<1>5. p \in [DOMAIN p -> Seq(N)]
  <2>1. p = [c \in DOMAIN p |-> p[c]]
    BY <1>2
  <2> QED BY <1>3, <1>4, <2>1
<1>6. Pends(p, K, n)
  BY <1>1, <1>3, <1>4, <1>5 DEF Pends
<1> QED BY <1>6 DEF p, q

(* Those that wait for n are its effects.                                  *)
LEMMA WaitingIs ==
  ASSUME NEW tl, NEW K, NEW n, NEW known, Arrives(tl, K, n, known),
         NEW u, Pends(u.pending, K, n)
  PROVE  Waiting(u, n) \in Seq(K) /\ ToSet(Waiting(u, n)) = EffectsIn(K, n)
<1>1. n \notin K /\ n \notin after[n]
  BY KnownIs DEF Arrives
<1>2. CASE n \in DOMAIN u.pending
  BY <1>2 DEF Pends, Waiting
<1>3. CASE n \notin DOMAIN u.pending
  <2>1. Waiting(u, n) = <<>>
    BY <1>3 DEF Waiting
  <2>2. EffectsIn(K, n) = {}
    <3>1. n \notin CausesOf(K)
      BY <1>1, <1>3 DEF Pends
    <3> QED BY <3>1 DEF EffectsIn, CausesOf
  <2> QED BY <2>1, <2>2 DEF ToSet
<1> QED BY <1>2, <1>3

(* The tips and pending of the last step *)
Settled(u, w, K, n) ==
  /\ HasFields(u, K \union {n}) /\ IsArray(u, K \union {n})
  /\ u.linear = w.linear /\ u.indx = w.indx /\ u.rank = w.rank /\ u.cmds = w.cmds
  /\ u.prev = w.prev /\ u.succ = w.succ
  /\ u.pending = [c \in DOMAIN w.pending \ {n} |-> w.pending[c]]
  /\ u.tips = IF w.succ[n] = <<>> THEN w.tips \union {n} ELSE w.tips

(* The last step changes pending and tips only.                            *)
LEMMA ResolvedIs ==
  ASSUME NEW K, NEW n, NEW tl, NEW w, w = Effects(tl, n),
         HasFields(w, K \union {n}), IsArray(w, K \union {n})
  PROVE  Settled(Resolved(tl, n), w, K, n)
<1> DEFINE N == K \union {n}
           u == Resolved(tl, n)
           li == w.linear  ix == w.indx  pv == w.prev  sc == w.succ
           pn == w.pending  tp == w.tips  cs == w.cmds  rk == w.rank
           pn2 == [c \in DOMAIN pn \ {n} |-> pn[c]]
           tp2 == IF sc[n] = <<>> THEN tp \union {n} ELSE tp
<1>1. w = [linear |-> li, indx |-> ix, rank |-> rk, prev |-> pv, succ |-> sc,
           pending |-> pn, tips |-> tp, cmds |-> cs]
      /\ sc \in [N -> Seq(N)] /\ rk \in [N -> Nat]
  BY DEF HasFields
<1>2. u = [w EXCEPT !.pending = pn2, !.tips = tp2]
  BY Zenon DEF Resolved
<1> HIDE DEF li, ix, pv, sc, pn, tp, cs, rk, pn2, tp2
<1>3. u = [[linear |-> li, indx |-> ix, rank |-> rk, prev |-> pv, succ |-> sc,
            pending |-> pn, tips |-> tp, cmds |-> cs]
             EXCEPT !.pending = pn2, !.tips = tp2]
  BY <1>1, <1>2, Zenon
<1>4. u = [linear |-> li, indx |-> ix, rank |-> rk, prev |-> pv, succ |-> sc,
           pending |-> pn2, tips |-> tp2, cmds |-> cs]
  BY <1>3
<1> HIDE DEF u
<1>5. /\ u.linear = li /\ u.indx = ix /\ u.rank = rk /\ u.prev = pv /\ u.succ = sc
      /\ u.pending = pn2 /\ u.tips = tp2 /\ u.cmds = cs
  BY <1>4
<1>6. u = [linear |-> u.linear, indx |-> u.indx, rank |-> u.rank, prev |-> u.prev,
           succ |-> u.succ, pending |-> u.pending, tips |-> u.tips, cmds |-> u.cmds]
  BY <1>4, <1>5
<1>7. HasFields(u, N)
  BY <1>1, <1>5, <1>6 DEF HasFields
<1>8. IsArray(u, N)
  BY <1>5 DEF IsArray, At, li, ix
<1>9. u.pending = [c \in DOMAIN w.pending \ {n} |-> w.pending[c]]
  BY <1>5 DEF pn2, pn
<1>10. u.tips = IF w.succ[n] = <<>> THEN w.tips \union {n} ELSE w.tips
  BY <1>5 DEF tp2, tp, sc
<1>11. /\ u.linear = w.linear /\ u.indx = w.indx /\ u.rank = w.rank /\ u.cmds = w.cmds
       /\ u.prev = w.prev /\ u.succ = w.succ
  BY <1>5 DEF li, ix, rk, cs, pv, sc
<1>12. Settled(u, w, K, n)
  BY <1>7, <1>8, <1>9, <1>10, <1>11 DEF Settled
<1> QED BY <1>12 DEF u

-----------------------------------------------------------------------------
(* The whole constructor *)
Complete(u, tl, K, n) ==
  /\ IsTopSort(u, K \union {n}) /\ IsLinked(u, K \union {n})
  /\ Leads(K \union {n}, tl.linear, u.cmds, u.linear)

(* Ranks that climb along all links, and are at most the depths, are the   *)
(* depths.                                                                 *)
LEMMA SettledSorts ==
  ASSUME after \in Graphs, NEW K \in SUBSET DOMAIN after, IsFiniteSet(K),
         NEW u, NEW w, Ordered(w, K, Depth(K)),
         HasFields(u, K), IsArray(u, K), u.rank = w.rank, u.indx = w.indx, u.succ = w.succ,
         \A c \in K : ToSet(w.succ[c]) = EffectsIn(K, c)
  PROVE  IsTopSort(u, K)
<1> DEFINE D == Depth(K)
           r == w.rank
<1>1. /\ SortedOn(w, K) /\ Climbs(K, w.succ, r) /\ HasFields(w, K)
      /\ \A m \in K : r[m] <= D[m]
  BY Zenon DEF Ordered
<1>2. D \in [K -> Nat]
  BY DepthIs DEF IsDepth
<1>3. r \in [K -> Nat]
  BY <1>1 DEF HasFields
<1> HIDE DEF D, r
<1>4. \A n \in K : \A c \in CausesIn(K, n) : r[c] < r[n]
  <2> SUFFICES ASSUME NEW n \in K, NEW c \in CausesIn(K, n) PROVE r[c] < r[n]
    OBVIOUS
  <2>1. c \in K /\ n \in EffectsIn(K, c)
    BY DEF CausesIn, EffectsIn
  <2> QED BY <1>1, <2>1 DEF Climbs
<1>5. \A n \in K : r[n] \in Nat
  BY <1>3
<1>6. \A n \in K : D[n] <= r[n]
  BY <1>4, <1>5, DepthIsLeast DEF D
<1>7. \A n \in K : r[n] = D[n]
  BY <1>1, <1>2, <1>3, <1>6
<1>8. r = D
  BY <1>2, <1>3, <1>7
<1>9. SortedOn(u, K)
  BY <1>1 DEF SortedOn, Before
<1> QED BY <1>8, <1>9 DEF IsTopSort, D, r

LinksSettle(u, w, K) ==
  IsLinked(u, K) /\ u.succ = w.succ /\ \A c \in K : ToSet(w.succ[c]) = EffectsIn(K, c)

(* Every link is known at both of its ends, and the tips are right.        *)
LEMMA SettledLinks ==
  ASSUME NEW tl, NEW K, NEW n, NEW known, Arrives(tl, K, n, known),
         NEW v, v.prev = With(tl.prev, n, ToSet(known)), v.tips = tl.tips \ ToSet(known),
         Pends(v.pending, K, n), \A m \in K : ToSet(v.succ[m]) = EffectsIn(K \union {n}, m),
         NEW w, NEW D, IsJoined(w, v, K \union {n}, D, n, EffectsIn(K, n)),
         NEW u, Settled(u, w, K, n)
  PROVE  LinksSettle(u, w, K \union {n})
<1> DEFINE N == K \union {n}
           W == EffectsIn(K, n)
<1>1. /\ (\A m \in N \ {n} : w.succ[m] = v.succ[m]) /\ ToSet(w.succ[n]) = W
      /\ w.prev = [m \in N |-> IF m \in W THEN v.prev[m] \union {n} ELSE v.prev[m]]
      /\ w.tips = (IF W = {} THEN v.tips ELSE v.tips \ {n}) /\ w.pending = v.pending
  BY Zenon DEF IsJoined
<1>2. /\ u.prev = w.prev /\ u.succ = w.succ
      /\ u.pending = [c \in DOMAIN w.pending \ {n} |-> w.pending[c]]
      /\ u.tips = IF w.succ[n] = <<>> THEN w.tips \union {n} ELSE w.tips
      /\ HasFields(u, N)
  BY Zenon DEF Settled
<1>3. n \notin K /\ n \notin after[n] /\ ToSet(known) = after[n] \cap K
  BY KnownIs DEF Arrives
<1>4. tl.prev = [m \in K |-> after[m] \cap K] /\ tl.tips = K \ CausesOf(K)
  BY DEF Arrives, IsLinked
<1>5. EffectsIn(N, n) = W
  BY <1>3 DEF EffectsIn
<1>6. \A c \in N : ToSet(w.succ[c]) = EffectsIn(N, c)
  <2>1. \A c \in K : c \in N \ {n}
    BY <1>3
  <2> QED BY <1>1, <1>5, <2>1
<1>7. u.prev = [m \in N |-> after[m] \cap N]
  <2> DEFINE pv == v.prev
             p0 == tl.prev
  <2>1. pv[n] = after[n] \cap K /\ \A m \in K : pv[m] = after[m] \cap K
    <3>1. pv = [m \in DOMAIN p0 \union {n} |-> IF m = n THEN ToSet(known) ELSE p0[m]]
      BY DEF With
    <3>2. DOMAIN p0 = K /\ \A m \in K : p0[m] = after[m] \cap K
      BY <1>4
    <3> HIDE DEF pv, p0
    <3> QED BY <1>3, <3>1, <3>2
  <2>2. ASSUME NEW m \in N
        PROVE  (IF m \in W THEN pv[m] \union {n} ELSE pv[m]) = after[m] \cap N
    <3>1. CASE m = n
      <4>1. m \notin W
        BY <1>3, <3>1 DEF EffectsIn
      <4> QED BY <1>3, <2>1, <3>1, <4>1
    <3>2. CASE m # n
      <4>1. m \in K /\ (m \in W <=> n \in after[m])
        BY <3>2 DEF EffectsIn
      <4> QED BY <2>1, <4>1
    <3> QED BY <3>1, <3>2
  <2> HIDE DEF W
  <2> QED BY <1>1, <1>2, <2>2
<1>8. u.tips = N \ CausesOf(N)
  <2>1. CausesOf(N) = CausesOf(K) \union after[n]
    BY DEF CausesOf
  <2>2. W = {} <=> n \notin CausesOf(K)
    BY DEF EffectsIn, CausesOf
  <2>3. w.succ[n] = <<>> <=> W = {}
    <3>1. w.succ[n] \in Seq(N)
      BY <1>2 DEF HasFields
    <3> QED BY <1>1, <3>1, ToSetIs
  <2>4. v.tips = (K \ CausesOf(K)) \ after[n]
    BY <1>3, <1>4
  <2> HIDE DEF W
  <2>5. CASE W = {}
    <3>1. u.tips = v.tips \union {n}
      BY <1>1, <1>2, <2>3, <2>5
    <3> QED BY <1>3, <2>1, <2>2, <2>4, <2>5, <3>1
  <2>6. CASE W # {}
    <3>1. u.tips = v.tips \ {n}
      BY <1>1, <1>2, <2>3, <2>6
    <3> QED BY <1>3, <2>1, <2>2, <2>4, <2>6, <3>1
  <2> QED BY <2>5, <2>6
<1>9. /\ DOMAIN u.pending = CausesOf(N) \ N
      /\ u.pending \in [DOMAIN u.pending -> Seq(N)]
      /\ \A c \in DOMAIN u.pending : ToSet(u.pending[c]) = EffectsIn(N, c)
  <2> DEFINE p == v.pending
             q == u.pending
  <2>1. q = [c \in DOMAIN p \ {n} |-> p[c]]
    BY <1>1, <1>2
  <2>2. /\ DOMAIN p = (CausesOf(K) \ K) \union (after[n] \ K)
        /\ p \in [DOMAIN p -> Seq(N)]
        /\ \A c \in DOMAIN p : c # n => ToSet(p[c]) = EffectsIn(N, c)
    BY DEF Pends
  <2> HIDE DEF p, q
  <2>3. DOMAIN q = DOMAIN p \ {n} /\ \A c \in DOMAIN q : q[c] = p[c]
    BY <2>1
  <2>4. CausesOf(N) = CausesOf(K) \union after[n]
    BY DEF CausesOf
  <2>5. DOMAIN q = CausesOf(N) \ N
    BY <2>2, <2>3, <2>4
  <2>6. q \in [DOMAIN q -> Seq(N)]
    BY <2>1, <2>2, <2>3
  <2>7. \A c \in DOMAIN q : ToSet(q[c]) = EffectsIn(N, c)
    BY <2>2, <2>3
  <2> QED BY <2>5, <2>6, <2>7 DEF q
<1>10. IsLinked(u, N)
  BY <1>2, <1>6, <1>7, <1>8, <1>9 DEF IsLinked
<1> QED BY <1>2, <1>6, <1>10 DEF LinksSettle

(* The constructor, from a sorted time line to a sorted time line.         *)
LEMMA AddedIs ==
  ASSUME NEW tl, NEW K, NEW n, NEW known, Arrives(tl, K, n, known)
  PROVE  Complete(Added(tl, n, known, after[n] \ K), tl, K, n)
<1> DEFINE N == K \union {n}
           D == Depth(N)
           w == New(tl, n, known, after[n] \ K)
           v == Anchored(w, n, known)
           x == Effects(v, n)
           u == Resolved(v, n)
<1>1. Added(tl, n, known, after[n] \ K) = u
  BY DEF Added, New
<1>2. NewPost(w, tl, K, n, known)
  BY NewPostIs
<1>3. /\ after \in Graphs /\ K \in SUBSET DOMAIN after /\ IsFiniteSet(K)
      /\ n \in DOMAIN after /\ n \notin K /\ IsTopSort(tl, K)
  BY DEF Arrives
<1>4. N \in SUBSET DOMAIN after /\ IsFiniteSet(N) /\ N \in SUBSET Nat /\ n \in N
  BY <1>3, FS_AddElement, TimelineAssumption
<1>5. IsDepth(D, N)
  <2> HIDE DEF N
  <2> QED BY <1>3, <1>4, DepthIs
<1>6. PICK bound \in Nat : \A m \in N : D[m] <= bound
  BY <1>5 DEF IsDepth
<1> HIDE DEF w
<1>7. /\ Ready(w, N, D, n, known)
      /\ w.prev = With(tl.prev, n, ToSet(known))
      /\ w.succ[n] = <<>>
      /\ \A m \in K : ToSet(w.succ[m]) = EffectsIn(N, m)
      /\ w.pending = PendingFor(tl.pending, n, after[n] \ K)
      /\ w.tips = tl.tips \ ToSet(known)
      /\ Leads(N, tl.linear, w.cmds, w.linear)
  BY <1>2, Zenon DEF NewPost
<1>8. IsAnchored(v, w, N, D, n, known)
  <2> HIDE DEF N, D
  <2> QED BY <1>4, <1>6, <1>7, AnchoredIs
<1> HIDE DEF v
<1>9. Ordered(v, N, D)
  BY <1>2, <1>8, AnchorOrders
<1>10. Kept(v, w, N)
  BY <1>8 DEF IsAnchored
<1>11. /\ v.succ = w.succ /\ v.prev = w.prev /\ v.pending = w.pending /\ v.tips = w.tips
       /\ \A seq \in Seq(N) : Leads(N, seq, w.cmds, w.linear) => Leads(N, seq, v.cmds, v.linear)
  BY <1>10 DEF Kept, Follows
<1>12. Pends(v.pending, K, n)
  <2>1. Pends(PendingFor(tl.pending, n, after[n] \ K), K, n)
    BY PendingIs
  <2> QED BY <1>7, <1>11, <2>1
<1>13. Waiting(v, n) \in Seq(K) /\ ToSet(Waiting(v, n)) = EffectsIn(K, n)
  BY <1>12, WaitingIs
<1>14. IsJoined(x, v, N, D, n, EffectsIn(K, n))
  <2>1. N \ {n} = K
    BY <1>3
  <2>2. \A e \in ToSet(Waiting(v, n)) : D[n] < D[e]
    <3>1. \A e \in EffectsIn(K, n) : e \in N /\ n \in CausesIn(N, e)
      BY DEF EffectsIn, CausesIn
    <3> QED BY <1>5, <1>13, <3>1 DEF IsDepth
  <2>3. DOMAIN v.prev = N /\ v.prev = [m \in N |-> v.prev[m]]
    <3> DEFINE p0 == tl.prev
    <3>1. DOMAIN p0 = K
      BY DEF Arrives, IsLinked
    <3>2. v.prev = [m \in DOMAIN p0 \union {n} |-> IF m = n THEN ToSet(known) ELSE p0[m]]
      BY <1>7, <1>11 DEF With
    <3> HIDE DEF p0
    <3> QED BY <3>1, <3>2
  <2>4. v.succ[n] = <<>>
    BY <1>7, <1>11
  <2>5. Waiting(v, n) \in Seq(N \ {n})
    BY <1>13, <2>1
  <2> HIDE DEF N, D
  <2> QED BY <1>4, <1>6, <1>9, <1>13, <2>2, <2>3, <2>4, <2>5, EffectsIs
<1> HIDE DEF x
<1>15. /\ Ordered(x, N, D)
       /\ \A seq \in Seq(N) : Leads(N, seq, v.cmds, v.linear) => Leads(N, seq, x.cmds, x.linear)
  BY <1>14, Zenon DEF IsJoined
<1>16. HasFields(x, N) /\ IsArray(x, N)
  BY <1>15 DEF Ordered
<1>17. Settled(u, x, K, n)
  BY <1>16, ResolvedIs DEF x
<1> HIDE DEF u
<1>18. /\ HasFields(u, N) /\ IsArray(u, N)
       /\ u.linear = x.linear /\ u.indx = x.indx /\ u.rank = x.rank /\ u.cmds = x.cmds
  BY <1>17, Zenon DEF Settled
<1>19. IsLinked(u, N) /\ u.succ = x.succ /\ \A c \in N : ToSet(x.succ[c]) = EffectsIn(N, c)
  <2>1. /\ v.prev = With(tl.prev, n, ToSet(known)) /\ v.tips = tl.tips \ ToSet(known)
        /\ \A m \in K : ToSet(v.succ[m]) = EffectsIn(K \union {n}, m)
    BY <1>7, <1>11
  <2>2. IsJoined(x, v, K \union {n}, D, n, EffectsIn(K, n))
    BY <1>14
  <2> HIDE DEF D
  <2>3. LinksSettle(u, x, K \union {n})
    BY <1>12, <1>17, <2>1, <2>2, SettledLinks
  <2> QED BY <2>3 DEF LinksSettle
<1>20. IsTopSort(u, N)
  <2> HIDE DEF N
  <2> QED BY <1>3, <1>4, <1>15, <1>18, <1>19, SettledSorts
<1>21. Leads(N, tl.linear, u.cmds, u.linear)
  <2>1. tl.linear \in Seq(N)
    <3>1. tl.linear \in Seq(K)
      BY <1>3 DEF IsTopSort, IsArray
    <3> QED BY <3>1, SeqMonotonic
  <2> QED BY <1>7, <1>11, <1>15, <1>18, <2>1
<1> QED BY <1>1, <1>19, <1>20, <1>21 DEF Complete

-----------------------------------------------------------------------------
(***************************************************************************)
(* Reading the stored state back, and the invariant of the time line.      *)
(***************************************************************************)
(* The nodes of the array at these places *)
LEMMA InOrderIs ==
  ASSUME NEW K, NEW seq \in Seq(K), NEW P \in SUBSET (1..Len(seq))
  PROVE  /\ InOrder(seq, P) \in Seq(K)
         /\ ToSet(InOrder(seq, P)) = {seq[i] : i \in P}
<1> DEFINE k == Cardinality(P)
           s == InOrder(seq, P)
<1>1. IsFiniteSet(P) /\ P \in SUBSET Nat
  <2>1. IsFiniteSet(1..Len(seq))
    <3>1. 1 \in Int /\ Len(seq) \in Int
      OBVIOUS
    <3> QED BY <3>1, FS_Interval
  <2>2. IsFiniteSet(P)
    BY <2>1, FS_Subset
  <2> QED BY <2>2
<1>2. /\ k \in Nat /\ \A i \in 1..k : KeyAt(P, i) \in P
      /\ \A x \in P : \E i \in 1..k : KeyAt(P, i) = x
  BY <1>1, KeysRise
<1>3. s = [i \in 1..k |-> seq[KeyAt(P, i)]]
  BY DEF InOrder
<1>4. \A x \in P : seq[x] \in K
  OBVIOUS
<1> HIDE DEF k, s
<1>5. s \in [1..k -> K]
  BY <1>2, <1>3, <1>4
<1>6. s \in Seq(K) /\ Len(s) = k
  <2>1. s \in Seq(K)
    BY <1>2, <1>5, SeqDef
  <2> QED BY <1>2, <1>5, <2>1, LenProperties
<1>7. ToSet(s) = {s[i] : i \in 1..k}
  BY <1>6, ToSetIs
<1>8. ToSet(s) = {seq[i] : i \in P}
  BY <1>2, <1>3, <1>7
<1> QED BY <1>6, <1>8 DEF s

(* Read back, the links are what they were: causes are read before their   *)
(* effects, because the array is sorted.                                   *)
LEMMA ReadBackIs ==
  ASSUME after \in Graphs, NEW K \in SUBSET DOMAIN after, IsFiniteSet(K), K \in SUBSET Nat,
         NEW tl, IsTopSort(tl, K), IsLinked(tl, K)
  PROVE  IsTopSort(ReadBack(tl), K) /\ IsLinked(ReadBack(tl), K)
<1> DEFINE u == ReadBack(tl)
           Pos(n) == CHOOSE i \in DOMAIN tl.linear : tl.linear[i] = n
           P == [n \in Known(tl) |-> {c \in tl.prev[n] : Pos(c) < Pos(n)}]
           S == [n \in Known(tl) |->
                   InOrder(tl.linear, {i \in DOMAIN tl.linear : n \in P[tl.linear[i]]})]
           li == tl.linear  ix == tl.indx  pv == tl.prev
           pn == tl.pending  tp == tl.tips  cs == tl.cmds  rk == tl.rank
           k == Len(li)
<1>1. /\ HasFields(tl, K) /\ IsArray(tl, K) /\ SortedOn(tl, K) /\ rk = Depth(K)
      /\ pv = [n \in K |-> after[n] \cap K]
      /\ li \in Seq(K) /\ rk \in [K -> Nat] /\ Known(tl) = K
  BY DEF IsTopSort, IsLinked, IsArray, HasFields, Known
<1>2. /\ k \in Nat /\ DOMAIN li = 1..k
      /\ \A m \in K : ix[m] \in 0..k-1 /\ li[ix[m] + 1] = m
      /\ \A p \in 0..k-1 : li[p + 1] \in K /\ ix[li[p + 1]] = p
      /\ \A a, b \in K : ix[a] = ix[b] => a = b
  <2>1. DOMAIN li = 1..k
    BY <1>1
  <2>2. /\ Len(tl.linear) \in Nat
        /\ \A m \in K : tl.indx[m] \in 0..Len(tl.linear)-1 /\ At(tl, tl.indx[m]) = m
        /\ \A p \in 0..Len(tl.linear)-1 : At(tl, p) \in K /\ tl.indx[At(tl, p)] = p
        /\ \A a, b \in K : tl.indx[a] = tl.indx[b] => a = b
    BY <1>1, Placed
  <2> QED BY <2>1, <2>2 DEF At
<1>3. ASSUME NEW i \in 1..k PROVE li[i] \in K /\ ix[li[i]] = i - 1
  <2>1. i - 1 \in 0..k-1 /\ (i - 1) + 1 = i
    BY <1>2
  <2> HIDE DEF li, ix
  <2> QED BY <1>2, <2>1
<1>4. ASSUME NEW m \in K PROVE Pos(m) = ix[m] + 1 /\ ix[m] + 1 \in 1..k
  <2>1. ix[m] + 1 \in 1..k /\ ix[m] \in Int
    BY <1>2
  <2> HIDE DEF ix, li, k
  <2>2. \E i \in DOMAIN tl.linear : tl.linear[i] = m
    BY <1>2, <2>1 DEF li
  <2>3. Pos(m) \in 1..k /\ li[Pos(m)] = m
    BY <1>2, <2>2 DEF li
  <2> DEFINE p == Pos(m)
  <2> HIDE DEF Pos
  <2>4. ix[m] = p - 1 /\ p \in Int
    BY <1>3, <2>3
  <2> HIDE DEF p
  <2>5. p = ix[m] + 1
    BY <2>4
  <2> QED BY <2>1, <2>5 DEF p
<1>5. IsDepth(Depth(K), K)
  BY DepthIs
<1>6. ASSUME NEW n \in K, NEW c \in after[n] \cap K PROVE Pos(c) < Pos(n)
  <2>1. rk[c] < rk[n] /\ c \in K
    BY <1>1, <1>5 DEF IsDepth, CausesIn
  <2>2. Before(tl, c, n)
    BY <2>1 DEF Before
  <2>3. ~Before(tl, n, c) /\ c # n
    <3>1. ~Before(tl, n, c)
      BY <1>1, <2>1, <2>2, BeforeIsOrder
    <3> QED BY <2>2, <3>1
  <2>4. ~(ix[n] < ix[c]) /\ ix[n] # ix[c]
    BY <1>1, <1>2, <2>1, <2>3 DEF SortedOn
  <2> DEFINE a == ix[c]  b == ix[n]
  <2>5. a \in 0..k-1 /\ b \in 0..k-1 /\ Pos(c) = a + 1 /\ Pos(n) = b + 1
    BY <1>2, <1>4, <2>1
  <2>6. ~(b < a) /\ b # a
    BY <2>4
  <2> HIDE DEF a, b, Pos
  <2> QED BY <1>2, <2>5, <2>6
<1>7. P = pv
  <2> HIDE DEF Pos
  <2>1. ASSUME NEW n \in K PROVE {c \in tl.prev[n] : Pos(c) < Pos(n)} = after[n] \cap K
    <3>1. tl.prev[n] = after[n] \cap K
      BY <1>1
    <3> QED BY <1>6, <3>1
  <2>2. P = [n \in K |-> {c \in tl.prev[n] : Pos(c) < Pos(n)}]
    BY <1>1
  <2>3. P = [n \in K |-> after[n] \cap K]
    BY <2>1, <2>2, Zenon
  <2> QED BY <1>1, <2>3
<1> HIDE DEF Pos
<1>8. u = [tl EXCEPT !.prev = P, !.succ = S]
  BY Zenon DEF ReadBack, Pos
<1> HIDE DEF P
<1>9. ASSUME NEW n \in K PROVE S[n] \in Seq(K) /\ ToSet(S[n]) = EffectsIn(K, n)
  <2> DEFINE Q == {i \in DOMAIN tl.linear : n \in P[tl.linear[i]]}
  <2>1. S[n] = InOrder(li, Q)
    BY <1>1
  <2>2. Q \in SUBSET (1..k)
    BY <1>2
  <2>3. InOrder(li, Q) \in Seq(K) /\ ToSet(InOrder(li, Q)) = {li[i] : i \in Q}
    <3> HIDE DEF Q, li
    <3> QED BY <1>1, <2>2, InOrderIs
  <2>4. \A i \in 1..k : i \in Q <=> n \in after[li[i]] \cap K
    BY <1>1, <1>2, <1>3, <1>7
  <2>5. \A m \in K : \E i \in 1..k : li[i] = m
    BY <1>2, <1>4
  <2> HIDE DEF Q, S
  <2>6. {li[i] : i \in Q} = EffectsIn(K, n)
    <3>1. \A i \in Q : li[i] \in EffectsIn(K, n)
      BY <1>3, <2>2, <2>4 DEF EffectsIn
    <3>2. ASSUME NEW m \in EffectsIn(K, n) PROVE \E i \in Q : li[i] = m
      <4>1. m \in K /\ n \in after[m] \cap K
        BY DEF EffectsIn
      <4>2. PICK i \in 1..k : li[i] = m
        BY <2>5, <4>1
      <4> QED BY <2>4, <4>1, <4>2
    <3> QED BY <3>1, <3>2
  <2> QED BY <2>1, <2>3, <2>6
<1>10. S \in [K -> Seq(K)]
  <2>1. S = [n \in K |-> S[n]]
    BY <1>1
  <2> HIDE DEF S
  <2> QED BY <1>9, <2>1
<1> DEFINE sc == tl.succ
<1>11. tl = [linear |-> li, indx |-> ix, rank |-> rk, prev |-> pv, succ |-> sc,
             pending |-> pn, tips |-> tp, cmds |-> cs]
  BY <1>1 DEF HasFields
<1> HIDE DEF S, li, ix, pv, pn, tp, cs, rk, k, sc
<1>12. u = [[linear |-> li, indx |-> ix, rank |-> rk, prev |-> pv, succ |-> sc,
             pending |-> pn, tips |-> tp, cmds |-> cs] EXCEPT !.prev = P, !.succ = S]
  BY <1>8, <1>11, Zenon
<1>13. u = [linear |-> li, indx |-> ix, rank |-> rk, prev |-> P, succ |-> S,
            pending |-> pn, tips |-> tp, cmds |-> cs]
  BY <1>12
<1> HIDE DEF u
<1>14. /\ u.linear = li /\ u.indx = ix /\ u.rank = rk /\ u.prev = P /\ u.succ = S
       /\ u.pending = pn /\ u.tips = tp /\ u.cmds = cs
  BY <1>13
<1>15. u = [linear |-> u.linear, indx |-> u.indx, rank |-> u.rank, prev |-> u.prev,
            succ |-> u.succ, pending |-> u.pending, tips |-> u.tips, cmds |-> u.cmds]
  BY <1>13, <1>14
<1>16. HasFields(u, K)
  BY <1>1, <1>10, <1>14, <1>15 DEF HasFields
<1>17. IsArray(u, K)
  BY <1>1, <1>14 DEF IsArray, At, li, ix
<1>18. SortedOn(u, K)
  BY <1>1, <1>14 DEF SortedOn, Before, ix, rk
<1>19. IsTopSort(u, K)
  BY <1>1, <1>14, <1>16, <1>17, <1>18 DEF IsTopSort
<1>20. IsLinked(u, K)
  BY <1>1, <1>7, <1>9, <1>14 DEF IsLinked, pn, tp
<1> QED BY <1>19, <1>20 DEF u

-----------------------------------------------------------------------------
(* The empty time line.                                                    *)
LEMMA InitIInv == Init => IInv
<1> SUFFICES ASSUME Init PROVE IInv
  OBVIOUS
<1>1. after \in Graphs /\ t = Empty /\ listens = TRUE /\ view = <<>>
  BY DEF Init
<1>2. /\ t.linear = <<>> /\ t.indx = <<>> /\ t.rank = <<>> /\ t.prev = <<>> /\ t.succ = <<>>
      /\ t.pending = <<>> /\ t.tips = {} /\ t.cmds = <<>>
  BY <1>1 DEF Empty
<1>3. Known(t) = {} /\ IsFiniteSet({}) /\ {} \in SUBSET DOMAIN after
  BY <1>2, FS_EmptySet DEF Known
<1>4. \A X : <<>> \in [{} -> X]
  OBVIOUS
<1>5. \A f, g : f = [x \in {} |-> f[x]] /\ g = [x \in {} |-> g[x]] => f = g
  OBVIOUS
<1>6. HasFields(t, {})
  <2>1. t = [linear |-> t.linear, indx |-> t.indx, rank |-> t.rank, prev |-> t.prev,
             succ |-> t.succ, pending |-> t.pending, tips |-> t.tips, cmds |-> t.cmds]
    BY <1>1, <1>2 DEF Empty
  <2> QED BY <1>2, <1>4, <2>1 DEF HasFields
<1>7. IsArray(t, {})
  <2>1. Len(t.linear) = 0 /\ t.linear \in Seq({})
    BY <1>2
  <2>2. 0..Len(t.linear) - 1 = {}
    BY <2>1
  <2> QED BY <1>2, <1>4, <2>1, <2>2 DEF IsArray
<1>8. t.rank = Depth({})
  <2>1. Depth({}) \in [{} -> Nat]
    BY <1>1, <1>3, DepthIs DEF IsDepth
  <2>2. t.rank \in [{} -> Nat]
    BY <1>2, <1>4
  <2> QED BY <2>1, <2>2
<1>9. IsTopSort(t, {})
  BY <1>6, <1>7, <1>8 DEF IsTopSort, SortedOn
<1>10. IsLinked(t, {})
  <2>1. t.prev = [n \in {} |-> after[n] \cap {}]
    <3>1. t.prev \in [{} -> Nat] /\ [n \in {} |-> after[n] \cap {}] \in [{} -> Nat]
      BY <1>2, <1>4
    <3> QED BY <3>1
  <2>2. DOMAIN t.pending = {} /\ CausesOf({}) = {}
    BY <1>2 DEF CausesOf
  <2>3. t.pending \in [{} -> Seq({})]
    BY <1>2, <1>4
  <2> QED BY <1>2, <2>1, <2>2, <2>3 DEF IsLinked
<1> QED BY <1>1, <1>2, <1>3, <1>9, <1>10 DEF IInv, ViewFollows

LinkedBy(causes, tl, K) ==
  /\ tl.prev = [n \in K |-> causes[n] \cap K]
  /\ \A c \in K : ToSet(tl.succ[c]) = {n \in K : c \in causes[n]}
  /\ DOMAIN tl.pending = (UNION {causes[n] : n \in K}) \ K
  /\ tl.pending \in [DOMAIN tl.pending -> Seq(K)]
  /\ \A c \in DOMAIN tl.pending : ToSet(tl.pending[c]) = {n \in K : c \in causes[n]}
  /\ tl.tips = K \ (UNION {causes[n] : n \in K})

(* No step changes what the posts name as their causes.                    *)
LEMMA StateKept ==
  ASSUME after' = after, NEW K, Known(t') = K, IsTopSort(t', K), IsLinked(t', K)
  PROVE  IsTopSort(t, Known(t))' /\ IsLinked(t, Known(t))'
<1>1. Known(t)' = K
  BY DEF Known
<1>2. /\ HasFields(t', K) /\ IsArray(t', K) /\ SortedOn(t', K)
      /\ t'.rank = Depths(after, K)
  BY DEF IsTopSort, Depth
<1>3. (HasFields(t, Known(t)) /\ IsArray(t, Known(t)) /\ SortedOn(t, Known(t)))'
  BY <1>1, <1>2
<1>4. (t.rank = Depth(Known(t)))'
  BY <1>1, <1>2 DEF Depth
<1>5. IsTopSort(t, Known(t))'
  BY <1>3, <1>4 DEF IsTopSort
<1>6. LinkedBy(after, t', K)
  BY Zenon DEF IsLinked, EffectsIn, CausesOf, LinkedBy
<1>7. LinkedBy(after', t', K)
  BY <1>6
<1>8. IsLinked(t, Known(t))'
  <2>1. LinkedBy(after', t', Known(t)')
    BY <1>1, <1>7, Zenon
  <2> QED BY <2>1 DEF IsLinked, EffectsIn, CausesOf, LinkedBy
<1> QED BY <1>5, <1>8

(* A post arrives.                                                         *)
LEMMA AddIInv ==
  ASSUME IInv, NEW n \in DOMAIN after, Add(n)
  PROVE  IInv'
<1> DEFINE K == Known(t)
           N == K \union {n}
<1>1. /\ after \in Graphs /\ K \in SUBSET DOMAIN after /\ IsFiniteSet(K)
      /\ IsTopSort(t, K) /\ IsLinked(t, K) /\ ViewFollows
  BY DEF IInv
<1>2. n \notin K /\ after' = after /\ listens' = listens
  BY DEF Add
<1>3. PICK known \in SetToSeqs(after[n] \cap K) :
        /\ t' = Added(t, n, known, after[n] \ K)
        /\ view' = IF listens THEN Followed(view, Compressed(t'.cmds)) ELSE view
  BY DEF Add
<1>4. Arrives(t, K, n, known)
  BY <1>1, <1>2, <1>3 DEF Arrives
<1> HIDE DEF K
<1>6. Complete(t', t, K, n)
  BY <1>3, <1>4, AddedIs
<1>7. IsTopSort(t', N) /\ IsLinked(t', N) /\ Leads(N, t.linear, t'.cmds, t'.linear)
  BY <1>6 DEF Complete
<1>8. Known(t') = N
  BY <1>7 DEF IsTopSort, HasFields, Known
<1>9. N \in SUBSET DOMAIN after /\ IsFiniteSet(N)
  BY <1>1, FS_AddElement
<1>10. ViewFollows'
  <2>1. CASE listens
    <3>1. view = t.linear
      BY <1>1, <2>1 DEF ViewFollows
    <3>2. t.linear \in Seq(N)
      <4>1. t.linear \in Seq(K)
        BY <1>1 DEF IsTopSort, IsArray
      <4> QED BY <4>1, SeqMonotonic
    <3>3. Leads(N, t.linear, Compressed(t'.cmds), t'.linear)
      BY <1>7, <3>2, CompressedLeads
    <3>4. Followed(t.linear, Compressed(t'.cmds)) = t'.linear
      BY <3>3, LeadsFollowed
    <3> QED BY <1>3, <2>1, <3>1, <3>4 DEF ViewFollows
  <2>2. CASE ~listens
    BY <1>2, <2>2 DEF ViewFollows
  <2> QED BY <2>1, <2>2
<1>11. IsTopSort(t, Known(t))' /\ IsLinked(t, Known(t))'
  BY <1>2, <1>7, <1>8, StateKept
<1> QED BY <1>1, <1>2, <1>8, <1>9, <1>10, <1>11 DEF IInv, Known

(* The state is stored and read back.                                      *)
LEMMA ReloadIInv ==
  ASSUME IInv, Reload
  PROVE  IInv'
<1> DEFINE K == Known(t)
<1>1. /\ after \in Graphs /\ K \in SUBSET DOMAIN after /\ IsFiniteSet(K)
      /\ IsTopSort(t, K) /\ IsLinked(t, K)
  BY DEF IInv
<1>2. t' = ReadBack(t) /\ after' = after /\ listens' = FALSE
  BY DEF Reload
<1>3. K \in SUBSET Nat
  BY <1>1, TimelineAssumption
<1> HIDE DEF K
<1>4. IsTopSort(t', K) /\ IsLinked(t', K)
  BY <1>1, <1>2, <1>3, ReadBackIs
<1>5. Known(t') = K
  BY <1>4 DEF IsTopSort, HasFields, Known
<1>6. IsTopSort(t, Known(t))' /\ IsLinked(t, Known(t))'
  BY <1>2, <1>4, <1>5, StateKept
<1> QED BY <1>1, <1>2, <1>5, <1>6 DEF IInv, Known, ViewFollows

(* Whatever the graph of posts, the order in which they arrive and the     *)
(* reloads in between: array, positions, ranks and links agree.            *)
THEOREM IInvHolds == Spec => []IInv
<1>1. IInv /\ [Next]_vars => IInv'
  <2> SUFFICES ASSUME IInv, [Next]_vars PROVE IInv'
    OBVIOUS
  <2>1. CASE UNCHANGED vars
    <3>1. after' = after /\ t' = t /\ listens' = listens /\ view' = view
      BY <2>1 DEF vars
    <3> DEFINE K == Known(t)
    <3>2. /\ after \in Graphs /\ K \subseteq DOMAIN after /\ IsFiniteSet(K)
          /\ IsTopSort(t, K) /\ IsLinked(t, K) /\ ViewFollows
      BY DEF IInv
    <3> HIDE DEF K
    <3>3. Known(t') = K /\ IsTopSort(t', K) /\ IsLinked(t', K)
      BY <3>1, <3>2 DEF K
    <3>4. IsTopSort(t, Known(t))' /\ IsLinked(t, Known(t))'
      BY <3>1, <3>3, StateKept
    <3> QED BY <3>1, <3>2, <3>3, <3>4 DEF IInv, Known, ViewFollows
  <2>2. ASSUME NEW n \in DOMAIN after, Add(n) PROVE IInv'
    BY <2>2, AddIInv
  <2>3. CASE Reload
    BY <2>3, ReloadIInv
  <2> QED BY <2>1, <2>2, <2>3 DEF Next
<1> QED BY InitIInv, <1>1, PTL DEF Spec

(* After every arrival, causes before effects or after them, the array is  *)
(* sorted by the length of the chain of causes, then by name: what the     *)
(* incremental moves of scuttlesort.js are to keep.                        *)
THEOREM CanonicalHolds == Spec => []Canonical
<1>1. IInv => Canonical
  <2> SUFFICES ASSUME IInv PROVE Canonical
    OBVIOUS
  <2> DEFINE K == Known(t)
             d == Depth(K)
             seq == t.linear
             k == Len(seq)
  <2>1. /\ after \in Graphs /\ K \in SUBSET DOMAIN after /\ IsFiniteSet(K)
        /\ IsArray(t, K) /\ SortedOn(t, K) /\ t.rank = d
    BY DEF IInv, IsTopSort
  <2> HIDE DEF K
  <2>2. /\ k \in Nat /\ \A m \in K : t.indx[m] \in 0..k-1 /\ seq[t.indx[m] + 1] = m
        /\ \A p \in 0..k-1 : seq[p + 1] \in K /\ t.indx[seq[p + 1]] = p
        /\ seq \in Seq(K) /\ DOMAIN seq = 1..k
    <3>1. seq \in Seq(K)
      BY <2>1 DEF IsArray
    <3>2. /\ k \in Nat
          /\ \A m \in K : t.indx[m] \in 0..k-1 /\ At(t, t.indx[m]) = m
          /\ \A p \in 0..k-1 : At(t, p) \in K /\ t.indx[At(t, p)] = p
      <4>1. IsArray(t, K)
        BY <2>1
      <4> HIDE DEF IsArray
      <4> QED BY <4>1, Placed, Zenon
    <3>3. DOMAIN seq = 1..k
      BY <3>1
    <3> QED BY <3>1, <3>2, <3>3 DEF At
  <2>3. ASSUME NEW i \in 1..k PROVE seq[i] \in K /\ t.indx[seq[i]] = i - 1
    <3>1. i - 1 \in 0..k-1 /\ (i - 1) + 1 = i
      BY <2>2
    <3> HIDE DEF seq
    <3> QED BY <2>2, <3>1
  <2>4. ToSet(seq) = K
    <3>1. ToSet(seq) = {seq[i] : i \in 1..k}
      BY <2>2, ToSetIs
    <3>2. ASSUME NEW m \in K PROVE \E i \in 1..k : seq[i] = m
      <4>1. t.indx[m] + 1 \in 1..k
        BY <2>2
      <4> QED BY <2>2, <4>1
    <3> HIDE DEF seq, k
    <3> QED BY <2>3, <3>1, <3>2
  <2>5. ASSUME NEW i \in 1..k, NEW j \in 1..k, i < j
        PROVE  d[seq[i]] < d[seq[j]] \/ (d[seq[i]] = d[seq[j]] /\ seq[i] < seq[j])
    <3>1. t.indx[seq[i]] < t.indx[seq[j]]
      <4>1. i - 1 < j - 1
        BY <2>2, <2>5
      <4> QED BY <2>3, <4>1
    <3>2. Before(t, seq[i], seq[j])
      BY <2>1, <2>3, <3>1 DEF SortedOn
    <3> QED BY <2>1, <3>2 DEF Before
  <2>6. IsTimeline(seq, K)
    <3> HIDE DEF seq
    <3> QED BY <2>2, <2>4, <2>5 DEF IsTimeline
  <2> QED BY <2>6 DEF Canonical, K
<1> QED BY IInvHolds, <1>1, PTL

(* The tips, which the next post names as its causes, are the posts that   *)
(* no known post names, also when effects arrive before their causes.      *)
THEOREM TipsAreLastHolds == Spec => []TipsAreLast
<1>1. IInv => TipsAreLast
  BY DEF IInv, IsLinked, TipsAreLast, CausesOf
<1> QED BY IInvHolds, <1>1, PTL

(* A listener that is only sent the compressed ins and mov commands holds  *)
(* the array that the time line holds.                                     *)
THEOREM ViewFollowsHolds == Spec => []ViewFollows
<1>1. IInv => ViewFollows
  BY DEF IInv
<1> QED BY IInvHolds, <1>1, PTL
=============================================================================
