------------------------- MODULE IpManager_proofs -------------------------
(***************************************************************************)
(* Proofs about the IP manager: the list and the dictionary agree, unsaved *)
(* IPs are known, and no count falls below zero, for any number of IPs,    *)
(* connect threads and scan threads, and any limits.                       *)
(***************************************************************************)
EXTENDS IpManager, FiniteSetTheorems, SequenceTheorems, TLAPS

-----------------------------------------------------------------------------
(***************************************************************************)
(* s lists the elements of S, each once.                                   *)
(***************************************************************************)
Lists(s, S) ==
    /\ s \in Seq(S)
    /\ \A x \in S : \E i \in 1 .. Len(s) : s[i] = x
    /\ \A i, j \in 1 .. Len(s) : s[i] = s[j] => i = j

LEMMA ListsFinite ==
  ASSUME NEW S, NEW s, Lists(s, S)
  PROVE  IsFiniteSet(S)
<1>1. Len(s) \in Nat /\ s \in [1 .. Len(s) -> S]
  BY DEF Lists
<1>2. IsFiniteSet(1 .. Len(s))
  BY <1>1, FS_Interval
<1>3. s \in Surjection(1 .. Len(s), S)
  BY <1>1 DEF Lists, Surjection
<1>4. QED
  BY <1>2, <1>3, FS_Surjection

(***************************************************************************)
(* A sorted list has the same elements.                                    *)
(***************************************************************************)
LEMMA OrdersList ==
  ASSUME NEW S, IsFiniteSet(S), NEW s \in Orders(S)
  PROVE  Lists(s, S)
<1>1. Cardinality(S) \in Nat
  BY FS_CardinalityType
<1>2. s \in [1 .. Cardinality(S) -> S]
  BY DEF Orders
<1>3. s \in Seq(S) /\ Len(s) = Cardinality(S) /\ DOMAIN s = 1 .. Len(s)
  BY <1>1, <1>2
<1>4. QED
  BY <1>3 DEF Orders, Lists

(***************************************************************************)
(* A list with one more element at its end.                                *)
(***************************************************************************)
LEMMA AppendLists ==
  ASSUME NEW S, NEW s, Lists(s, S), NEW x, x \notin S
  PROVE  Lists(Append(s, x), S \cup {x})
<1> DEFINE t == Append(s, x)
           T == S \cup {x}
<1>1. s \in Seq(S) /\ Len(s) \in Nat /\ \A i \in 1 .. Len(s) : s[i] \in S
  BY DEF Lists
<1>2. /\ t \in Seq(T) /\ Len(t) = Len(s) + 1
      /\ \A i \in 1 .. Len(s) : t[i] = s[i]
      /\ t[Len(s) + 1] = x
  <2>1. s \in Seq(T)
    BY <1>1
  <2>2. QED
    BY <1>1, <2>1
<1>3. \A y \in T : \E i \in 1 .. Len(t) : t[i] = y
  <2>1. SUFFICES ASSUME NEW y \in T PROVE \E i \in 1 .. Len(t) : t[i] = y
    OBVIOUS
  <2>2. CASE y = x
    BY <1>1, <1>2, <2>2
  <2>3. CASE y \in S
    <3>1. PICK i \in 1 .. Len(s) : s[i] = y
      BY <2>3 DEF Lists
    <3>2. QED
      BY <1>1, <1>2, <3>1
  <2>4. QED
    BY <2>2, <2>3
<1>4. \A i, j \in 1 .. Len(t) : t[i] = t[j] => i = j
  <2>1. SUFFICES ASSUME NEW i \in 1 .. Len(t), NEW j \in 1 .. Len(t), t[i] = t[j]
                 PROVE  i = j
    OBVIOUS
  <2>2. CASE i \in 1 .. Len(s) /\ j \in 1 .. Len(s)
    BY <1>2, <2>1, <2>2 DEF Lists
  <2>3. CASE i = Len(s) + 1 /\ j \in 1 .. Len(s)
    BY <1>1, <1>2, <2>1, <2>3
  <2>4. CASE j = Len(s) + 1 /\ i \in 1 .. Len(s)
    BY <1>1, <1>2, <2>1, <2>4
  <2>5. CASE i = Len(s) + 1 /\ j = Len(s) + 1
    BY <2>5
  <2>6. QED
    BY <1>1, <1>2, <2>2, <2>3, <2>4, <2>5
<1>5. QED
  BY <1>2, <1>3, <1>4 DEF Lists

(***************************************************************************)
(* list.remove takes out one element and closes the gap.                   *)
(***************************************************************************)
LEMMA WithoutLists ==
  ASSUME NEW S, Lists(ip_list, S), NEW x \in S
  PROVE  Lists(ListWithout(x), S \ {x})
<1> DEFINE First(i) == ip_list[i] = x /\ \A j \in 1 .. i - 1 : ip_list[j] # x
           k == CHOOSE i \in DOMAIN ip_list : First(i)
           n == Len(ip_list)
           t == [i \in 1 .. n - 1 |-> IF i < k THEN ip_list[i] ELSE ip_list[i + 1]]
<1>1. n \in Nat /\ DOMAIN ip_list = 1 .. n /\ \A i \in 1 .. n : ip_list[i] \in S
  BY DEF Lists
<1>2. PICK m \in 1 .. n : ip_list[m] = x
  BY DEF Lists
<1>3. First(m)
  BY <1>1, <1>2 DEF Lists
<1>4. k \in 1 .. n /\ ip_list[k] = x
  <2>1. k \in DOMAIN ip_list /\ First(k)
    BY <1>1, <1>2, <1>3
  <2>2. QED
    BY <1>1, <2>1
<1>5. ListWithout(x) = t
  BY <1>1, <1>2 DEF ListWithout, Listed
<1> HIDE DEF k
<1>6. \A i \in 1 .. n - 1 : t[i] \in S \ {x}
  <2>1. SUFFICES ASSUME NEW i \in 1 .. n - 1 PROVE t[i] \in S \ {x}
    OBVIOUS
  <2>2. CASE i < k
    BY <1>1, <1>4, <2>2 DEF Lists
  <2>3. CASE ~(i < k)
    BY <1>1, <1>4, <2>3 DEF Lists
  <2>4. QED
    BY <2>2, <2>3
<1>7. t \in Seq(S \ {x}) /\ Len(t) = n - 1
  <2>1. n - 1 \in Nat /\ t \in [1 .. n - 1 -> S \ {x}]
    BY <1>1, <1>4, <1>6
  <2>2. QED
    BY <2>1
<1>8. \A y \in S \ {x} : \E i \in 1 .. n - 1 : t[i] = y
  <2>1. SUFFICES ASSUME NEW y \in S \ {x} PROVE \E i \in 1 .. n - 1 : t[i] = y
    OBVIOUS
  <2>2. PICK i \in 1 .. n : ip_list[i] = y
    BY DEF Lists
  <2>3. CASE i < k
    BY <1>1, <1>4, <2>2, <2>3
  <2>4. CASE i > k
    <3>1. i - 1 \in 1 .. n - 1 /\ ~(i - 1 < k) /\ (i - 1) + 1 = i
      BY <1>1, <1>4, <2>4
    <3>2. QED
      BY <2>2, <3>1
  <2>5. i # k
    BY <1>4, <2>2
  <2>6. QED
    BY <1>1, <1>4, <2>3, <2>4, <2>5
<1>9. \A i, j \in 1 .. n - 1 : t[i] = t[j] => i = j
  <2>1. SUFFICES ASSUME NEW i \in 1 .. n - 1, NEW j \in 1 .. n - 1, t[i] = t[j]
                 PROVE  i = j
    OBVIOUS
  <2> DEFINE From(a) == IF a < k THEN a ELSE a + 1
  <2>2. /\ From(i) \in 1 .. n /\ From(j) \in 1 .. n
        /\ t[i] = ip_list[From(i)] /\ t[j] = ip_list[From(j)]
    BY <1>1, <1>4
  <2>3. From(i) = From(j)
    BY <2>1, <2>2 DEF Lists
  <2>4. QED
    BY <1>1, <1>4, <2>3
<1>10. QED
  BY <1>5, <1>7, <1>8, <1>9 DEF Lists

(***************************************************************************)
(* What is left of the list when its end is cut off.                       *)
(***************************************************************************)
LEMMA CutLists ==
  ASSUME NEW S, NEW s, Lists(s, S), NEW m \in Nat, Len(s) > m
  PROVE  Lists(SubSeq(s, 1, m), S \ {s[i] : i \in m + 1 .. Len(s)})
<1> DEFINE t == SubSeq(s, 1, m)
           T == S \ {s[i] : i \in m + 1 .. Len(s)}
<1>1. s \in Seq(S) /\ Len(s) \in Nat /\ \A i \in 1 .. Len(s) : s[i] \in S
  BY DEF Lists
<1>2. \A i \in 1 .. m : s[i] \in T
  <2>1. SUFFICES ASSUME NEW i \in 1 .. m, NEW j \in m + 1 .. Len(s), s[i] = s[j]
                 PROVE  FALSE
    BY <1>1
  <2>2. i \in 1 .. Len(s) /\ j \in 1 .. Len(s) /\ i # j
    BY <1>1
  <2>3. QED
    BY <2>1, <2>2 DEF Lists
<1>3. /\ t \in Seq(T) /\ Len(t) = m
      /\ \A i \in 1 .. m : t[i] = s[i]
  <2>1. /\ t \in Seq(T)
        /\ Len(t) = IF 1 <= m THEN m - 1 + 1 ELSE 0
        /\ \A i \in 1 .. m - 1 + 1 : t[i] = s[1 + i - 1]
    BY <1>2, SubSeqProperties
  <2>2. QED
    BY <2>1
<1>5. \A y \in T : \E i \in 1 .. m : t[i] = y
  <2>1. SUFFICES ASSUME NEW y \in T PROVE \E i \in 1 .. m : t[i] = y
    OBVIOUS
  <2>2. PICK i \in 1 .. Len(s) : s[i] = y
    BY DEF Lists
  <2>3. i \in 1 .. m
    BY <1>1, <2>2
  <2>4. QED
    BY <1>3, <2>2, <2>3
<1>6. \A i, j \in 1 .. m : t[i] = t[j] => i = j
  <2>1. SUFFICES ASSUME NEW i \in 1 .. m, NEW j \in 1 .. m, t[i] = t[j]
                 PROVE  i = j
    OBVIOUS
  <2>2. s[i] = s[j] /\ i \in 1 .. Len(s) /\ j \in 1 .. Len(s)
    BY <1>1, <1>3, <2>1
  <2>3. QED
    BY <2>2 DEF Lists
<1> HIDE DEF t, T
<1>7. Lists(t, T)
  BY <1>3, <1>5, <1>6 DEF Lists
<1>8. QED
  BY <1>7 DEF t, T

-----------------------------------------------------------------------------
(***************************************************************************)
(* The list and the dictionary.                                            *)
(***************************************************************************)
ListInv == Lists(ip_list, DOMAIN ip_dict)

LEMMA ListInvEnough ==
  ASSUME ListInv
  PROVE  ListMatchesDict
<1>1. DOMAIN ip_list = 1 .. Len(ip_list) /\ \A i \in 1 .. Len(ip_list) : ip_list[i] \in DOMAIN ip_dict
  BY DEF ListInv, Lists
<1>2. Listed = DOMAIN ip_dict
  <2>1. \A x \in DOMAIN ip_dict : \E i \in 1 .. Len(ip_list) : ip_list[i] = x
    BY DEF ListInv, Lists
  <2>2. QED
    BY <1>1, <2>1 DEF Listed
<1>3. QED
  BY <1>1, <1>2 DEF ListMatchesDict, ListInv, Lists

LEMMA ListInit == Init => ListInv
<1>1. SUFFICES ASSUME Init PROVE ListInv
  OBVIOUS
<1>2. DOMAIN ip_dict \in SUBSET IPs
  BY <1>1 DEF Init
<1>3. IsFiniteSet(DOMAIN ip_dict)
  BY <1>2, IpAssumption, FS_Subset
<1>4. QED
  BY <1>1, <1>3, OrdersList DEF Init, ListInv

(***************************************************************************)
(* The steps that change the list or the dictionary.                       *)
(***************************************************************************)
LEMMA ListSteps ==
  ASSUME Next
  PROVE  \/ \E p \in Threads : TrySortIp(p)
         \/ \E p \in Threads : RecheckRestores(p)
         \/ \E l \in Links : ConnectTakes(l) \/ ConnectFails(l) \/ WorkerRechecks(l)
         \/ \E w \in Scanners : ScanRechecks(w) \/ RemoveIp(w) \/ ScanFinds(w) \/ RemoveSlowestIp(w)
         \/ UNCHANGED listVars
<1>1. CASE \E p \in Threads : ListStep(p)
  BY <1>1 DEF ListStep, AdjustScanThreadNum, SearchMoreIp, StartScan, Rechecked, Save, WriteFile
<1>2. CASE \E l \in Links : LinkStep(l)
  BY <1>2 DEF LinkStep, ConnectSorts, UpdateIp, ReportConnectClosed, IsIpEnough, RecheckCounts
<1>3. CASE \E w \in Scanners : ScanStep(w)
  BY <1>3 DEF ScanStep, ScanLoop, ScanTakesNothing, ScanEnds, ScanIp, ScanFails, ScanFound
<1>4. CASE Stop
  BY <1>4 DEF Stop
<1>5. QED
  BY <1>1, <1>2, <1>3, <1>4 DEF Next

LEMMA TakeKeepsList ==
  ASSUME ListInv, NEW p, NEW ip, TakeIp(p, ip)
  PROVE  ListInv'
<1>1. DOMAIN ip_dict' = DOMAIN ip_dict /\ ip_list' = ip_list
  BY DEF TakeIp
<1>2. QED
  BY <1>1 DEF ListInv

LEMMA FailKeepsList ==
  ASSUME ListInv, NEW l, NEW t, ReportConnectFail(l, t)
  PROVE  ListInv'
<1>1. DOMAIN ip_dict' = DOMAIN ip_dict /\ ip_list' = ip_list
  BY DEF ReportConnectFail
<1>2. QED
  BY <1>1 DEF ListInv

LEMMA AddKeepsList ==
  ASSUME ListInv, NEW ip, NEW known, AddIp(ip, known)
  PROVE  ListInv'
<1>1. CASE known
  BY <1>1 DEF AddIp, ListInv, listVars
<1>2. CASE ~known
  <2>1. /\ ip \notin DOMAIN ip_dict
        /\ DOMAIN ip_dict' = DOMAIN ip_dict \cup {ip}
        /\ ip_list' = Append(ip_list, ip)
    BY <1>2 DEF AddIp
  <2>2. Lists(Append(ip_list, ip), DOMAIN ip_dict \cup {ip})
    BY <2>1, AppendLists DEF ListInv
  <2>3. QED
    BY <2>1, <2>2 DEF ListInv
<1>3. QED
  BY <1>1, <1>2

LEMMA ListNext == ListInv /\ [Next]_vars => ListInv'
<1>1. SUFFICES ASSUME ListInv, [Next]_vars PROVE ListInv'
  OBVIOUS
<1>2. CASE UNCHANGED listVars
  BY <1>1, <1>2 DEF ListInv, listVars
<1>3. ASSUME NEW p \in Threads, TrySortIp(p) PROVE ListInv'
  <2>1. IsFiniteSet(DOMAIN ip_dict)
    BY <1>1, ListsFinite DEF ListInv
  <2>2. ip_list' \in Orders(DOMAIN ip_dict) /\ ip_dict' = ip_dict
    BY <1>3 DEF TrySortIp
  <2>3. Lists(ip_list', DOMAIN ip_dict)
    BY <2>1, <2>2, OrdersList
  <2>4. QED
    BY <2>2, <2>3 DEF ListInv
<1>4. ASSUME NEW p \in Threads, RecheckRestores(p) PROVE ListInv'
  BY <1>1, <1>4, AddKeepsList DEF RecheckRestores
<1>5. ASSUME NEW l \in Links, ConnectTakes(l) PROVE ListInv'
  BY <1>1, <1>5, TakeKeepsList DEF ConnectTakes
<1>6. ASSUME NEW l \in Links, ConnectFails(l) PROVE ListInv'
  BY <1>1, <1>6, FailKeepsList DEF ConnectFails
<1>7. ASSUME NEW l \in Links, WorkerRechecks(l) PROVE ListInv'
  BY <1>1, <1>2, <1>7, FailKeepsList DEF WorkerRechecks
<1>8. ASSUME NEW w \in Scanners, ScanRechecks(w) PROVE ListInv'
  BY <1>1, <1>8, TakeKeepsList DEF ScanRechecks
<1>9. ASSUME NEW w \in Scanners, RemoveIp(w) PROVE ListInv'
  <2>1. CASE at[w].ip \in DOMAIN ip_dict
    <3>1. DOMAIN ip_dict' = DOMAIN ip_dict \ {at[w].ip} /\ ip_list' = ListWithout(at[w].ip)
      BY <1>9, <2>1 DEF RemoveIp, Without
    <3>2. Lists(ListWithout(at[w].ip), DOMAIN ip_dict \ {at[w].ip})
      BY <1>1, <2>1, WithoutLists DEF ListInv
    <3>3. QED
      BY <3>1, <3>2 DEF ListInv
  <2>2. CASE at[w].ip \notin DOMAIN ip_dict
    BY <1>2, <1>9, <2>2 DEF RemoveIp
  <2>3. QED
    BY <2>1, <2>2
<1>10. ASSUME NEW w \in Scanners, ScanFinds(w) PROVE ListInv'
  BY <1>1, <1>10, AddKeepsList DEF ScanFinds
<1>11. ASSUME NEW w \in Scanners, RemoveSlowestIp(w) PROVE ListInv'
  <2> DEFINE Cut == {ip_list[i] : i \in MaxGoodIpNum + 1 .. Len(ip_list)}
  <2>1. CASE Len(ip_list) > MaxGoodIpNum
    <3>1. /\ DOMAIN ip_dict' = DOMAIN ip_dict \ Cut
          /\ ip_list' = SubSeq(ip_list, 1, MaxGoodIpNum)
      BY <1>11, <2>1 DEF RemoveSlowestIp, Without
    <3>2. MaxGoodIpNum \in Nat
      BY IpAssumption
    <3>3. Lists(SubSeq(ip_list, 1, MaxGoodIpNum), DOMAIN ip_dict \ Cut)
      BY <1>1, <2>1, <3>2, CutLists DEF ListInv
    <3>4. QED
      BY <3>1, <3>3 DEF ListInv
  <2>2. CASE ~(Len(ip_list) > MaxGoodIpNum)
    BY <1>2, <1>11, <2>2 DEF RemoveSlowestIp
  <2>3. QED
    BY <2>1, <2>2
<1>12. CASE Next
  BY <1>2, <1>3, <1>4, <1>5, <1>6, <1>7, <1>8, <1>9, <1>10, <1>11, <1>12, ListSteps
<1>13. CASE UNCHANGED vars
  BY <1>2, <1>13 DEF vars
<1>14. QED
  BY <1>1, <1>12, <1>13

(***************************************************************************)
(* get_ip_sni_host finds every IP of ip_list in ip_dict, and every IP of    *)
(* ip_dict has its place in the list, at any time.                          *)
(***************************************************************************)
THEOREM ListAgrees == Spec => []ListMatchesDict
<1>1. ListInv => ListMatchesDict
  BY ListInvEnough
<1>2. QED
  BY <1>1, ListInit, ListNext, PTL DEF Spec

-----------------------------------------------------------------------------
(***************************************************************************)
(* The links of an IP are a number, which the types need.                  *)
(***************************************************************************)
LinkInv == \A ip \in DOMAIN ip_dict : ip_dict[ip] \in 0 .. MaxLinksPerIp

LEMMA TakeKeepsLinks ==
  ASSUME LinkInv, NEW p, NEW ip, TakeIp(p, ip)
  PROVE  LinkInv'
<1>1. MaxLinksPerIp \in Nat
  BY IpAssumption
<1>2. ip_dict' = [ip_dict EXCEPT ![ip] = @ + 1] /\ ip_dict[ip] < MaxLinksPerIp
  BY DEF TakeIp, MayTake
<1>3. SUFFICES ASSUME NEW x \in DOMAIN ip_dict' PROVE ip_dict'[x] \in 0 .. MaxLinksPerIp
  BY DEF LinkInv
<1>4. x \in DOMAIN ip_dict /\ ip_dict[x] \in 0 .. MaxLinksPerIp
  BY <1>2, <1>3 DEF LinkInv
<1>5. CASE x = ip
  BY <1>1, <1>2, <1>4, <1>5
<1>6. CASE x # ip
  BY <1>2, <1>4, <1>6
<1>7. QED
  BY <1>5, <1>6

LEMMA FailKeepsLinks ==
  ASSUME LinkInv, NEW l, NEW t, ReportConnectFail(l, t)
  PROVE  LinkInv'
<1> DEFINE y == at[l].ip
<1>1. MaxLinksPerIp \in Nat
  BY IpAssumption
<1>2. \/ ip_dict' = [ip_dict EXCEPT ![y] = LinkDropped(@)]
      \/ ip_dict' = ip_dict
  BY DEF ReportConnectFail
<1>3. CASE ip_dict' = ip_dict
  BY <1>3 DEF LinkInv
<1>4. CASE ip_dict' = [ip_dict EXCEPT ![y] = LinkDropped(@)]
  <2>1. SUFFICES ASSUME NEW x \in DOMAIN ip_dict' PROVE ip_dict'[x] \in 0 .. MaxLinksPerIp
    BY DEF LinkInv
  <2>2. x \in DOMAIN ip_dict /\ ip_dict[x] \in 0 .. MaxLinksPerIp
    BY <1>4, <2>1 DEF LinkInv
  <2>3. ip_dict'[x] = ip_dict[x] \/ ip_dict'[x] = LinkDropped(ip_dict[x])
    BY <1>4, <2>2
  <2>4. LinkDropped(ip_dict[x]) \in 0 .. MaxLinksPerIp
    BY <1>1, <2>2 DEF LinkDropped
  <2>5. QED
    BY <2>2, <2>3, <2>4
<1>5. QED
  BY <1>2, <1>3, <1>4

LEMMA AddKeepsLinks ==
  ASSUME LinkInv, NEW ip, NEW known, AddIp(ip, known)
  PROVE  LinkInv'
<1>1. 0 \in 0 .. MaxLinksPerIp
  BY IpAssumption
<1>2. CASE known
  BY <1>2 DEF AddIp, LinkInv, listVars
<1>3. CASE ~known
  <2>1. ip_dict' = [x \in DOMAIN ip_dict \cup {ip} |-> IF x = ip THEN 0 ELSE ip_dict[x]]
    BY <1>3 DEF AddIp
  <2>2. QED
    BY <1>1, <2>1 DEF LinkInv
<1>4. QED
  BY <1>2, <1>3

LEMMA WithoutKeepsLinks ==
  ASSUME LinkInv, NEW S, ip_dict' = Without(ip_dict, S)
  PROVE  LinkInv'
BY DEF LinkInv, Without

LEMMA LinkNext == LinkInv /\ [Next]_vars => LinkInv'
<1>1. SUFFICES ASSUME LinkInv, [Next]_vars PROVE LinkInv'
  OBVIOUS
<1>2. CASE UNCHANGED ip_dict
  BY <1>1, <1>2 DEF LinkInv
<1>3. CASE UNCHANGED listVars
  BY <1>2, <1>3 DEF listVars
<1>4. ASSUME NEW p \in Threads, TrySortIp(p) PROVE LinkInv'
  BY <1>2, <1>4 DEF TrySortIp
<1>5. ASSUME NEW p \in Threads, RecheckRestores(p) PROVE LinkInv'
  BY <1>1, <1>5, AddKeepsLinks DEF RecheckRestores
<1>6. ASSUME NEW l \in Links, ConnectTakes(l) PROVE LinkInv'
  BY <1>1, <1>6, TakeKeepsLinks DEF ConnectTakes
<1>7. ASSUME NEW l \in Links, ConnectFails(l) PROVE LinkInv'
  BY <1>1, <1>7, FailKeepsLinks DEF ConnectFails
<1>8. ASSUME NEW l \in Links, WorkerRechecks(l) PROVE LinkInv'
  BY <1>1, <1>3, <1>8, FailKeepsLinks DEF WorkerRechecks
<1>9. ASSUME NEW w \in Scanners, ScanRechecks(w) PROVE LinkInv'
  BY <1>1, <1>9, TakeKeepsLinks DEF ScanRechecks
<1>10. ASSUME NEW w \in Scanners, RemoveIp(w) PROVE LinkInv'
  <2>1. ip_dict' = Without(ip_dict, {at[w].ip}) \/ UNCHANGED listVars
    BY <1>10 DEF RemoveIp
  <2>2. QED
    BY <1>1, <1>3, <2>1, WithoutKeepsLinks
<1>11. ASSUME NEW w \in Scanners, ScanFinds(w) PROVE LinkInv'
  BY <1>1, <1>11, AddKeepsLinks DEF ScanFinds
<1>12. ASSUME NEW w \in Scanners, RemoveSlowestIp(w) PROVE LinkInv'
  <2>1. \/ ip_dict' = Without(ip_dict, {ip_list[i] : i \in MaxGoodIpNum + 1 .. Len(ip_list)})
        \/ UNCHANGED listVars
    BY <1>12 DEF RemoveSlowestIp
  <2>2. QED
    BY <1>1, <1>3, <2>1, WithoutKeepsLinks
<1>13. CASE Next
  BY <1>3, <1>4, <1>5, <1>6, <1>7, <1>8, <1>9, <1>10, <1>11, <1>12, <1>13, ListSteps
<1>14. CASE UNCHANGED vars
  BY <1>3, <1>14 DEF vars
<1>15. QED
  BY <1>1, <1>13, <1>14

-----------------------------------------------------------------------------
(***************************************************************************)
(* What a save has still to write.                                         *)
(***************************************************************************)
LEMMA AddKeepsSaved ==
  ASSUME SavedCovers, NEW ip, NEW known, AddIp(ip, known)
  PROVE  SavedCovers'
<1>1. CASE known
  BY <1>1 DEF AddIp, SavedCovers, listVars, fileVars
<1>2. CASE ~known
  BY <1>2 DEF AddIp, SavedCovers
<1>3. QED
  BY <1>1, <1>2

LEMMA SavedNext == SavedCovers /\ [Next]_vars => SavedCovers'
<1>1. SUFFICES ASSUME SavedCovers, [Next]_vars PROVE SavedCovers'
  OBVIOUS
<1> USE DEF saveVars, fileVars
<1>2. ASSUME DOMAIN ip_dict' \subseteq DOMAIN ip_dict, UNCHANGED saveVars PROVE SavedCovers'
  BY <1>1, <1>2 DEF SavedCovers
<1>3. CASE iplist_need_save'
  BY <1>3 DEF SavedCovers
<1>4. ASSUME UNCHANGED listVars, UNCHANGED saveVars PROVE SavedCovers'
  BY <1>2, <1>4 DEF listVars
<1>5. ASSUME NEW p \in Threads, ListStep(p) PROVE SavedCovers'
  <2>1. CASE TrySortIp(p)
    BY <1>2, <2>1 DEF TrySortIp
  <2>2. CASE AdjustScanThreadNum(p) \/ SearchMoreIp(p) \/ StartScan(p) \/ Rechecked(p) \/ Save(p)
    BY <1>4, <2>2 DEF AdjustScanThreadNum, SearchMoreIp, StartScan, Rechecked, Save
  <2>3. CASE RecheckRestores(p)
    BY <1>1, <2>3, AddKeepsSaved DEF RecheckRestores
  <2>4. CASE WriteFile(p)
    BY <1>1, <2>4 DEF WriteFile, SavedCovers, listVars
  <2>5. QED
    BY <1>5, <2>1, <2>2, <2>3, <2>4 DEF ListStep
<1>6. ASSUME NEW l \in Links, LinkStep(l) PROVE SavedCovers'
  <2>1. CASE ConnectSorts(l) \/ ReportConnectClosed(l) \/ IsIpEnough(l) \/ RecheckCounts(l)
    BY <1>4, <2>1 DEF ConnectSorts, ReportConnectClosed, IsIpEnough, RecheckCounts
  <2>2. CASE ConnectTakes(l)
    BY <1>2, <2>2 DEF ConnectTakes, TakeIp
  <2>3. CASE UpdateIp(l)
    <3>1. UNCHANGED listVars /\ UNCHANGED fileVars
      BY <2>3 DEF UpdateIp
    <3>2. iplist_need_save => iplist_need_save'
      <4>1. \/ UNCHANGED iplist_need_save
            \/ iplist_need_save' = (iplist_need_save \/ at[l].ip \in DOMAIN ip_dict)
        BY <2>3 DEF UpdateIp
      <4>2. QED
        BY <4>1, Zenon
    <3>3. QED
      BY <1>1, <3>1, <3>2 DEF SavedCovers, listVars
  <2>4. CASE ConnectFails(l)
    BY <1>3, <2>4 DEF ConnectFails, ReportConnectFail
  <2>5. CASE WorkerRechecks(l)
    <3>1. ReportConnectFail(l, "check") => iplist_need_save'
      BY DEF ReportConnectFail
    <3>2. QED
      BY <1>3, <1>4, <2>5, <3>1 DEF WorkerRechecks
  <2>6. QED
    BY <1>6, <2>1, <2>2, <2>3, <2>4, <2>5 DEF LinkStep
<1>7. ASSUME NEW w \in Scanners, ScanStep(w) PROVE SavedCovers'
  <2>1. CASE ScanLoop(w) \/ ScanTakesNothing(w) \/ ScanEnds(w) \/ ScanIp(w) \/ ScanFails(w) \/ ScanFound(w)
    BY <1>4, <2>1 DEF ScanLoop, ScanTakesNothing, ScanEnds, ScanIp, ScanFails, ScanFound
  <2>2. CASE ScanRechecks(w)
    BY <1>2, <2>2 DEF ScanRechecks, TakeIp
  <2>3. CASE RemoveIp(w)
    BY <1>3, <2>3 DEF RemoveIp
  <2>4. CASE ScanFinds(w)
    BY <1>1, <2>4, AddKeepsSaved DEF ScanFinds
  <2>5. CASE RemoveSlowestIp(w)
    <3>1. DOMAIN ip_dict' \subseteq DOMAIN ip_dict /\ UNCHANGED saveVars
      BY <2>5 DEF RemoveSlowestIp, Without, listVars
    <3>2. QED
      BY <1>2, <3>1
  <2>6. QED
    BY <1>7, <2>1, <2>2, <2>3, <2>4, <2>5 DEF ScanStep
<1>8. CASE Stop
  BY <1>4, <1>8 DEF Stop
<1>9. CASE UNCHANGED vars
  BY <1>4, <1>9 DEF vars
<1>10. QED
  BY <1>1, <1>5, <1>6, <1>7, <1>8, <1>9 DEF Next

(***************************************************************************)
(* Every IP is in the file, unless a save is still asked for or the last   *)
(* write of the file failed.                                               *)
(***************************************************************************)
THEOREM SavesCover == Spec => []SavedCovers
<1>1. Init => SavedCovers
  BY DEF Init, SavedCovers
<1>2. QED
  BY <1>1, SavedNext, PTL DEF Spec

-----------------------------------------------------------------------------
(***************************************************************************)
(* Where the threads are: a thread that works on an IP has one, one that   *)
(* returns from a call goes on to a place that is not the end of a scan    *)
(* thread, and scan_thread_count counts the scan threads that have not     *)
(* ended.                                                                  *)
(***************************************************************************)
WithIp == {"connecting", "open", "check", "again", "add", "count", "probe", "remove"}

Spots == WithoutIp \cup Calls \cup WithIp \cup {"leave", "slowest"}

Thens == Spots \cup {""}

Place == [pc : Spots, ip : IPs \cup {NoIp}, then : Thens, todo : Int]

LEMMA NoThen == "" \in Thens
BY DEF Thens

LEMMA SpotsThens == Spots \subseteq Thens
BY Zenon DEF Thens

PlaceOK(r) == /\ r \in Place
              /\ r.pc \in WithIp => r.ip \in IPs
              /\ r.pc \in Calls => /\ r.then \in Spots \ (Calls \cup {"free"})
                                   /\ r.then \in WithIp => r.ip \in IPs

PlacesOK == at \in [Threads -> Place] /\ \A p \in Threads : PlaceOK(at[p])

Alive == {w \in Scanners : at[w].pc # "free"}

CountOK == scan_thread_count = Cardinality(Alive)

(***************************************************************************)
(* A thread goes on: to another place of its own, into a call, back from   *)
(* one.                                                                    *)
(***************************************************************************)
LEMMA OnwardOK ==
  ASSUME PlacesOK, NEW p \in Threads, NEW l \in Spots, l \notin Calls,
         l \in WithIp => at[p].ip \in IPs
  PROVE  PlaceOK(Onward(p, l))
<1>1. at[p].ip \in IPs \cup {NoIp} /\ at[p].then \in Thens
  BY DEF PlacesOK, Place
<1>2. Onward(p, l) \in Place
  <2>1. PICK ip : ip = IF l \in WithoutIp THEN NoIp ELSE at[p].ip
    OBVIOUS
  <2>2. PICK then : then = IF l \in Calls THEN at[p].then ELSE ""
    OBVIOUS
  <2>3. ip \in IPs \cup {NoIp} /\ then \in Thens
    BY <1>1, <2>1, <2>2, NoThen
  <2>4. Onward(p, l) = [pc |-> l, ip |-> ip, then |-> then, todo |-> 0]
    BY <2>1, <2>2 DEF Onward
  <2>5. QED
    BY <2>3, <2>4 DEF Place
<1>3. /\ Onward(p, l).pc = l
      /\ l \notin WithoutIp => Onward(p, l).ip = at[p].ip
  BY DEF Onward
<1>4. l \in WithIp => l \notin WithoutIp
  BY DEF WithIp, WithoutIp
<1>5. QED
  BY <1>2, <1>3, <1>4 DEF PlaceOK

LEMMA CallOK ==
  ASSUME PlacesOK, NEW p \in Threads, NEW l \in Calls,
         NEW t \in Spots \ (Calls \cup {"free"}), t \in WithIp => at[p].ip \in IPs
  PROVE  PlaceOK([Onward(p, l) EXCEPT !.then = t])
<1> DEFINE r == [Onward(p, l) EXCEPT !.then = t]
<1>1. at[p].ip \in IPs \cup {NoIp}
  BY DEF PlacesOK, Place
<1>2. l \in Spots /\ l \notin WithIp /\ l \notin WithoutIp
  BY DEF Calls, WithIp, WithoutIp, Spots
<1>3. r = [pc |-> l, ip |-> at[p].ip, then |-> t, todo |-> 0]
  BY <1>2 DEF Onward
<1> HIDE DEF r
<1>4. PlaceOK(r)
  BY <1>1, <1>2, <1>3, SpotsThens DEF PlaceOK, Place
<1>5. QED
  BY <1>4 DEF r

LEMMA InCall ==
  ASSUME PlacesOK, NEW p \in Threads, at[p].pc \in Calls
  PROVE  /\ at[p].then \in Spots \ (Calls \cup {"free"})
         /\ at[p].then \in WithIp => at[p].ip \in IPs
BY DEF PlacesOK, PlaceOK

(***************************************************************************)
(* One thread moves, and neither starts nor ends.                          *)
(***************************************************************************)
LEMMA ThreadMoves ==
  ASSUME PlacesOK, CountOK, NEW p \in Threads, NEW r, PlaceOK(r),
         at' = [at EXCEPT ![p] = r], at[p].pc # "free", r.pc # "free",
         UNCHANGED scan_thread_count
  PROVE  PlacesOK' /\ CountOK'
<1>1. r \in Place /\ at \in [Threads -> Place]
  BY DEF PlacesOK, PlaceOK
<1>2. \A q \in Threads : at'[q] = IF q = p THEN r ELSE at[q]
  BY <1>1
<1>3. at' \in [Threads -> Place] /\ \A q \in Threads : PlaceOK(at'[q])
  BY <1>1, <1>2 DEF PlacesOK
<1>4. \A w \in Scanners : at'[w].pc # "free" <=> at[w].pc # "free"
  BY <1>2 DEF Threads
<1>5. {w \in Scanners : at'[w].pc # "free"} = Alive
  BY <1>4 DEF Alive
<1>6. QED
  BY <1>3, <1>5 DEF PlacesOK, CountOK, Alive

LEMMA GoMoves ==
  ASSUME PlacesOK, CountOK, NEW p \in Threads, at[p].pc # "free",
         NEW l \in Spots \ (Calls \cup {"free"}), l \in WithIp => at[p].ip \in IPs,
         Go(p, l), UNCHANGED scan_thread_count
  PROVE  PlacesOK' /\ CountOK'
<1> DEFINE r == Onward(p, l)
<1>1. PlaceOK(r)
  BY OnwardOK
<1>2. r.pc # "free" /\ at' = [at EXCEPT ![p] = r]
  BY DEF Go, Onward
<1> HIDE DEF r
<1>3. QED
  BY <1>1, <1>2, ThreadMoves

LEMMA CallMoves ==
  ASSUME PlacesOK, CountOK, NEW p \in Threads, at[p].pc # "free", NEW l \in Calls,
         NEW t \in Spots \ (Calls \cup {"free"}), t \in WithIp => at[p].ip \in IPs,
         Call(p, l, t), UNCHANGED scan_thread_count
  PROVE  PlacesOK' /\ CountOK'
<1> DEFINE r == [Onward(p, l) EXCEPT !.then = t]
<1>1. PlaceOK(r)
  BY CallOK
<1>2. l # "free"
  BY DEF Calls
<1>3. r.pc # "free" /\ at' = [at EXCEPT ![p] = r]
  BY <1>2 DEF Call, Onward
<1> HIDE DEF r
<1>4. QED
  BY <1>1, <1>3, ThreadMoves

\* Within a call, to its next part.
LEMMA GoesOn ==
  ASSUME PlacesOK, CountOK, NEW p \in Threads, at[p].pc \in Calls, NEW l \in Calls,
         Go(p, l), UNCHANGED scan_thread_count
  PROVE  PlacesOK' /\ CountOK'
<1>1. at[p].pc # "free"
  BY DEF Calls
<1>2. Onward(p, l) = [Onward(p, l) EXCEPT !.then = at[p].then]
  BY DEF Onward
<1>3. Call(p, l, at[p].then)
  BY <1>2 DEF Go, Call
<1>4. QED
  BY <1>1, <1>3, InCall, CallMoves

LEMMA Returns ==
  ASSUME PlacesOK, CountOK, NEW p \in Threads, at[p].pc \in Calls,
         Return(p), UNCHANGED scan_thread_count
  PROVE  PlacesOK' /\ CountOK'
<1>1. at[p].pc # "free"
  BY DEF Calls
<1>2. QED
  BY <1>1, InCall, GoMoves DEF Return

LEMMA TakesIp ==
  ASSUME PlacesOK, CountOK, NEW p \in Threads, at[p].pc # "free", NEW l \in Spots \ (Calls \cup {"free"}),
         NEW ip \in IPs, GoWith(p, l, ip), UNCHANGED scan_thread_count
  PROVE  PlacesOK' /\ CountOK'
<1> DEFINE r == [Onward(p, l) EXCEPT !.ip = ip]
<1>1. PICK then : then = ""
  OBVIOUS
<1>2. r = [pc |-> l, ip |-> ip, then |-> then, todo |-> 0]
  <2>1. PICK old : old = IF l \in WithoutIp THEN NoIp ELSE at[p].ip
    OBVIOUS
  <2>2. Onward(p, l) = [pc |-> l, ip |-> old, then |-> then, todo |-> 0]
    <3>1. then = IF l \in Calls THEN at[p].then ELSE ""
      BY <1>1
    <3>2. QED
      BY <2>1, <3>1, Zenon DEF Onward
  <2>3. QED
    BY <2>2
<1>3. then \in Thens
  BY <1>1, NoThen
<1>4. at' = [at EXCEPT ![p] = r]
  BY DEF GoWith
<1> HIDE DEF r
<1>5. PlaceOK(r)
  BY <1>2, <1>3 DEF PlaceOK, Place
<1>6. r.pc # "free"
  BY <1>2
<1>7. QED
  BY <1>4, <1>5, <1>6, ThreadMoves

(***************************************************************************)
(* search_more_ip: the number of threads to start, and their start.        *)
(***************************************************************************)
ThreadNums == scan_ip_thread_num \in 0 .. MaxScanThreads

LEMMA CountType ==
  ASSUME CountOK
  PROVE  scan_thread_count \in 0 .. Cardinality(Scanners)
<1>1. IsFiniteSet(Scanners) /\ Alive \subseteq Scanners
  BY IpAssumption DEF Alive
<1>2. /\ IsFiniteSet(Alive) /\ Cardinality(Alive) <= Cardinality(Scanners)
      /\ Cardinality(Alive) \in Nat /\ Cardinality(Scanners) \in Nat
  BY <1>1, FS_Subset, FS_CardinalityType
<1>3. QED
  BY <1>2 DEF CountOK

LEMMA SearchCounts ==
  ASSUME PlacesOK, CountOK, ThreadNums, NEW p \in Threads, SearchMoreIp(p)
  PROVE  PlacesOK' /\ CountOK'
<1> DEFINE n == scan_ip_thread_num - scan_thread_count
           r == [at[p] EXCEPT !.pc = "start", !.todo = n]
<1>1. at[p].pc \in Calls /\ at[p].pc # "free" /\ "start" \in Calls /\ UNCHANGED scan_thread_count
  BY DEF SearchMoreIp, At, Calls, scanVars
<1>2. CASE Return(p)
  BY <1>1, <1>2, Returns
<1>3. CASE at' = [at EXCEPT ![p].pc = "start", ![p].todo = n]
  <2>1. at \in [Threads -> Place] /\ PlaceOK(at[p])
    BY DEF PlacesOK
  <2>2. scan_thread_count \in Nat /\ scan_ip_thread_num \in Nat /\ n \in Int
    BY CountType, IpAssumption, FS_CardinalityType DEF ThreadNums
  <2>3. "start" \in Spots /\ "start" \notin WithIp
    BY DEF Spots, Calls, WithIp
  <2>4. at' = [at EXCEPT ![p] = r]
    BY <1>3, <2>1
  <2>5. PlaceOK(r)
    BY <1>1, <2>1, <2>2, <2>3 DEF PlaceOK, Place
  <2>6. r.pc # "free"
    BY <2>1 DEF PlaceOK, Place
  <2> HIDE DEF r
  <2>7. QED
    BY <1>1, <2>4, <2>5, <2>6, ThreadMoves
<1>4. QED
  BY <1>2, <1>3 DEF SearchMoreIp

LEMMA StartCounts ==
  ASSUME PlacesOK, CountOK, NEW p \in Threads, StartScan(p)
  PROVE  PlacesOK' /\ CountOK'
<1> DEFINE r == IF at[p].todo > 1 THEN [at[p] EXCEPT !.todo = @ - 1]
                ELSE Onward(p, at[p].then)
           s == Rest("top")
<1>1. /\ at[p].pc = "start" /\ at[p].pc \in Calls
      /\ scan_thread_count' = scan_thread_count + 1
  BY DEF StartScan, At, Calls
<1>2. PICK w \in Scanners : /\ at[w].pc = "free"
                            /\ at' = [at EXCEPT ![w] = s, ![p] = r]
  BY DEF StartScan, At
<1>3. w # p /\ w \in Threads
  BY <1>1, <1>2 DEF Threads
<1>4. at \in [Threads -> Place] /\ PlaceOK(at[p]) /\ at[p].todo \in Int
  BY DEF PlacesOK, PlaceOK, Place
<1>5. PlaceOK(s) /\ s.pc # "free"
  <2>1. PICK then : then = ""
    OBVIOUS
  <2>2. s = [pc |-> "top", ip |-> NoIp, then |-> then, todo |-> 0]
    BY <2>1 DEF Rest
  <2>3. then \in Thens /\ "top" \in Spots /\ "top" \notin WithIp /\ "top" \notin Calls
    <3>1. then \in Thens
      BY <2>1, NoThen
    <3>2. QED
      BY <3>1 DEF Spots, WithoutIp, WithIp, Calls
  <2> HIDE DEF s
  <2>4. QED
    BY <2>2, <2>3 DEF PlaceOK, Place
<1>6. PlaceOK(r) /\ r.pc # "free"
  <2>1. CASE at[p].todo > 1
    <3>1. r = [at[p] EXCEPT !.todo = at[p].todo - 1]
      BY <1>4, <2>1
    <3> HIDE DEF r
    <3>2. r \in Place /\ r.pc = at[p].pc /\ r.ip = at[p].ip /\ r.then = at[p].then
      BY <1>4, <3>1 DEF PlaceOK, Place
    <3>3. QED
      BY <1>1, <1>4, <3>2 DEF PlaceOK
  <2>2. CASE ~(at[p].todo > 1)
    <3>1. r = Onward(p, at[p].then)
      BY <2>2
    <3>2. PlaceOK(Onward(p, at[p].then)) /\ Onward(p, at[p].then).pc # "free"
      <4>1. PlaceOK(Onward(p, at[p].then))
        BY <1>1, InCall, OnwardOK
      <4>2. Onward(p, at[p].then).pc = at[p].then
        BY DEF Onward
      <4>3. QED
        BY <1>1, <4>1, <4>2, InCall
    <3> HIDE DEF r
    <3>3. QED
      BY <3>1, <3>2
  <2>3. QED
    BY <2>1, <2>2
<1> HIDE DEF r, s
<1>7. \A q \in Threads : at'[q] = IF q = p THEN r ELSE IF q = w THEN s ELSE at[q]
  BY <1>2, <1>3, <1>4
<1>8. PlacesOK'
  <2>1. r \in Place /\ s \in Place
    BY <1>5, <1>6 DEF PlaceOK
  <2>2. at' \in [Threads -> Place]
    BY <1>2, <1>4, <2>1
  <2>3. QED
    BY <1>5, <1>6, <1>7, <2>2 DEF PlacesOK
<1>9. {v \in Scanners : at'[v].pc # "free"} = Alive \cup {w}
  BY <1>1, <1>2, <1>3, <1>5, <1>6, <1>7 DEF Alive, Threads
<1>10. w \notin Alive /\ IsFiniteSet(Alive)
  <2>1. IsFiniteSet(Scanners) /\ Alive \subseteq Scanners
    BY IpAssumption DEF Alive
  <2>2. QED
    BY <1>2, <2>1, FS_Subset DEF Alive
<1>11. Cardinality(Alive \cup {w}) = Cardinality(Alive) + 1
  BY <1>10, FS_AddElement
<1>12. QED
  BY <1>1, <1>8, <1>9, <1>11 DEF CountOK, Alive

LEMMA EndCounts ==
  ASSUME PlacesOK, CountOK, NEW w \in Scanners, ScanEnds(w)
  PROVE  PlacesOK' /\ CountOK'
<1> DEFINE r == Onward(w, "free")
<1>1. /\ at[w].pc = "leave" /\ w \in Threads
      /\ scan_thread_count' = scan_thread_count - 1
      /\ at' = [at EXCEPT ![w] = r]
  BY DEF ScanEnds, At, Go, Threads
<1>2. PlaceOK(r)
  <2>1. "free" \in Spots /\ "free" \notin Calls /\ "free" \notin WithIp
    BY DEF Spots, WithoutIp, Calls, WithIp
  <2>2. QED
    BY <1>1, <2>1, OnwardOK
<1>3. r.pc = "free"
  BY DEF Onward
<1> HIDE DEF r
<1>4. at \in [Threads -> Place] /\ \A q \in Threads : PlaceOK(at[q])
  BY DEF PlacesOK
<1>5. \A q \in Threads : at'[q] = IF q = w THEN r ELSE at[q]
  BY <1>1, <1>4
<1>6. PlacesOK'
  <2>1. at' \in [Threads -> Place]
    BY <1>1, <1>2, <1>4 DEF PlaceOK
  <2>2. QED
    BY <1>2, <1>4, <1>5, <2>1 DEF PlacesOK
<1>7. {v \in Scanners : at'[v].pc # "free"} = Alive \ {w}
  BY <1>3, <1>5 DEF Alive, Threads
<1>8. w \in Alive /\ IsFiniteSet(Alive)
  <2>1. IsFiniteSet(Scanners) /\ Alive \subseteq Scanners
    BY IpAssumption DEF Alive
  <2>2. QED
    BY <1>1, <2>1, FS_Subset DEF Alive
<1>9. Cardinality(Alive \ {w}) = Cardinality(Alive) - 1
  BY <1>8, FS_RemoveElement
<1>10. QED
  BY <1>1, <1>6, <1>7, <1>9 DEF CountOK, Alive

\* The network, files and links do not matter to where a thread goes on.
LEMMA FailMoves ==
  ASSUME PlacesOK, CountOK, NEW l \in Threads, at[l].pc # "free",
         NEW t \in Spots \ (Calls \cup {"free"}), t \in WithIp => at[l].ip \in IPs,
         ReportConnectFail(l, t)
  PROVE  PlacesOK' /\ CountOK'
<1>1. UNCHANGED scan_thread_count /\ (Go(l, t) \/ Call(l, "enough", t))
  BY DEF ReportConnectFail, scanVars
<1>2. "enough" \in Calls
  BY DEF Calls
<1>3. QED
  BY <1>1, <1>2, GoMoves, CallMoves

LEMMA ListStepMoves ==
  ASSUME PlacesOK, CountOK, ThreadNums, NEW p \in Threads, ListStep(p)
  PROVE  PlacesOK' /\ CountOK'
<1> USE DEF scanVars, At
<1>1. {"adjust", "search", "write"} \subseteq Calls
  BY DEF Calls
<1>2. CASE TrySortIp(p)
  BY <1>1, <1>2, GoesOn DEF TrySortIp, Calls
<1>3. CASE AdjustScanThreadNum(p)
  <2>1. at[p].pc \in Calls /\ UNCHANGED scan_thread_count /\ (Go(p, "search") \/ Return(p))
    BY <1>3 DEF AdjustScanThreadNum, Calls
  <2>2. QED
    BY <1>1, <2>1, GoesOn, Returns
<1>4. CASE SearchMoreIp(p)
  BY <1>4, SearchCounts
<1>5. CASE StartScan(p)
  BY <1>5, StartCounts
<1>6. CASE Rechecked(p)
  <2>1. /\ at[p].pc = "check" /\ UNCHANGED scan_thread_count
        /\ \E l \in {"take", "top", "add", "count", "remove"} : Go(p, l)
    BY <1>6 DEF Rechecked, Done
  <2>2. at[p].ip \in IPs /\ at[p].pc # "free"
    BY <2>1 DEF PlacesOK, PlaceOK, WithIp
  <2>3. {"take", "top", "add", "count", "remove"} \subseteq Spots \ (Calls \cup {"free"})
    BY DEF Spots, Calls, WithIp, WithoutIp
  <2>4. QED
    BY <2>1, <2>2, <2>3, GoMoves
<1>7. CASE RecheckRestores(p)
  <2>1. /\ at[p].pc = "add" /\ UNCHANGED scan_thread_count
        /\ \E l \in {"take", "top"} : Go(p, l)
    BY <1>7 DEF RecheckRestores, Done
  <2>2. {"take", "top"} \subseteq Spots \ (Calls \cup {"free"}) /\ {"take", "top"} \cap WithIp = {}
    BY DEF Spots, Calls, WithIp, WithoutIp
  <2>3. QED
    BY <2>1, <2>2, GoMoves
<1>8. CASE Save(p)
  <2>1. at[p].pc \in Calls /\ UNCHANGED scan_thread_count /\ (Go(p, "write") \/ Return(p))
    BY <1>8 DEF Save, Calls
  <2>2. QED
    BY <1>1, <2>1, GoesOn, Returns
<1>9. CASE WriteFile(p)
  BY <1>9, Returns DEF WriteFile, Calls
<1>10. QED
  BY <1>2, <1>3, <1>4, <1>5, <1>6, <1>7, <1>8, <1>9 DEF ListStep

LEMMA LinkStepMoves ==
  ASSUME PlacesOK, CountOK, NEW l \in Links, LinkStep(l)
  PROVE  PlacesOK' /\ CountOK'
<1> USE DEF scanVars, At
<1>1. l \in Threads /\ (at[l].pc \in WithIp => at[l].ip \in IPs)
  BY DEF Threads, PlacesOK, PlaceOK
<1>2. /\ {"sort", "search", "save"} \subseteq Calls
      /\ {"take", "open", "connecting", "check", "again"} \subseteq Spots \ (Calls \cup {"free"})
      /\ "take" \notin WithIp
  BY DEF Spots, Calls, WithIp, WithoutIp
<1>3. CASE ConnectSorts(l)
  BY <1>1, <1>2, <1>3, CallMoves DEF ConnectSorts
<1>4. CASE ConnectTakes(l)
  <2>1. PICK ip \in IPs : /\ TakeIp(l, ip) /\ UNCHANGED scanVars
                          /\ GoWith(l, "connecting", ip) \/ Go(l, "take")
    BY <1>4 DEF ConnectTakes
  <2>2. at[l].pc = "take" /\ UNCHANGED scan_thread_count
    BY <2>1 DEF TakeIp
  <2>3. CASE GoWith(l, "connecting", ip)
    BY <1>1, <1>2, <2>2, <2>3, TakesIp
  <2>4. CASE Go(l, "take")
    BY <1>1, <1>2, <2>2, <2>4, GoMoves
  <2>5. QED
    BY <2>1, <2>3, <2>4
<1>5. CASE UpdateIp(l)
  <2>1. /\ at[l].pc = "connecting" /\ UNCHANGED scan_thread_count
        /\ Go(l, "open") \/ Call(l, "save", "open")
    BY <1>5 DEF UpdateIp
  <2>2. at[l].ip \in IPs
    BY <1>1, <2>1 DEF WithIp
  <2>3. QED
    BY <1>1, <1>2, <2>1, <2>2, GoMoves, CallMoves
<1>6. CASE ConnectFails(l)
  BY <1>1, <1>2, <1>6, FailMoves DEF ConnectFails
<1>7. CASE ReportConnectClosed(l)
  BY <1>1, <1>2, <1>7, GoMoves DEF ReportConnectClosed
<1>8. CASE IsIpEnough(l)
  <2>1. at[l].pc \in Calls /\ UNCHANGED scan_thread_count /\ (Go(l, "search") \/ Return(l))
    BY <1>8 DEF IsIpEnough, Calls
  <2>2. QED
    BY <1>1, <1>2, <2>1, GoesOn, Returns
<1>9. CASE WorkerRechecks(l)
  <2>1. at[l].pc \in {"open", "again"} /\ at[l].pc # "free"
    BY <1>9 DEF WorkerRechecks
  <2>2. at[l].ip \in IPs
    BY <1>1, <2>1 DEF WithIp
  <2>3. \/ ReportConnectFail(l, "check")
        \/ Go(l, "take") /\ UNCHANGED scan_thread_count
    BY <1>9 DEF WorkerRechecks
  <2>4. QED
    BY <1>1, <1>2, <2>1, <2>2, <2>3, FailMoves, GoMoves
<1>10. CASE RecheckCounts(l)
  <2>1. /\ at[l].pc = "count" /\ UNCHANGED scan_thread_count
        /\ Go(l, "again") \/ Go(l, "take")
    BY <1>10 DEF RecheckCounts
  <2>2. at[l].ip \in IPs
    BY <1>1, <2>1 DEF WithIp
  <2>3. QED
    BY <1>1, <1>2, <2>1, <2>2, GoMoves
<1>11. QED
  BY <1>3, <1>4, <1>5, <1>6, <1>7, <1>8, <1>9, <1>10 DEF LinkStep

LEMMA ScanStepMoves ==
  ASSUME PlacesOK, CountOK, NEW w \in Scanners, ScanStep(w)
  PROVE  PlacesOK' /\ CountOK'
<1> USE DEF scanVars, At
<1>1. w \in Threads /\ (at[w].pc \in WithIp => at[w].ip \in IPs)
  BY DEF Threads, PlacesOK, PlaceOK
<1>2. /\ {"sort", "adjust", "save"} \subseteq Calls
      /\ {"take", "top", "scan", "leave", "check", "probe", "found", "slowest"}
           \subseteq Spots \ (Calls \cup {"free"})
      /\ {"take", "top", "scan", "leave", "found", "slowest"} \cap WithIp = {}
  BY DEF Spots, Calls, WithIp, WithoutIp
<1>3. CASE ScanLoop(w)
  <2>1. /\ at[w].pc = "top" /\ UNCHANGED scan_thread_count
        /\ \/ Go(w, "scan") \/ Call(w, "sort", "take") \/ Go(w, "take")
           \/ Call(w, "adjust", "scan") \/ Go(w, "leave")
    BY <1>3 DEF ScanLoop, GetIpSniHost
  <2>2. QED
    BY <1>1, <1>2, <2>1, GoMoves, CallMoves
<1>4. CASE ScanTakesNothing(w)
  BY <1>1, <1>2, <1>4, GoMoves DEF ScanTakesNothing
<1>5. CASE ScanEnds(w)
  BY <1>5, EndCounts
<1>6. CASE ScanRechecks(w)
  <2>1. PICK ip \in IPs : /\ at[w].pc = "take" /\ UNCHANGED scan_thread_count
                          /\ GoWith(w, "check", ip) \/ Go(w, "top") \/ Go(w, "scan")
    BY <1>6 DEF ScanRechecks, TakeIp
  <2>2. QED
    BY <1>1, <1>2, <2>1, TakesIp, GoMoves
<1>7. CASE RemoveIp(w)
  BY <1>1, <1>2, <1>7, GoMoves DEF RemoveIp
<1>8. CASE ScanIp(w)
  <2>1. /\ at[w].pc = "scan" /\ UNCHANGED scan_thread_count
        /\ Go(w, "top") \/ \E ip \in IPs : GoWith(w, "probe", ip)
    BY <1>8 DEF ScanIp
  <2>2. QED
    BY <1>1, <1>2, <2>1, TakesIp, GoMoves
<1>9. CASE ScanFails(w)
  BY <1>1, <1>2, <1>9, GoMoves DEF ScanFails
<1>10. CASE ScanFinds(w)
  <2>1. /\ at[w].pc = "probe" /\ UNCHANGED scan_thread_count
        /\ Go(w, "top") \/ Go(w, "found")
    BY <1>10 DEF ScanFinds
  <2>2. QED
    BY <1>1, <1>2, <2>1, GoMoves
<1>11. CASE ScanFound(w)
  <2>1. /\ at[w].pc = "found" /\ UNCHANGED scan_thread_count
        /\ Call(w, "sort", "slowest") \/ Call(w, "save", "top")
    BY <1>11 DEF ScanFound
  <2>2. QED
    BY <1>1, <1>2, <2>1, CallMoves
<1>12. CASE RemoveSlowestIp(w)
  BY <1>1, <1>2, <1>12, CallMoves DEF RemoveSlowestIp
<1>13. QED
  BY <1>3, <1>4, <1>5, <1>6, <1>7, <1>8, <1>9, <1>10, <1>11, <1>12 DEF ScanStep

LEMMA PlacesNext == PlacesOK /\ CountOK /\ ThreadNums /\ [Next]_vars => PlacesOK' /\ CountOK'
<1>1. SUFFICES ASSUME PlacesOK, CountOK, ThreadNums, [Next]_vars PROVE PlacesOK' /\ CountOK'
  OBVIOUS
<1>2. CASE UNCHANGED <<at, scan_thread_count>>
  BY <1>1, <1>2 DEF PlacesOK, CountOK, Alive
<1>3. CASE Stop
  BY <1>2, <1>3 DEF Stop
<1>4. CASE UNCHANGED vars
  BY <1>2, <1>4 DEF vars, scanVars
<1>5. QED
  BY <1>1, <1>3, <1>4, ListStepMoves, LinkStepMoves, ScanStepMoves DEF Next

-----------------------------------------------------------------------------
(***************************************************************************)
(* Types of the other fields.  An IP that is added comes from its thread.  *)
(***************************************************************************)
DictOK == /\ DOMAIN ip_dict \subseteq IPs
          /\ ip_dict = [ip \in DOMAIN ip_dict |-> ip_dict[ip]]

OthersOK ==
    /\ iplist_need_save \in BOOLEAN
    /\ ip_list_file \in SUBSET IPs /\ write_failed \in BOOLEAN
    /\ ThreadNums
    /\ running \in BOOLEAN
    /\ recheck \in [Scanners -> BOOLEAN]

LEMMA DictNext ==
  ASSUME DictOK, PlacesOK, [Next]_vars
  PROVE  DictOK'
<1>1. CASE UNCHANGED listVars
  BY <1>1 DEF listVars, DictOK
<1>2. ASSUME NEW p \in Threads, NEW known, AddIp(at[p].ip, known), at[p].pc \in {"add", "probe"}
      PROVE  DictOK'
  <2>1. at[p].ip \in IPs
    BY <1>2 DEF PlacesOK, PlaceOK, WithIp
  <2>2. \/ ip_dict' = ip_dict
        \/ ip_dict' = [x \in DOMAIN ip_dict \cup {at[p].ip} |-> IF x = at[p].ip THEN 0 ELSE ip_dict[x]]
    BY <1>2 DEF AddIp, listVars
  <2>3. QED
    BY <2>1, <2>2 DEF DictOK
<1>3. ASSUME NEW p \in Threads, TrySortIp(p) PROVE DictOK'
  BY <1>3 DEF TrySortIp, DictOK
<1>4. ASSUME NEW p \in Threads, RecheckRestores(p) PROVE DictOK'
  BY <1>2, <1>4 DEF RecheckRestores, At
<1>5. ASSUME NEW p, NEW ip, TakeIp(p, ip) PROVE DictOK'
  BY <1>5 DEF TakeIp, DictOK
<1>6. ASSUME NEW l, NEW t, ReportConnectFail(l, t) PROVE DictOK'
  BY <1>6 DEF ReportConnectFail, DictOK
<1>7. ASSUME NEW l \in Links, ConnectTakes(l) \/ ConnectFails(l) \/ WorkerRechecks(l)
      PROVE  DictOK'
  BY <1>1, <1>5, <1>6, <1>7 DEF ConnectTakes, ConnectFails, WorkerRechecks
<1>8. ASSUME NEW w \in Scanners, ScanRechecks(w) \/ RemoveIp(w) \/ RemoveSlowestIp(w)
      PROVE  DictOK'
  <2>1. CASE ScanRechecks(w)
    BY <1>5, <2>1 DEF ScanRechecks
  <2>2. CASE RemoveIp(w)
    BY <1>1, <2>2 DEF RemoveIp, Without, DictOK
  <2>3. CASE RemoveSlowestIp(w)
    BY <1>1, <2>3 DEF RemoveSlowestIp, Without, DictOK
  <2>4. QED
    BY <1>8, <2>1, <2>2, <2>3
<1>9. ASSUME NEW w \in Scanners, ScanFinds(w) PROVE DictOK'
  BY <1>2, <1>9 DEF ScanFinds, At, Threads
<1>10. CASE Next
  BY <1>1, <1>3, <1>4, <1>7, <1>8, <1>9, <1>10, ListSteps
<1>11. QED
  BY <1>1, <1>10 DEF vars

LEMMA OthersNext == OthersOK /\ DictOK /\ [Next]_vars => OthersOK'
<1>1. SUFFICES ASSUME OthersOK, DictOK, [Next]_vars PROVE OthersOK'
  OBVIOUS
<1> USE DEF saveVars, fileVars, scanVars, ThreadNums, OthersOK
<1>2. CASE UNCHANGED <<saveVars, scanVars, recheck>>
  BY <1>1, <1>2
<1>3. ASSUME UNCHANGED <<fileVars, scanVars, recheck>>, iplist_need_save' \in BOOLEAN PROVE OthersOK'
  BY <1>1, <1>3
<1>4. ASSUME UNCHANGED <<saveVars, scanVars>>, recheck' \in [Scanners -> BOOLEAN] PROVE OthersOK'
  BY <1>1, <1>4
<1>5. ASSUME NEW ip, NEW known, AddIp(ip, known), UNCHANGED <<scanVars, recheck>> PROVE OthersOK'
  BY <1>1, <1>3, <1>5 DEF AddIp
<1>6. ASSUME NEW l, NEW t, ReportConnectFail(l, t) PROVE OthersOK'
  BY <1>1, <1>3, <1>6 DEF ReportConnectFail
<1>7. ASSUME NEW p \in Threads, ListStep(p) PROVE OthersOK'
  <2>1. CASE TrySortIp(p) \/ SearchMoreIp(p) \/ Rechecked(p) \/ Save(p)
    BY <1>2, <2>1 DEF TrySortIp, SearchMoreIp, Rechecked, Save
  <2>2. CASE AdjustScanThreadNum(p)
    <3>1. MinScanThreads .. MaxScanThreads \subseteq 0 .. MaxScanThreads
      BY IpAssumption DEF MinScanThreads
    <3>2. scan_ip_thread_num' \in 0 .. MaxScanThreads
      BY <2>2, <3>1 DEF AdjustScanThreadNum
    <3>3. UNCHANGED <<saveVars, running, recheck>>
      BY <2>2 DEF AdjustScanThreadNum
    <3>4. QED
      BY <1>1, <3>2, <3>3
  <2>3. CASE StartScan(p)
    BY <1>1, <2>3 DEF StartScan
  <2>4. CASE RecheckRestores(p)
    BY <1>5, <2>4 DEF RecheckRestores
  <2>5. CASE WriteFile(p)
    BY <1>1, <2>5 DEF WriteFile, DictOK
  <2>6. QED
    BY <1>7, <2>1, <2>2, <2>3, <2>4, <2>5 DEF ListStep
<1>8. ASSUME NEW l \in Links, LinkStep(l) PROVE OthersOK'
  <2>1. CASE ConnectSorts(l) \/ ConnectTakes(l) \/ ReportConnectClosed(l) \/ IsIpEnough(l) \/ RecheckCounts(l)
    BY <1>2, <2>1 DEF ConnectSorts, ConnectTakes, TakeIp, ReportConnectClosed, IsIpEnough, RecheckCounts
  <2>2. CASE UpdateIp(l)
    <3>1. iplist_need_save' \in BOOLEAN
      <4>1. \/ iplist_need_save' = iplist_need_save
            \/ iplist_need_save' = (iplist_need_save \/ at[l].ip \in DOMAIN ip_dict)
        BY <2>2 DEF UpdateIp
      <4>2. QED
        BY <1>1, <4>1, Zenon
    <3>2. UNCHANGED <<fileVars, scanVars, recheck>>
      BY <2>2 DEF UpdateIp
    <3>3. QED
      BY <1>3, <3>1, <3>2
  <2>3. CASE ConnectFails(l)
    BY <1>6, <2>3 DEF ConnectFails
  <2>4. CASE WorkerRechecks(l)
    BY <1>2, <1>6, <2>4 DEF WorkerRechecks
  <2>5. QED
    BY <1>8, <2>1, <2>2, <2>3, <2>4 DEF LinkStep
<1>9. ASSUME NEW w \in Scanners, ScanStep(w) PROVE OthersOK'
  <2>1. CASE ScanTakesNothing(w) \/ ScanRechecks(w) \/ ScanIp(w) \/ ScanFound(w) \/ RemoveSlowestIp(w)
    BY <1>2, <2>1 DEF ScanTakesNothing, ScanRechecks, TakeIp, ScanIp, ScanFound, RemoveSlowestIp
  <2>2. CASE ScanLoop(w)
    BY <1>1, <1>4, <2>2 DEF ScanLoop
  <2>3. CASE ScanEnds(w)
    BY <1>1, <2>3 DEF ScanEnds
  <2>4. CASE RemoveIp(w)
    BY <1>3, <2>4 DEF RemoveIp
  <2>5. CASE ScanFails(w)
    BY <1>1, <1>4, <2>5 DEF ScanFails
  <2>6. CASE ScanFinds(w)
    BY <1>5, <2>6 DEF ScanFinds
  <2>7. QED
    BY <1>9, <2>1, <2>2, <2>3, <2>4, <2>5, <2>6 DEF ScanStep
<1>10. CASE Stop
  BY <1>1, <1>10 DEF Stop
<1>11. QED
  BY <1>1, <1>2, <1>7, <1>8, <1>9, <1>10 DEF Next, vars

(***************************************************************************)
(* Init gives the scan threads that it counts a place in their loop.       *)
(***************************************************************************)
LEMMA PlacesInit == Init => PlacesOK /\ CountOK
<1>1. SUFFICES ASSUME Init PROVE PlacesOK /\ CountOK
  OBVIOUS
<1>2. PICK S \in SUBSET Scanners :
        /\ Cardinality(S) = MaxScanThreads
        /\ at = [p \in Threads |-> Rest(IF p \in Links THEN "take" ELSE IF p \in S THEN "top" ELSE "free")]
  BY <1>1 DEF Init
<1>3. PICK nothing : nothing = ""
  OBVIOUS
<1>4. \A p \in Threads : at[p] = Rest(IF p \in Links THEN "take" ELSE IF p \in S THEN "top" ELSE "free")
  BY <1>2
<1>5. \A l : Rest(l) = [pc |-> l, ip |-> NoIp, then |-> nothing, todo |-> 0]
  BY <1>3 DEF Rest
<1>6. \A l \in {"take", "top", "free"} : PlaceOK(Rest(l))
  <2>1. /\ {"take", "top", "free"} \subseteq Spots
        /\ {"take", "top", "free"} \cap (WithIp \cup Calls) = {}
    BY DEF Spots, WithoutIp, WithIp, Calls
  <2>2. nothing \in Thens
    BY <1>3, NoThen
  <2>3. QED
    BY <1>5, <2>1, <2>2 DEF PlaceOK, Place
<1>7. \A p \in Threads : PlaceOK(at[p])
  BY <1>4, <1>6
<1>8. PlacesOK
  <2>1. \A p \in Threads : at[p] \in Place
    BY <1>7 DEF PlaceOK
  <2>2. at \in [Threads -> Place]
    BY <1>2, <2>1
  <2>3. QED
    BY <1>7, <2>2 DEF PlacesOK
<1>9. Alive = S
  <2>1. \A w \in Scanners : at[w].pc = IF w \in S THEN "top" ELSE "free"
    BY <1>4, <1>5, IpAssumption DEF Threads
  <2>2. QED
    BY <2>1 DEF Alive
<1>10. QED
  BY <1>1, <1>2, <1>8, <1>9 DEF Init, CountOK

LEMMA FieldsInit == Init => DictOK /\ OthersOK
<1>1. SUFFICES ASSUME Init PROVE DictOK /\ OthersOK
  OBVIOUS
<1>2. MaxScanThreads \in Nat
  BY IpAssumption, FS_CardinalityType
<1>3. DictOK
  BY <1>1 DEF Init, DictOK
<1>4. iplist_need_save \in BOOLEAN
  BY <1>1, Zenon DEF Init
<1>5. /\ ip_list_file \in SUBSET IPs /\ write_failed = FALSE /\ running = TRUE
      /\ scan_ip_thread_num = MaxScanThreads /\ recheck = [w \in Scanners |-> FALSE]
  BY <1>1 DEF Init
<1>6. ThreadNums
  BY <1>2, <1>5 DEF ThreadNums
<1>7. recheck \in [Scanners -> BOOLEAN]
  BY <1>5
<1>8. write_failed \in BOOLEAN /\ running \in BOOLEAN
  BY <1>5
<1>9. QED
  BY <1>3, <1>4, <1>5, <1>6, <1>7, <1>8, Zenon DEF OthersOK

(***************************************************************************)
(* Types of the manager's fields, among them that neither the number of    *)
(* links of an IP, which may be reported more often than the IP was given  *)
(* out, nor the number of scan threads, which are counted where they are   *)
(* started and where they end, ever falls below zero, and that there are   *)
(* never more scan threads than the bound.                                 *)
(***************************************************************************)
THEOREM IpTypes == Spec => []TypeOK
<1> DEFINE Inv == ListInv /\ LinkInv /\ PlacesOK /\ CountOK /\ DictOK /\ OthersOK
<1>1. Init => Inv
  <2>1. Init => LinkInv
    BY IpAssumption DEF Init, LinkInv
  <2>2. QED
    BY <2>1, ListInit, PlacesInit, FieldsInit
<1>2. Inv /\ [Next]_vars => Inv'
  <2>1. OthersOK => ThreadNums
    BY DEF OthersOK
  <2>2. QED
    BY <2>1, ListNext, LinkNext, PlacesNext, DictNext, OthersNext
<1>3. Inv => TypeOK
  <2>1. SUFFICES ASSUME Inv PROVE TypeOK
    OBVIOUS
  <2>2. scan_thread_count \in 0 .. Cardinality(Scanners)
    BY <2>1, CountType
  <2>3. ip_list \in Seq(IPs)
    <3>1. ip_list \in Seq(DOMAIN ip_dict) /\ DOMAIN ip_dict \subseteq IPs
      BY <2>1 DEF ListInv, Lists, DictOK
    <3>2. QED
      BY <3>1
  <2>4. ip_dict \in [DOMAIN ip_dict -> Nat]
    <3>1. \A ip \in DOMAIN ip_dict : ip_dict[ip] \in Nat
      BY <2>1, IpAssumption DEF LinkInv
    <3>2. QED
      BY <2>1, <3>1 DEF DictOK
  <2>5. QED
    BY <2>1, <2>2, <2>3, <2>4 DEF DictOK, OthersOK, ThreadNums, TypeOK
<1> HIDE DEF Inv
<1>4. QED
  BY <1>1, <1>2, <1>3, PTL DEF Spec
=============================================================================
