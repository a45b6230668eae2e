----------------------------- MODULE IpManager -----------------------------
(***************************************************************************)
(* The IPs a front can connect to: IpManager of front_base, as the         *)
(* cloudfront front uses it.  Connect threads take an IP, connect and      *)
(* report; HTTP/1 workers have the IP of a failing connection checked      *)
(* again; scan threads look for more IPs, drop the slowest and save the    *)
(* list.                                                                   *)
(*                                                                         *)
(* All of them are threads.  A step is what happens under ip_lock or       *)
(* scan_thread_lock, or between two reads of shared state outside a lock.  *)
(* Times and failures, and with them the rate an IP is sorted by and the   *)
(* intervals in which it is not used again, may have any value; so may     *)
(* good_ip_num, which only weighs how many threads should scan, and what   *)
(* check_local_network says of the network.  All IPs are IPv4, and their   *)
(* server is "gws", without which they would not be in the list.           *)
(***************************************************************************)
EXTENDS Naturals, Sequences, FiniteSets

CONSTANTS
    IPs,            \* the IPs of the front's ranges
    NoIp,
    Links,          \* connect threads; each stands for the connection it opens, too
    Scanners,       \* bound: scan threads alive at a time
    MaxLinksPerIp,  \* max_links_per_ip
    MaxGoodIpNum,   \* max_good_ip_num
    MaxScanThreads  \* max_scan_ip_thread_num

ASSUME IpAssumption ==
    /\ IsFiniteSet(IPs) /\ NoIp \notin IPs
    /\ IsFiniteSet(Scanners) /\ Links \cap Scanners = {}
    /\ MaxLinksPerIp \in Nat \ {0} /\ MaxGoodIpNum \in Nat \ {0}
    /\ MaxScanThreads \in 0 .. Cardinality(Scanners)

VARIABLES
    ip_dict,             \* IP -> its links
    ip_list,             \* the same IPs, the best first
    iplist_need_save,
    ip_list_file,        \* the IPs in the file ip_list_fn
    write_failed,        \* history: the last write of the file failed
    scan_ip_thread_num,  \* how many threads should scan
    scan_thread_count,   \* how many do
    running,
    at,                  \* where each thread is, with which IP, where it goes on
    recheck              \* the scan threads' recheck_ip

listVars == <<ip_dict, ip_list>>
fileVars == <<ip_list_file, write_failed>>
saveVars == <<iplist_need_save, fileVars>>
scanVars == <<scan_ip_thread_num, scan_thread_count, running>>
vars == <<listVars, saveVars, scanVars, at, recheck>>

Threads == Links \cup Scanners

-----------------------------------------------------------------------------
(* Threads *)

At(p, l) == at[p].pc = l

Rest(l) == [pc |-> l, ip |-> NoIp, then |-> "", todo |-> 0]

\* Where a thread has not got an IP, and where it has to return from a call.
WithoutIp == {"free", "top", "take", "scan", "found"}
Calls == {"sort", "adjust", "search", "start", "enough", "save", "write"}

\* The thread's place when it goes on at l.
Onward(p, l) ==
    [pc   |-> l,
     ip   |-> IF l \in WithoutIp THEN NoIp ELSE at[p].ip,
     then |-> IF l \in Calls THEN at[p].then ELSE "",
     todo |-> 0]

Go(p, l) == at' = [at EXCEPT ![p] = Onward(p, l)]

\* Call what begins at l, and go on at t when it returns.
Call(p, l, t) == at' = [at EXCEPT ![p] = [Onward(p, l) EXCEPT !.then = t]]

Return(p) == Go(p, at[p].then)

GoWith(p, l, ip) == at' = [at EXCEPT ![p] = [Onward(p, l) EXCEPT !.ip = ip]]

-----------------------------------------------------------------------------
(* The list *)

Listed == {ip_list[i] : i \in DOMAIN ip_list}

\* The ways to put a set of IPs in order.
Orders(S) == {s \in [1 .. Cardinality(S) -> S] :
                 /\ \A x \in S : \E i \in DOMAIN s : s[i] = x
                 /\ \A i, j \in DOMAIN s : s[i] = s[j] => i = j}

Without(f, S) == [x \in DOMAIN f \ S |-> f[x]]

\* Mutant: the IP stays in the list.
ListKept(ip) == ip_list

\* list.remove: the first entry that is ip.
ListWithout(ip) ==
    LET k == CHOOSE i \in DOMAIN ip_list :
                 ip_list[i] = ip /\ \A j \in 1 .. i - 1 : ip_list[j] # ip
    IN  IF ip \in Listed
        THEN [i \in 1 .. Len(ip_list) - 1 |-> IF i < k THEN ip_list[i] ELSE ip_list[i + 1]]
        ELSE ip_list

TrySortIp(p) ==
    /\ At(p, "sort")
    /\ ip_list' \in Orders(DOMAIN ip_dict)
    /\ Go(p, "adjust")
    /\ UNCHANGED <<ip_dict, saveVars, scanVars, recheck>>

MinScanThreads == IF MaxScanThreads > 0 THEN 1 ELSE 0

\* The number of threads that should scan depends on the list's length and on
\* the rate of one of its last IPs.
AdjustScanThreadNum(p) ==
    /\ At(p, "adjust")
    /\ \E n \in MinScanThreads .. MaxScanThreads :
          /\ scan_ip_thread_num' = n
          /\ IF n # scan_ip_thread_num THEN Go(p, "search") ELSE Return(p)
    /\ UNCHANGED <<listVars, saveVars, scan_thread_count, running, recheck>>

\* search_more_ip compares the numbers without a lock ...
SearchMoreIp(p) ==
    /\ At(p, "search")
    /\ IF scan_ip_thread_num > scan_thread_count
       THEN at' = [at EXCEPT ![p].pc = "start",
                             ![p].todo = scan_ip_thread_num - scan_thread_count]
       ELSE Return(p)
    /\ UNCHANGED <<listVars, saveVars, scanVars, recheck>>

\* ... and starts the missing threads one by one.
StartScan(p) ==
    /\ At(p, "start")
    /\ scan_thread_count' = scan_thread_count + 1
    /\ \E w \in {w \in Scanners : At(w, "free")} :
          at' = [at EXCEPT ![w] = Rest("top"),
                           ![p] = IF at[p].todo > 1 THEN [at[p] EXCEPT !.todo = @ - 1]
                                  ELSE Onward(p, at[p].then)]
    /\ UNCHANGED <<listVars, saveVars, scan_ip_thread_num, running, recheck>>

-----------------------------------------------------------------------------
(* get_ip_sni_host: sort at most every ten seconds, then take an IP.  A thread *)
(* of ConnectManager tries again when no IP may be used at this time.          *)

GetIpSniHost(p) == Call(p, "sort", "take") \/ Go(p, "take")

ConnectSorts(l) ==
    /\ At(l, "take")
    /\ Call(l, "sort", "take")
    /\ UNCHANGED <<listVars, saveVars, scanVars, recheck>>

MayTake(ip) == ip_dict[ip] < MaxLinksPerIp

TakeIp(p, ip) ==
    /\ At(p, "take")
    /\ ip \in Listed /\ MayTake(ip)
    /\ ip_dict' = [ip_dict EXCEPT ![ip] = @ + 1]
    /\ UNCHANGED <<ip_list, saveVars, scanVars, recheck>>

-----------------------------------------------------------------------------
(* Reports *)

\* Mutant: a new IP does not ask for a save.
AddIpUnsaved(ip, known) ==
    /\ known = (ip \in DOMAIN ip_dict)
    /\ IF known
       THEN UNCHANGED listVars
       ELSE /\ ip_dict' = [x \in DOMAIN ip_dict \cup {ip} |->
                              IF x = ip THEN 0 ELSE ip_dict[x]]
            /\ ip_list' = Append(ip_list, ip)
    /\ UNCHANGED saveVars

\* add_ip; known says whether the IP was there already.
AddIp(ip, known) ==
    /\ known = (ip \in DOMAIN ip_dict)
    /\ IF known
       THEN UNCHANGED <<listVars, iplist_need_save>>
       ELSE /\ ip_dict' = [x \in DOMAIN ip_dict \cup {ip} |->
                              IF x = ip THEN 0 ELSE ip_dict[x]]
            /\ ip_list' = Append(ip_list, ip)
            /\ iplist_need_save' = TRUE
    /\ UNCHANGED fileVars

\* update_ip after a handshake; one of less than 5 ms is taken for a mistake.
UpdateIp(l) ==
    /\ At(l, "connecting")
    /\ \/ Go(l, "open") /\ UNCHANGED iplist_need_save
       \/ /\ Call(l, "save", "open")
          /\ iplist_need_save' = (iplist_need_save \/ at[l].ip \in DOMAIN ip_dict)
    /\ UNCHANGED <<listVars, fileVars, scanVars, recheck>>

\* Mutant: the link is taken off without a look at how many there are.
LinkAlwaysDropped(n) == n - 1

LinkDropped(n) == IF n > 0 THEN n - 1 ELSE n

\* report_connect_fail, then on at t: the failure counts when the network works
\* and the last one is not too near; with too few IPs it looks for more.
ReportConnectFail(l, t) ==
    /\ iplist_need_save' = TRUE
    /\ IF at[l].ip \in DOMAIN ip_dict
       THEN /\ ip_dict' = [ip_dict EXCEPT ![at[l].ip] = LinkDropped(@)]
            /\ Go(l, t) \/ Call(l, "enough", t)
       ELSE UNCHANGED ip_dict /\ Go(l, t)
    /\ UNCHANGED <<ip_list, fileVars, scanVars, recheck>>

IsIpEnough(l) ==
    /\ At(l, "enough")
    /\ IF Len(ip_list) >= MaxGoodIpNum THEN Return(l) ELSE Go(l, "search")
    /\ UNCHANGED <<listVars, saveVars, scanVars, recheck>>

\* report_connect_fail with force_remove.
RemoveIp(w) ==
    /\ At(w, "remove")
    /\ iplist_need_save' = TRUE
    /\ IF at[w].ip \in DOMAIN ip_dict
       THEN /\ ip_dict' = Without(ip_dict, {at[w].ip})
            /\ ip_list' = ListWithout(at[w].ip)
       ELSE UNCHANGED listVars
    /\ Go(w, "top")
    /\ UNCHANGED <<fileVars, scanVars, recheck>>

\* save outside the lock: nothing to save, or saved within ten seconds ...
Save(p) ==
    /\ At(p, "save")
    /\ \/ iplist_need_save /\ Go(p, "write")
       \/ Return(p)
    /\ UNCHANGED <<listVars, saveVars, scanVars, recheck>>

\* ... and under it; what a failed write leaves in the file is lost.
WriteFile(p) ==
    /\ At(p, "write")
    /\ write_failed' \in BOOLEAN
    /\ IF write_failed'
       THEN ip_list_file' = {} /\ UNCHANGED iplist_need_save
       ELSE ip_list_file' = DOMAIN ip_dict /\ iplist_need_save' = FALSE
    /\ Return(p)
    /\ UNCHANGED <<listVars, scanVars, recheck>>

-----------------------------------------------------------------------------
(* Connections *)

\* The link stays counted when no name is found for the IP.
ConnectTakes(l) ==
    \E ip \in IPs :
        /\ TakeIp(l, ip)
        /\ GoWith(l, "connecting", ip) \/ Go(l, "take")
        /\ UNCHANGED <<ip_list, saveVars, scanVars, recheck>>

ConnectFails(l) == At(l, "connecting") /\ ReportConnectFail(l, "take")

\* The connection is closed, and report_connect_closed notes the time or a
\* failed download.
ReportConnectClosed(l) ==
    /\ At(l, "open")
    /\ Go(l, "take")
    /\ UNCHANGED <<listVars, saveVars, scanVars, recheck>>

-----------------------------------------------------------------------------
(* recheck_ip, by an HTTP/1 worker whose request or ping failed and by a scan  *)
(* thread; without a network it does nothing.                                  *)

Done(p) == IF p \in Links THEN "take" ELSE "top"

\* A worker reports a failure first.  It closes the connection afterwards.
WorkerRechecks(l) ==
    /\ at[l].pc \in {"open", "again"}
    /\ \/ ReportConnectFail(l, "check")
       \/ Go(l, "take") /\ UNCHANGED <<listVars, saveVars, scanVars, recheck>>

\* A scan thread has taken one of the IPs; that counts as a link, too.
ScanRechecks(w) ==
    \E ip \in IPs :
        /\ TakeIp(w, ip)
        /\ \/ GoWith(w, "check", ip)
           \/ Go(w, "top") \/ Go(w, "scan")
        /\ UNCHANGED <<ip_list, saveVars, scanVars, recheck>>

\* The check of the IP has ended; another thread may have removed the IP.
Rechecked(p) ==
    /\ At(p, "check")
    /\ IF at[p].ip \notin DOMAIN ip_dict THEN Go(p, Done(p))
       ELSE \/ Go(p, "add")
            \/ Go(p, IF p \in Links THEN "count" ELSE "remove")
    /\ UNCHANGED <<listVars, saveVars, scanVars, recheck>>

\* After some failures a worker checks again.  When the IP has been removed since
\* it looked, its thread ends with a KeyError, and others close the connection.
RecheckCounts(l) ==
    /\ At(l, "count")
    /\ \/ at[l].ip \in DOMAIN ip_dict /\ Go(l, "again")
       \/ Go(l, "take")
    /\ UNCHANGED <<listVars, saveVars, scanVars, recheck>>

RecheckRestores(p) ==
    /\ At(p, "add")
    /\ \E known \in BOOLEAN : AddIp(at[p].ip, known)
    /\ Go(p, Done(p))
    /\ UNCHANGED <<scanVars, recheck>>

-----------------------------------------------------------------------------
(* scan_ip_worker *)

\* With too many threads, or after stop, the thread ends.  With nearly enough
\* good IPs it may check one of them, or adjust the number of threads, before it
\* looks for more.
ScanLoop(w) ==
    /\ At(w, "top")
    /\ recheck' = [recheck EXCEPT ![w] = FALSE]
    /\ LET Idle == recheck[w] \/ (scan_ip_thread_num = 1 /\ MaxScanThreads > 1)
       IN  IF scan_thread_count <= scan_ip_thread_num /\ running
           THEN \/ Go(w, "scan")
                \/ Idle /\ (GetIpSniHost(w) \/ Call(w, "adjust", "scan"))
           ELSE Go(w, "leave")
    /\ UNCHANGED <<listVars, saveVars, scanVars>>

\* To a scan thread no IP is an exception, after which it scans.
ScanTakesNothing(w) ==
    /\ At(w, "take")
    /\ Go(w, "scan")
    /\ UNCHANGED <<listVars, saveVars, scanVars, recheck>>

ScanEnds(w) ==
    /\ At(w, "leave")
    /\ scan_thread_count' = scan_thread_count - 1
    /\ Go(w, "free")
    /\ UNCHANGED <<listVars, saveVars, scan_ip_thread_num, running, recheck>>

\* An IP that is not in ip_dict yet is checked, with or without a network.
ScanIp(w) ==
    /\ At(w, "scan")
    /\ \/ Go(w, "top")
       \/ \E ip \in IPs \ DOMAIN ip_dict : GoWith(w, "probe", ip)
    /\ UNCHANGED <<listVars, saveVars, scanVars, recheck>>

\* It does not answer; after many failures the network is suspected.
ScanFails(w) ==
    /\ At(w, "probe")
    /\ Go(w, "top")
    /\ \E suspected \in BOOLEAN : recheck' = [recheck EXCEPT ![w] = suspected]
    /\ UNCHANGED <<listVars, saveVars, scanVars>>

ScanFinds(w) ==
    /\ At(w, "probe")
    /\ \E known \in BOOLEAN :
          /\ AddIp(at[w].ip, known)
          /\ Go(w, IF known THEN "top" ELSE "found")
    /\ UNCHANGED <<scanVars, recheck>>

\* remove_slowest_ip looks at the length, sorts, and looks again under the lock.
ScanFound(w) ==
    /\ At(w, "found")
    /\ IF Len(ip_list) > MaxGoodIpNum THEN Call(w, "sort", "slowest")
       ELSE Call(w, "save", "top")
    /\ UNCHANGED <<listVars, saveVars, scanVars, recheck>>

RemoveSlowestIp(w) ==
    /\ At(w, "slowest")
    /\ IF Len(ip_list) > MaxGoodIpNum
       THEN /\ ip_list' = SubSeq(ip_list, 1, MaxGoodIpNum)
            /\ ip_dict' = Without(ip_dict, {ip_list[i] : i \in MaxGoodIpNum + 1 .. Len(ip_list)})
       ELSE UNCHANGED listVars
    /\ Call(w, "save", "top")
    /\ UNCHANGED <<saveVars, scanVars, recheck>>

Stop ==
    /\ running /\ running' = FALSE
    /\ UNCHANGED <<listVars, saveVars, scan_ip_thread_num, scan_thread_count, at, recheck>>

-----------------------------------------------------------------------------

\* reset has loaded a list, from the file of an earlier run or the one that comes
\* with the program, and search_more_ip has started the scan threads.
Init ==
    /\ ip_list_file \in SUBSET IPs /\ write_failed = FALSE
    /\ \E S \in SUBSET IPs :
          /\ ip_list_file # {} => S = ip_list_file
          /\ ip_dict = [ip \in S |-> 0]
    /\ ip_list \in Orders(DOMAIN ip_dict)
    /\ iplist_need_save = (DOMAIN ip_dict # {})
    /\ scan_ip_thread_num = MaxScanThreads /\ scan_thread_count = MaxScanThreads
    /\ running = TRUE
    /\ \E S \in SUBSET Scanners :
          /\ Cardinality(S) = MaxScanThreads
          /\ at = [p \in Threads |-> Rest(IF p \in Links THEN "take"
                                          ELSE IF p \in S THEN "top" ELSE "free")]
    /\ recheck = [w \in Scanners |-> FALSE]

ListStep(p) ==
    \/ TrySortIp(p) \/ AdjustScanThreadNum(p) \/ SearchMoreIp(p) \/ StartScan(p)
    \/ Rechecked(p) \/ RecheckRestores(p) \/ Save(p) \/ WriteFile(p)

LinkStep(l) ==
    \/ ConnectSorts(l) \/ ConnectTakes(l) \/ UpdateIp(l) \/ ConnectFails(l) \/ ReportConnectClosed(l)
    \/ IsIpEnough(l) \/ WorkerRechecks(l) \/ RecheckCounts(l)

ScanStep(w) ==
    \/ ScanLoop(w) \/ ScanTakesNothing(w) \/ ScanEnds(w) \/ ScanRechecks(w) \/ RemoveIp(w) \/ ScanIp(w)
    \/ ScanFails(w) \/ ScanFinds(w) \/ ScanFound(w) \/ RemoveSlowestIp(w)

Next ==
    \/ \E p \in Threads : ListStep(p)
    \/ \E l \in Links : LinkStep(l)
    \/ \E w \in Scanners : ScanStep(w)
    \/ Stop

Spec == Init /\ [][Next]_vars

-----------------------------------------------------------------------------

\* Types.  The numbers of links and threads never fall below zero.
TypeOK ==
    /\ DOMAIN ip_dict \subseteq IPs
    /\ ip_dict \in [DOMAIN ip_dict -> Nat]
    /\ ip_list \in Seq(IPs)
    /\ iplist_need_save \in BOOLEAN
    /\ ip_list_file \in SUBSET IPs /\ write_failed \in BOOLEAN
    /\ scan_ip_thread_num \in 0 .. MaxScanThreads
    /\ scan_thread_count \in 0 .. Cardinality(Scanners)
    /\ running \in BOOLEAN
    /\ recheck \in [Scanners -> BOOLEAN]

\* get_ip_sni_host looks every IP of ip_list up in ip_dict: whatever is added,
\* removed, sorted and trimmed meanwhile, the list has the IPs of the dictionary,
\* each once.
ListMatchesDict ==
    /\ Listed = DOMAIN ip_dict
    /\ \A i, j \in DOMAIN ip_list : ip_list[i] = ip_list[j] => i = j

\* Threads add IPs while others save: unless a save is still asked for, every IP
\* there is has been written to the file, if the last write did not fail.
SavedCovers == iplist_need_save \/ write_failed \/ DOMAIN ip_dict \subseteq ip_list_file

=============================================================================
