---------------------------- MODULE MCIpManager ----------------------------
(* Two IPs, one of them enough; one connect thread, two scan threads.      *)
EXTENDS IpManager, TLC

Sym == Permutations(IPs) \cup Permutations(Scanners)

\* What the file holds counts only when no save is asked for: the next save
\* replaces it in any case.
View == <<listVars, iplist_need_save, IF iplist_need_save THEN <<>> ELSE fileVars,
          scanVars, at, recheck>>
=============================================================================
