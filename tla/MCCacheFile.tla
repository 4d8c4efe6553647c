---------------------------- MODULE MCCacheFile -----------------------------
(* Two addresses as the Docker network hands them out, with MAC addresses to *)
(* learn for them: 172.17.0.3 and 172.17.0.12 are addresses 3 and 12, in the *)
(* order of std::map, and 20, after both, stands for 255.255.255.255.        *)
EXTENDS CacheFile, TLC

CONSTANTS m1, m2

MCKeyLen == [k \in Keys |-> IF k = JunkIp THEN 15 ELSE IF k < 10 THEN 10 ELSE 11]
MCBindings == Ips \X Macs

=============================================================================
