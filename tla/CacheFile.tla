----------------------------- MODULE CacheFile ------------------------------
(***************************************************************************)
(* The text of the file behind g_arp_cache (serializable_map.h, and        *)
(* MaybeLoadArpCache and SerializeArpCache of arp.cc), shared by the       *)
(* processes of one host.  Nothing locks it: a save is an open, which      *)
(* truncates, and a write at offset 0, and other processes may act in      *)
(* between.                                                                *)
(*                                                                         *)
(* The text is a sequence of cells.  A cell is a delimiter or the n-th     *)
(* character of some address; the lengths of the addresses are what makes  *)
(* the overlay of two texts line up or not.                                *)
(***************************************************************************)
EXTENDS Naturals, Sequences, FiniteSets

CONSTANTS
  Procs,
  Ips,             \* a set of numbers: IpAddr::operator< compares numbers
  Macs,
  KeyLen,          \* [Keys -> length of the dotted quad]
  MacLen,          \* length of a MAC address in text: 17
  Bindings,        \* pairs <<ip, mac>> that processes learn
  NoMac,
  JunkIp, JunkMac, \* any address that FromString made of something else;
                   \* all such are taken as one, the last in the map's order
  DiskFull         \* BOOLEAN: a write may stop short

Keys == Ips \cup {JunkIp}

ASSUME CacheFileAssumption ==
  /\ Keys \subseteq Nat /\ \A ip \in Ips : ip < JunkIp
  /\ KeyLen \in [Keys -> Nat \ {0}] /\ MacLen \in Nat \ {0}
  /\ Bindings \subseteq Ips \X Macs
  /\ NoMac \notin Macs /\ JunkMac \notin Macs /\ NoMac # JunkMac

VARIABLES
  text,    \* Seq(Cell): the file
  pc,      \* [Procs -> {"off", "run", "write", "abort"}]
  map,     \* [Procs -> Map]: g_arp_cache
  saved,   \* history: the pairs any process has put in its cache
  short    \* history: a write has stopped short "never", "once", or "now" was
           \* the last to write the file

vars == <<text, pc, map, saved, short>>

Map == [Keys -> Macs \cup {JunkMac, NoMac}]

EmptyMap == [k \in Keys |-> NoMac]

-----------------------------------------------------------------------------
(* serializable_map *)

Comma == <<",">>
Space == <<" ">>
Newline == <<"nl">>

IpText(ip) == [n \in 1..KeyLen[ip] |-> <<"ip", ip, n>>]

MacText(m) == [n \in 1..MacLen |-> <<"mac", m, n>>]

\* IpAddr::FromString: a dotted quad that lost its first characters is some
\* other address, and what is no address at all is 255.255.255.255.
IpFromString(s) ==
  IF \E ip \in Ips : s = IpText(ip) THEN CHOOSE ip \in Ips : s = IpText(ip) ELSE JunkIp

MacFromString_Raw(s) == {s}

MacFromString_Nothing(s) == Macs \cup {JunkMac}

\* What MacAddr::FromString may return: it ignores how much sscanf could read,
\* and the bytes of the result that sscanf did not set are uninitialised.
MacFromString(s) ==
  LET whole == {m \in Macs \cup {JunkMac} :
                  MacLen <= Len(s) /\ MacText(m) = SubSeq(s, 1, MacLen)}
  IN  IF whole # {} THEN whole ELSE Macs \cup {JunkMac}

writeline_NoNewline(key, value) ==
  IpText(key) \o <<Comma, Space>> \o MacText(value)

writeline(key, value) ==
  IpText(key) \o <<Comma, Space>> \o MacText(value) \o <<Newline>>

\* What the loop of serialize has written when it has passed the keys below n:
\* std::map iterates in the order of IpAddr::operator<.
Lines(m) ==
  LET lines[n \in Nat] ==
        IF n = 0 THEN <<>>
        ELSE lines[n - 1] \o IF n - 1 \in Keys /\ m[n - 1] # NoMac
                             THEN writeline(n - 1, m[n - 1]) ELSE <<>>
  IN  lines

serialize(m) == Lines(m)[JunkIp + 1]

substr_Inclusive(buffer, offset, delim) ==
  LET found == {i \in offset+1..Len(buffer) : buffer[i] = delim}
  IN  IF found = {} THEN <<>>
      ELSE SubSeq(buffer, offset + 1, CHOOSE i \in found : \A j \in found : i <= j)

\* The cells from offset to the first delim, or none if there is no delim.
substr(buffer, offset, delim) ==
  LET found == {i \in offset+1..Len(buffer) : buffer[i] = delim}
  IN  IF found = {} THEN <<>>
      ELSE SubSeq(buffer, offset + 1, (CHOOSE i \in found : \A j \in found : i <= j) - 1)

\* In place of a map.
Overread == <<>>

\* A turn of deserialize's loop, from <<offset_, map>> on: what it may come to.
\* remaining_ is buffer.size() - offset_ modulo 2^64: once offset_ has passed the
\* end it is huge, and a substr with it reads beyond the buffer, which is an
\* Overread.
Turn(buffer, s) ==
  LET key == substr(buffer, s[1], Comma)
      at == s[1] + Len(key) + 2
      value == substr(buffer, at, Newline)
  IN  IF s[1] >= Len(buffer) THEN {s}
      ELSE IF at > Len(buffer) THEN {<<at, Overread>>}
      ELSE {<<at + Len(value) + 1, [s[2] EXCEPT ![IpFromString(key)] = mac]>>
            : mac \in MacFromString(value)}

\* What n turns may come to.
Turns(buffer) ==
  LET turns[n \in Nat] ==
        IF n = 0 THEN {<<0, EmptyMap>>} ELSE UNION {Turn(buffer, s) : s \in turns[n - 1]}
  IN  turns

\* The maps that deserialize may make of a buffer.  Every turn of its loop moves
\* offset_ on, so that the loop has ended after Len(buffer) turns.
deserialize(buffer) == {s[2] : s \in Turns(buffer)[Len(buffer)]}

Loads == deserialize(text)

-----------------------------------------------------------------------------
(* The processes *)

Init ==
  /\ text = <<>>
  /\ pc = [p \in Procs |-> "off"]
  /\ map = [p \in Procs |-> EmptyMap]
  /\ saved = {} /\ short = "never"

\* A process starts and calls MaybeLoadArpCache; an overread ends it (the
\* build script selects the address sanitizer).
MaybeLoadArpCache(p) ==
  /\ pc[p] = "off"
  /\ \/ /\ Overread \in Loads
        /\ pc' = [pc EXCEPT ![p] = "abort"]
        /\ UNCHANGED map
     \/ \E m \in Loads \ {Overread} : /\ map' = [map EXCEPT ![p] = m]
                                      /\ pc' = [pc EXCEPT ![p] = "run"]
  /\ UNCHANGED <<text, saved, short>>

\* HandleResponse puts a pair in the cache and opens the file, truncating it.
HandleResponse(p) ==
  /\ pc[p] = "run"
  /\ \E b \in Bindings : /\ map' = [map EXCEPT ![p][b[1]] = b[2]]
                         /\ saved' = saved \cup {b}
  /\ text' = <<>>
  /\ short' = IF short = "never" THEN "never" ELSE "once"
  /\ pc' = [pc EXCEPT ![p] = "write"]

\* The file after `cells' were written at its beginning.
Overwrite(cells) == cells \o SubSeq(text, Len(cells) + 1, Len(text))

\* The rest of SerializeArpCache.  Its file.write may stop short, unnoticed.
SerializeArpCache(p) ==
  /\ pc[p] = "write"
  /\ LET buffer == serialize(map[p])
     IN  \/ text' = Overwrite(buffer) /\ UNCHANGED short
         \/ /\ DiskFull /\ short' = "now"
            /\ \E n \in 0..Len(buffer)-1 : text' = Overwrite(SubSeq(buffer, 1, n))
  /\ pc' = [pc EXCEPT ![p] = "run"]
  /\ UNCHANGED <<map, saved>>

\* The process ends, or is killed, at any point.
Exit(p) ==
  /\ pc[p] # "off"
  /\ pc' = [pc EXCEPT ![p] = "off"]
  /\ map' = [map EXCEPT ![p] = EmptyMap]
  /\ UNCHANGED <<text, saved, short>>

Next ==
  \E p \in Procs : \/ MaybeLoadArpCache(p) \/ HandleResponse(p)
                   \/ SerializeArpCache(p) \/ Exit(p)

Spec == Init /\ [][Next]_vars

-----------------------------------------------------------------------------
(* Properties *)

\* Every variable has its type, and the file never grows beyond a line per key.
TypeOK ==
  /\ Len(text) <= Len(serialize([k \in Keys |-> JunkMac]))
  /\ pc \in [Procs -> {"off", "run", "write", "abort"}]
  /\ map \in [Procs -> Map]
  /\ saved \subseteq Bindings /\ short \in {"never", "once", "now"}

\* Loading the file as it is now, deserialize never reads beyond its buffer,
\* unless the write that made the file stopped short: the next whole save heals
\* it, even one of a map that was loaded from a spoilt file.
FileReadable == short # "now" => Overread \notin Loads

\* While no write stops short, every pair in a process's map, however it got
\* there (through files that other processes wrote, or that a kill cut short),
\* is one that HandleResponse stored.
LoadsOnlySaved ==
  short = "never" =>
    \A p \in Procs, k \in Keys :
      map[p][k] # NoMac => <<k, map[p][k]>> \in saved

\* A save that stops short, on a full disk, spoils at most one binding: of the
\* addresses a later load finds, all but one have the MAC address in memory now
\* (255.255.255.255, which stands for no address, is not counted).
ShortSaveSpoilsOne ==
  \A p \in Procs : pc[p] = "run" =>
    \A m \in Loads \ {Overread} :
      Cardinality({ip \in Ips : m[ip] \notin {NoMac, map[p][ip]}}) <= 1

\* Between its saves, what a process would load from the file is what it has in
\* memory, junk from a spoilt file included: deserialize inverts serialize, and
\* a load misses nothing, unless the last save stopped short.
LoadInvertsSave ==
  \A p \in Procs : pc[p] = "run" /\ short # "now" => Loads = {map[p]}

=============================================================================
