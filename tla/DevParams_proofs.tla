--------------------------- MODULE DevParams_proofs ---------------------------
(***************************************************************************)
(* Proofs about DevParams, for bytes of any size, any values offered, any   *)
(* identifiers and keywords, messages of any length and any faults of the   *)
(* file.                                                                    *)
(***************************************************************************)
EXTENDS DevParams, WellFoundedInduction, TLAPS

(* The members of DEVICE_PARAMS that the link depends on. *)
ServerFields == {"m_server_ip", "server_tcp_port"}
IdentityFields == {"vehicle_province_id", "vehicle_city_id", "vehicle_license", "plate_color"}
LinkFields == ServerFields \cup IdentityFields

-----------------------------------------------------------------------------
(* Sequences of states: the library's induction theorems take an operator;   *)
(* these take a set, and rest on a set of naturals having a least member.    *)

NatLess == {ss \in Nat \X Nat : ss[1] < ss[2]}

LEMMA LeastNatural ==
  ASSUME NEW T \in SUBSET Nat, T # {}
  PROVE  \E m \in T : \A k \in T : m <= k
<1>1. IsWellFoundedOn(NatLess, Nat)
  BY NatLessThanWellFounded DEF OpToRel, NatLess
<1>2. PICK m \in T : \A k \in T : <<k, m>> \notin NatLess
  BY <1>1, WFMin
<1>3. ASSUME NEW k \in T
      PROVE  m <= k
  <2>1. ~(k < m)
    BY <1>2 DEF NatLess
  <2> QED
    BY <2>1
<1> QED
  BY <1>3

(* A sequence that starts in a set and does not leave it by a step is in it. *)
LEMMA StaysIn ==
  ASSUME NEW S, NEW n \in Nat, NEW f, f[0] \in S,
         \A i \in 1 .. n : f[i - 1] \in S => f[i] \in S
  PROVE  \A i \in 0 .. n : f[i] \in S
<1> DEFINE T == {k \in 0 .. n : f[k] \notin S}
<1> SUFFICES ASSUME T # {} PROVE FALSE
  OBVIOUS
<1>1. PICK m \in T : \A k \in T : m <= k
  <2>1. T \in SUBSET Nat
    OBVIOUS
  <2> HIDE DEF T
  <2> QED
    BY <2>1, LeastNatural
<1>2. m # 0 /\ m - 1 \in 0 .. n /\ m - 1 \notin T /\ m \in 1 .. n
  BY <1>1
<1> QED
  BY <1>2

(* g goes through n steps of R from s. *)
Iterates(g, R, s, n, S) ==
  /\ g \in [0 .. n -> S]
  /\ g[0] = s
  /\ \A i \in 1 .. n : g[i] = R[<<i, g[i - 1]>>]

LEMMA Iteration ==
  ASSUME NEW S, NEW R \in [Nat \X S -> S], NEW s \in S, NEW n \in Nat
  PROVE  \E g : Iterates(g, R, s, n, S)
<1> DEFINE T == {k \in Nat : ~ \E g : Iterates(g, R, s, k, S)}
<1>1. SUFFICES ASSUME T # {} PROVE FALSE
  <2>1. \E g : Iterates(g, R, s, n, S)
    BY <1>1
  <2> QED
    BY <2>1
<1>2. PICK m \in T : \A k \in T : m <= k
  <2> HIDE DEF T
  <2>1. T \in SUBSET Nat
    BY DEF T
  <2> QED
    BY <2>1, <1>1, LeastNatural
<1>3. m # 0
  <2>1. Iterates([i \in 0 .. 0 |-> s], R, s, 0, S)
    BY DEF Iterates
  <2> QED
    BY <2>1, <1>2
<1>4. m - 1 \in Nat /\ m - 1 \notin T
  BY <1>2, <1>3
<1>5. PICK g : Iterates(g, R, s, m - 1, S)
  BY <1>4
<1>6. \E h : Iterates(h, R, s, m, S)
  <2> DEFINE h == [i \in 0 .. m |-> IF i = m THEN R[<<m, g[m - 1]>>] ELSE g[i]]
  <2>1. /\ g \in [0 .. m - 1 -> S] /\ g[0] = s
        /\ \A i \in 1 .. m - 1 : g[i] = R[<<i, g[i - 1]>>]
    BY <1>5 DEF Iterates
  <2>2. g[m - 1] \in S
    BY <1>4, <2>1
  <2>3. R[<<m, g[m - 1]>>] \in S
    BY <2>2, <1>2
  <2>4. \A i \in 0 .. m - 1 : g[i] \in S
    BY <2>1
  <2>5. h \in [0 .. m -> S]
    BY <2>3, <2>4
  <2>6. h[0] = s
    BY <2>1, <1>4
  <2>7. \A i \in 1 .. m : h[i] = R[<<i, h[i - 1]>>]
    <3>1. ASSUME NEW i \in 1 .. m, i = m
          PROVE  h[i] = R[<<i, h[i - 1]>>]
      <4>1. h[m] = R[<<m, g[m - 1]>>] /\ h[m - 1] = g[m - 1]
        BY <1>4, <1>2
      <4> HIDE DEF h
      <4> QED
        BY <4>1, <3>1
    <3>2. ASSUME NEW i \in 1 .. m, i # m
          PROVE  h[i] = R[<<i, h[i - 1]>>]
      <4>1. i \in 1 .. m - 1 /\ h[i] = g[i] /\ h[i - 1] = g[i - 1]
        BY <3>2, <1>4, <1>2
      <4> HIDE DEF h
      <4> QED
        BY <4>1, <2>1
    <3> QED
      BY <3>1, <3>2
  <2> HIDE DEF h
  <2> QED
    BY <2>5, <2>6, <2>7 DEF Iterates
<1> QED
  BY <1>6, <1>2

-----------------------------------------------------------------------------
(* The tables *)

LEMMA JoinedDomain ==
  ASSUME NEW f, NEW g
  PROVE  /\ DOMAIN Joined(f, g) = DOMAIN f \cup DOMAIN g
         /\ \A x \in DOMAIN Joined(f, g) :
               \/ x \in DOMAIN f /\ Joined(f, g)[x] = f[x]
               \/ x \in DOMAIN g \ DOMAIN f /\ Joined(f, g)[x] = g[x]
  BY DEF Joined

(* Of two tables with no index in common each is in their union as it is. *)
LEMMA JoinedApart ==
  ASSUME NEW f, NEW g, \A x \in DOMAIN g : x \notin DOMAIN f
  PROVE  /\ DOMAIN Joined(f, g) = DOMAIN f \cup DOMAIN g
         /\ \A x \in DOMAIN f : Joined(f, g)[x] = f[x]
         /\ \A x \in DOMAIN g : Joined(f, g)[x] = g[x]
  BY DEF Joined

LEMMA PlainWritesTable ==
  \A id \in DOMAIN PlainWrites : PlainWrites[id] \notin LinkFields
<1>1. \A id \in DOMAIN TimeWrites : TimeWrites[id] \notin LinkFields
  BY DEF TimeWrites, LinkFields, ServerFields, IdentityFields
<1>2. \A id \in DOMAIN ReportWrites : ReportWrites[id] \notin LinkFields
  BY DEF ReportWrites, LinkFields, ServerFields, IdentityFields
<1>3. \A id \in DOMAIN TelWrites : TelWrites[id] \notin LinkFields
  BY DEF TelWrites, LinkFields, ServerFields, IdentityFields
<1>4. \A id \in DOMAIN AlarmWrites : AlarmWrites[id] \notin LinkFields
  BY DEF AlarmWrites, LinkFields, ServerFields, IdentityFields
<1>5. \A id \in DOMAIN Joined(TimeWrites, ReportWrites) :
        Joined(TimeWrites, ReportWrites)[id] \notin LinkFields
  BY <1>1, <1>2, JoinedDomain, Zenon
<1>6. \A id \in DOMAIN Joined(TelWrites, AlarmWrites) :
        Joined(TelWrites, AlarmWrites)[id] \notin LinkFields
  BY <1>3, <1>4, JoinedDomain, Zenon
<1> QED
  BY <1>5, <1>6, JoinedDomain, Zenon DEF PlainWrites

LEMMA IdentityTable ==
  /\ DOMAIN IdentityWrites = {"ePrivic", "eCity", "eCarid", "eCarclor"}
  /\ \A id \in DOMAIN IdentityWrites : IdentityWrites[id] \in IdentityFields
  /\ {IdentityWrites[id] : id \in DOMAIN IdentityWrites} = IdentityFields
  BY DEF IdentityWrites, IdentityFields

LEMMA PortTable ==
  /\ DOMAIN PortWrites = {"eTcpPort", "eUdpPort"}
  /\ PortWrites["eTcpPort"] = "server_tcp_port" /\ PortWrites["eUdpPort"] = "server_udp_port"
  BY DEF PortWrites

LEMMA PlainKeywordsTable ==
  \A key \in DOMAIN PlainKeywords : PlainKeywords[key] \notin LinkFields
<1>1. \A key \in DOMAIN TimeKeywords : TimeKeywords[key] \notin LinkFields
  BY DEF TimeKeywords, LinkFields, ServerFields, IdentityFields
<1>2. \A key \in DOMAIN ReportKeywords : ReportKeywords[key] \notin LinkFields
  BY DEF ReportKeywords, LinkFields, ServerFields, IdentityFields
<1>3. \A key \in DOMAIN TelKeywords : TelKeywords[key] \notin LinkFields
  BY DEF TelKeywords, LinkFields, ServerFields, IdentityFields
<1>4. \A key \in DOMAIN AlarmKeywords : AlarmKeywords[key] \notin LinkFields
  BY DEF AlarmKeywords, LinkFields, ServerFields, IdentityFields
<1>5. \A key \in DOMAIN UpdateKeywords : UpdateKeywords[key] \notin LinkFields
  BY DEF UpdateKeywords, LinkFields, ServerFields, IdentityFields
<1>6. \A key \in DOMAIN Joined(TimeKeywords, ReportKeywords) :
        Joined(TimeKeywords, ReportKeywords)[key] \notin LinkFields
  BY <1>1, <1>2, JoinedDomain, ZenonT(30)
<1>7. \A key \in DOMAIN Joined(AlarmKeywords, UpdateKeywords) :
        Joined(AlarmKeywords, UpdateKeywords)[key] \notin LinkFields
  BY <1>4, <1>5, JoinedDomain, ZenonT(30)
<1>8. \A key \in DOMAIN Joined(TelKeywords, Joined(AlarmKeywords, UpdateKeywords)) :
        Joined(TelKeywords, Joined(AlarmKeywords, UpdateKeywords))[key] \notin LinkFields
  BY <1>3, <1>7, JoinedDomain, ZenonT(30)
<1> QED
  BY <1>6, <1>8, JoinedDomain, ZenonT(30) DEF PlainKeywords

LEMMA ServerKeywordsTable ==
  /\ DOMAIN ServerKeywords = {"e_IP", "e_TCPPORT", "e_UDPPORT"}
  /\ ServerKeywords["e_IP"] = "m_server_ip" /\ ServerKeywords["e_TCPPORT"] = "server_tcp_port"
  /\ ServerKeywords["e_UDPPORT"] = "server_udp_port"
  BY DEF ServerKeywords

LEMMA IdentityKeywordsTable ==
  /\ DOMAIN IdentityKeywords = {"e_TEL", "e_provincID", "e_cityID", "e_carID", "e_carcolor", "e_DEVID"}
  /\ \A key \in DOMAIN IdentityKeywords : IdentityKeywords[key] \notin ServerFields
  /\ IdentityKeywords["e_DEVID"] = "term_id"
  BY DEF IdentityKeywords, ServerFields

(* No two of the three tables of keywords have a keyword in common. *)
LEMMA KeywordsApart ==
  /\ DOMAIN PlainKeywords \cap DOMAIN ServerKeywords = {}
  /\ DOMAIN PlainKeywords \cap DOMAIN IdentityKeywords = {}
<1>1. DOMAIN PlainKeywords =
        DOMAIN TimeKeywords \cup DOMAIN ReportKeywords \cup DOMAIN TelKeywords
        \cup DOMAIN AlarmKeywords \cup DOMAIN UpdateKeywords
  <2>1. DOMAIN PlainKeywords = DOMAIN Joined(TimeKeywords, ReportKeywords)
          \cup DOMAIN Joined(TelKeywords, Joined(AlarmKeywords, UpdateKeywords))
    BY JoinedDomain DEF PlainKeywords
  <2>2. DOMAIN Joined(TimeKeywords, ReportKeywords) = DOMAIN TimeKeywords \cup DOMAIN ReportKeywords
    BY JoinedDomain
  <2>3. DOMAIN Joined(TelKeywords, Joined(AlarmKeywords, UpdateKeywords))
          = DOMAIN TelKeywords \cup DOMAIN Joined(AlarmKeywords, UpdateKeywords)
    BY JoinedDomain
  <2>4. DOMAIN Joined(AlarmKeywords, UpdateKeywords) = DOMAIN AlarmKeywords \cup DOMAIN UpdateKeywords
    BY JoinedDomain
  <2> QED
    BY <2>1, <2>2, <2>3, <2>4
<1>2. \A key \in DOMAIN TimeKeywords : key \notin DOMAIN ServerKeywords \cup DOMAIN IdentityKeywords
  BY ServerKeywordsTable, IdentityKeywordsTable DEF TimeKeywords
<1>3. \A key \in DOMAIN ReportKeywords : key \notin DOMAIN ServerKeywords \cup DOMAIN IdentityKeywords
  BY ServerKeywordsTable, IdentityKeywordsTable DEF ReportKeywords
<1>4. \A key \in DOMAIN TelKeywords : key \notin DOMAIN ServerKeywords \cup DOMAIN IdentityKeywords
  BY ServerKeywordsTable, IdentityKeywordsTable DEF TelKeywords
<1>5. \A key \in DOMAIN AlarmKeywords : key \notin DOMAIN ServerKeywords \cup DOMAIN IdentityKeywords
  BY ServerKeywordsTable, IdentityKeywordsTable DEF AlarmKeywords
<1>6. \A key \in DOMAIN UpdateKeywords : key \notin DOMAIN ServerKeywords \cup DOMAIN IdentityKeywords
  BY ServerKeywordsTable, IdentityKeywordsTable DEF UpdateKeywords
<1> QED
  BY <1>1, <1>2, <1>3, <1>4, <1>5, <1>6, Zenon

(* What is written and what is read under an identifier are the same member  *)
(* of DEVICE_PARAMS, but for those that no case writes and the time of an    *)
(* overspeed.                                                                *)
LEMMA WritesTable ==
  /\ \A id \in DOMAIN PlainWrites : id \in DOMAIN Writes /\ Writes[id] = PlainWrites[id]
  /\ \A id \in DOMAIN PortWrites : id \in DOMAIN Writes /\ Writes[id] = PortWrites[id]
  /\ \A id \in DOMAIN IdentityWrites : id \in DOMAIN Writes /\ Writes[id] = IdentityWrites[id]
  /\ "eIP" \in DOMAIN Writes /\ Writes["eIP"] = "m_server_ip"
  /\ DOMAIN PlainWrites \cap (DOMAIN PortWrites \cup DOMAIN IdentityWrites \cup {"eIP"}) = {}
  /\ DOMAIN Writes = DOMAIN PlainWrites \cup DOMAIN PortWrites \cup DOMAIN IdentityWrites \cup {"eIP"}
<1> DEFINE Others == DOMAIN PortWrites \cup DOMAIN IdentityWrites \cup {"eIP"}
           ip == [eIP |-> "m_server_ip"]
<1>1. \A id \in DOMAIN TimeWrites : id \notin Others
  BY PortTable, IdentityTable DEF TimeWrites
<1>2. \A id \in DOMAIN ReportWrites : id \notin Others
  BY PortTable, IdentityTable DEF ReportWrites
<1>3. \A id \in DOMAIN TelWrites : id \notin Others
  BY PortTable, IdentityTable DEF TelWrites
<1>4. \A id \in DOMAIN AlarmWrites : id \notin Others
  BY PortTable, IdentityTable DEF AlarmWrites
<1>5. DOMAIN ip = {"eIP"} /\ ip["eIP"] = "m_server_ip"
  OBVIOUS
<1> HIDE DEF Others, ip
<1>6. \A id \in DOMAIN PlainWrites : id \notin Others
  <2>1. \A id \in DOMAIN Joined(TimeWrites, ReportWrites) : id \notin Others
    BY <1>1, <1>2, JoinedDomain, Zenon
  <2>2. \A id \in DOMAIN Joined(TelWrites, AlarmWrites) : id \notin Others
    BY <1>3, <1>4, JoinedDomain, Zenon
  <2> QED
    BY <2>1, <2>2, JoinedDomain, Zenon DEF PlainWrites
<1>7. /\ DOMAIN ServerWrites = DOMAIN PortWrites \cup {"eIP"}
      /\ \A id \in DOMAIN PortWrites : ServerWrites[id] = PortWrites[id]
      /\ ServerWrites["eIP"] = "m_server_ip"
  BY <1>5, PortTable DEF ServerWrites, Joined, ip
<1>8. /\ DOMAIN Joined(ServerWrites, IdentityWrites) = Others
      /\ \A id \in DOMAIN PortWrites : Joined(ServerWrites, IdentityWrites)[id] = PortWrites[id]
      /\ Joined(ServerWrites, IdentityWrites)["eIP"] = "m_server_ip"
      /\ \A id \in DOMAIN IdentityWrites : Joined(ServerWrites, IdentityWrites)[id] = IdentityWrites[id]
  BY <1>7, PortTable, IdentityTable DEF Joined, Others
<1>9. /\ DOMAIN Writes = DOMAIN PlainWrites \cup Others
      /\ \A id \in DOMAIN PlainWrites : Writes[id] = PlainWrites[id]
      /\ \A id \in Others : Writes[id] = Joined(ServerWrites, IdentityWrites)[id]
  <2>1. \A id \in DOMAIN Joined(ServerWrites, IdentityWrites) : id \notin DOMAIN PlainWrites
    BY <1>6, <1>8, Zenon
  <2> QED
    BY <1>8, <2>1, JoinedApart DEF Writes
<1> QED
  BY <1>6, <1>8, <1>9, Zenon DEF Others

LEMMA PlainTables ==
  /\ \A id \in DOMAIN TimeWrites : id \in DOMAIN PlainWrites /\ PlainWrites[id] = TimeWrites[id]
  /\ \A id \in DOMAIN ReportWrites : id \in DOMAIN PlainWrites /\ PlainWrites[id] = ReportWrites[id]
  /\ \A id \in DOMAIN TelWrites : id \in DOMAIN PlainWrites /\ PlainWrites[id] = TelWrites[id]
  /\ \A id \in DOMAIN AlarmWrites : id \in DOMAIN PlainWrites /\ PlainWrites[id] = AlarmWrites[id]
<1>1. \A id \in DOMAIN ReportWrites : id \notin DOMAIN TimeWrites
  BY DEF TimeWrites, ReportWrites
<1>2. \A id \in DOMAIN TelWrites : id \notin DOMAIN TimeWrites \cup DOMAIN ReportWrites
  BY DEF TimeWrites, ReportWrites, TelWrites
<1>3. \A id \in DOMAIN AlarmWrites : id \notin DOMAIN TimeWrites \cup DOMAIN ReportWrites \cup DOMAIN TelWrites
  BY DEF TimeWrites, ReportWrites, TelWrites, AlarmWrites
<1> DEFINE f == Joined(TimeWrites, ReportWrites)
           g == Joined(TelWrites, AlarmWrites)
<1>4. /\ DOMAIN f = DOMAIN TimeWrites \cup DOMAIN ReportWrites
      /\ \A id \in DOMAIN TimeWrites : f[id] = TimeWrites[id]
      /\ \A id \in DOMAIN ReportWrites : f[id] = ReportWrites[id]
  BY <1>1, JoinedApart
<1>5. /\ DOMAIN g = DOMAIN TelWrites \cup DOMAIN AlarmWrites
      /\ \A id \in DOMAIN TelWrites : g[id] = TelWrites[id]
      /\ \A id \in DOMAIN AlarmWrites : g[id] = AlarmWrites[id]
  <2>1. \A id \in DOMAIN AlarmWrites : id \notin DOMAIN TelWrites
    BY <1>3
  <2> QED
    BY <2>1, JoinedApart
<1>6. /\ DOMAIN PlainWrites = DOMAIN f \cup DOMAIN g
      /\ \A id \in DOMAIN f : PlainWrites[id] = f[id]
      /\ \A id \in DOMAIN g : PlainWrites[id] = g[id]
  <2>1. PlainWrites = Joined(f, g)
    BY DEF PlainWrites
  <2>2. \A id \in DOMAIN g : id \notin DOMAIN f
    BY <1>2, <1>3, <1>4, <1>5, Zenon
  <2> HIDE DEF f, g
  <2> QED
    BY <2>1, <2>2 DEF Joined
<1> HIDE DEF f, g
<1> QED
  BY <1>2, <1>3, <1>4, <1>5, <1>6, Zenon

LEMMA ReadsTable ==
  /\ \A id \in DOMAIN Reads \ (NeverWritten \cup {"eOverspeedtime"}) :
        id \in DOMAIN Writes /\ Writes[id] = Reads[id]
  /\ "eImagClor" \notin DOMAIN Reads
<1>1. \A id \in DOMAIN ServerReads \ NeverWritten :
        \/ id = "eIP" /\ ServerReads[id] = "m_server_ip"
        \/ id \in DOMAIN PortWrites /\ PortWrites[id] = ServerReads[id]
  BY DEF ServerReads, NeverWritten, PortWrites
<1>2. \A id \in DOMAIN ReportReads \ NeverWritten :
        \/ id \in DOMAIN TimeWrites /\ TimeWrites[id] = ReportReads[id]
        \/ id \in DOMAIN ReportWrites /\ ReportWrites[id] = ReportReads[id]
  BY DEF ReportReads, NeverWritten, TimeWrites, ReportWrites
<1>3. \A id \in DOMAIN AlarmReads \ {"eOverspeedtime"} :
        \/ id \in DOMAIN TelWrites /\ TelWrites[id] = AlarmReads[id]
        \/ id \in DOMAIN AlarmWrites /\ AlarmWrites[id] = AlarmReads[id]
  BY DEF AlarmReads, TelWrites, AlarmWrites
<1>4. \A id \in DOMAIN VehicleReads :
        \/ id \in DOMAIN AlarmWrites /\ AlarmWrites[id] = VehicleReads[id]
        \/ id \in DOMAIN IdentityWrites /\ IdentityWrites[id] = VehicleReads[id]
  BY DEF VehicleReads, AlarmWrites, IdentityWrites
<1>5. "eImagClor" \notin DOMAIN ServerReads \cup DOMAIN ReportReads \cup DOMAIN AlarmReads \cup DOMAIN VehicleReads
  BY DEF ServerReads, ReportReads, AlarmReads, VehicleReads
<1> DEFINE Never == NeverWritten \cup {"eOverspeedtime"}
           Same(r, id) == id \in DOMAIN Writes /\ Writes[id] = r[id]
           Agrees(r) == (\A id \in DOMAIN r \ Never : Same(r, id)) /\ "eImagClor" \notin DOMAIN r
<1>6. \A id \in DOMAIN ServerReads \ Never : Same(ServerReads, id)
  BY <1>1, WritesTable, Zenon
<1>7. \A id \in DOMAIN ReportReads \ Never : Same(ReportReads, id)
  BY <1>2, PlainTables, WritesTable, Zenon
<1>8. \A id \in DOMAIN AlarmReads \ Never : Same(AlarmReads, id)
  BY <1>3, PlainTables, WritesTable, Zenon
<1>9. \A id \in DOMAIN VehicleReads \ Never : Same(VehicleReads, id)
  BY <1>4, PlainTables, WritesTable, Zenon
<1>10. ASSUME NEW q, NEW r, Agrees(q), Agrees(r)
       PROVE  Agrees(Joined(q, r))
  <2> DEFINE j == Joined(q, r)
  <2>1. \A id \in DOMAIN j :
          \/ id \in DOMAIN q /\ j[id] = q[id]
          \/ id \in DOMAIN r /\ j[id] = r[id]
    BY DEF Joined
  <2> HIDE DEF j
  <2>2. Agrees(j)
    BY <1>10, <2>1, Zenon
  <2> QED
    BY <2>2 DEF j
<1>11. /\ Agrees(ServerReads) /\ Agrees(ReportReads)
       /\ Agrees(AlarmReads) /\ Agrees(VehicleReads)
  BY <1>5, <1>6, <1>7, <1>8, <1>9, Zenon
<1> HIDE DEF Agrees
<1>12. Agrees(Joined(ServerReads, ReportReads)) /\ Agrees(Joined(AlarmReads, VehicleReads))
  BY <1>10, <1>11
<1>13. Agrees(Reads)
  BY <1>10, <1>12 DEF Reads
<1> QED
  BY <1>13, Zenon DEF Agrees

(* The answer to an SMS has every keyword and tells what it sets. *)
LEMMA KeywordsTable ==
  /\ \A key \in DOMAIN Keywords : key \in DOMAIN Shown /\ Shown[key] = Keywords[key]
  /\ \A key \in DOMAIN PlainKeywords : Keywords[key] = PlainKeywords[key]
  /\ \A key \in DOMAIN ServerKeywords : key \in DOMAIN Keywords /\ Keywords[key] = ServerKeywords[key]
  /\ \A key \in DOMAIN IdentityKeywords : key \in DOMAIN Keywords /\ Keywords[key] = IdentityKeywords[key]
  /\ \A key \in DOMAIN Keywords :
        key \in DOMAIN PlainKeywords \cup DOMAIN ServerKeywords \cup DOMAIN IdentityKeywords
<1> DEFINE Told(t) == \A key \in DOMAIN t :
             \/ key \in DOMAIN FirstShown /\ FirstShown[key] = t[key]
             \/ key \in DOMAIN LastShown \ DOMAIN FirstShown /\ LastShown[key] = t[key]
<1>1. Told(TimeKeywords)
  BY DEF TimeKeywords, FirstShown, LastShown
<1>2. Told(ReportKeywords)
  BY DEF ReportKeywords, FirstShown, LastShown
<1>3. Told(TelKeywords)
  BY DEF TelKeywords, FirstShown, LastShown
<1>4. Told(AlarmKeywords)
  BY DEF AlarmKeywords, FirstShown, LastShown
<1>5. Told(UpdateKeywords)
  BY DEF UpdateKeywords, FirstShown, LastShown
<1>6. Told(ServerKeywords)
  BY DEF ServerKeywords, FirstShown, LastShown
<1>7. Told(IdentityKeywords)
  BY DEF IdentityKeywords, FirstShown, LastShown
<1>8. ASSUME NEW f, NEW g, Told(f), Told(g)
      PROVE  Told(Joined(f, g))
  <2> DEFINE j == Joined(f, g)
  <2>1. \A key \in DOMAIN j :
          \/ key \in DOMAIN f /\ j[key] = f[key]
          \/ key \in DOMAIN g /\ j[key] = g[key]
    BY DEF Joined
  <2> HIDE DEF j
  <2>2. Told(j)
    BY <1>8, <2>1, Zenon
  <2> QED
    BY <2>2 DEF j
<1>9. Told(Joined(TimeKeywords, ReportKeywords)) /\ Told(Joined(AlarmKeywords, UpdateKeywords))
  BY <1>1, <1>2, <1>4, <1>5, <1>8
<1>10. Told(Joined(ServerKeywords, IdentityKeywords))
  BY <1>6, <1>7, <1>8
<1> HIDE DEF Told
<1>11. Told(Joined(TelKeywords, Joined(AlarmKeywords, UpdateKeywords)))
  BY <1>3, <1>8, <1>9
<1>12. Told(PlainKeywords)
  BY <1>8, <1>9, <1>11 DEF PlainKeywords
<1>13. Told(Keywords)
  BY <1>8, <1>10, <1>12 DEF Keywords
<1>14. \A key \in DOMAIN Keywords : key \in DOMAIN Shown /\ Shown[key] = Keywords[key]
  <2>1. /\ DOMAIN Shown = DOMAIN FirstShown \cup DOMAIN LastShown
        /\ \A key \in DOMAIN FirstShown : Shown[key] = FirstShown[key]
        /\ \A key \in DOMAIN LastShown \ DOMAIN FirstShown : Shown[key] = LastShown[key]
    BY DEF Shown, Joined
  <2> QED
    BY <1>13, <2>1, Zenon DEF Told
<1>15. \A key \in DOMAIN ServerKeywords : key \notin DOMAIN IdentityKeywords
  BY ServerKeywordsTable, IdentityKeywordsTable
<1> DEFINE h == Joined(ServerKeywords, IdentityKeywords)
<1>16. /\ DOMAIN h = DOMAIN ServerKeywords \cup DOMAIN IdentityKeywords
       /\ \A key \in DOMAIN ServerKeywords : h[key] = ServerKeywords[key]
       /\ \A key \in DOMAIN IdentityKeywords : h[key] = IdentityKeywords[key]
  <2>1. \A key \in DOMAIN IdentityKeywords : key \notin DOMAIN ServerKeywords
    BY <1>15
  <2> QED
    BY <2>1, JoinedApart
<1>17. /\ DOMAIN Keywords = DOMAIN PlainKeywords \cup DOMAIN h
       /\ \A key \in DOMAIN PlainKeywords : Keywords[key] = PlainKeywords[key]
       /\ \A key \in DOMAIN h : Keywords[key] = h[key]
  <2>1. Keywords = Joined(PlainKeywords, h)
    BY DEF Keywords
  <2>2. \A key \in DOMAIN h : key \notin DOMAIN PlainKeywords
    BY <1>16, KeywordsApart, Zenon
  <2> HIDE DEF h
  <2> QED
    BY <2>1, <2>2 DEF Joined
<1> HIDE DEF h
<1> QED
  BY <1>14, <1>16, <1>17, KeywordsApart, Zenon

(* The members of DEVICE_PARAMS that the model treats by name are members.   *)
LEMMA Fields ==
  /\ ServerFields \cup IdentityFields \cup {"term_id"} \subseteq Field
  /\ \A id \in DOMAIN Writes : Writes[id] \in Field
  /\ \A key \in DOMAIN Keywords : Keywords[key] \in Field
<1>1. /\ \A id \in DOMAIN Writes : Writes[id] \in Field
      /\ \A key \in DOMAIN Shown : Shown[key] \in Field
  BY DEF Field
<1>2. \A key \in DOMAIN Keywords : Keywords[key] \in Field
  BY <1>1, KeywordsTable
<1>3. "m_server_ip" \in Field
  BY <1>1, WritesTable
<1>4. "server_tcp_port" \in Field
  BY <1>1, WritesTable, PortTable
<1>5. IdentityFields \subseteq Field
  BY <1>1, WritesTable, IdentityTable
<1>6. "term_id" \in Field
  BY <1>2, KeywordsTable, IdentityKeywordsTable
<1> QED
  BY <1>1, <1>2, <1>3, <1>4, <1>5, <1>6 DEF ServerFields

-----------------------------------------------------------------------------
(* The values *)

LEMMA Values ==
  /\ {0, 1, 2} \subseteq Value /\ Value \subseteq Nat
  /\ NoDevid \notin Value /\ ShortDevid \notin Value
<1>1. Byte \in Nat /\ Byte >= 2
  BY ParamsAssumption
<1>2. Byte * Byte \in Nat /\ Byte * Byte >= 4
  BY <1>1
<1> DEFINE b == Byte * Byte
<1> HIDE DEF b
<1>3. b \in Nat /\ b >= 4
  BY <1>2 DEF b
<1>4. {0, 1, 2} \subseteq 0 .. b - 1 /\ 0 .. b - 1 \subseteq Nat /\ b \notin 0 .. b - 1 /\ b + 1 \notin 0 .. b - 1
  BY <1>3
<1> QED
  BY <1>4 DEF b, Value, NoDevid, ShortDevid

LEMMA OfferedValues == Offered \subseteq Value
  BY ParamsAssumption DEF Value

(* The factory's parameters and those that no start has filled are           *)
(* parameters, and a damaged file is none.                                   *)
LEMMA WholeFiles ==
  /\ Zero \in Params /\ dev_def_params \in Params /\ DEVID_INI \in Value
  /\ Missing \notin Params /\ Short \notin Params /\ Missing # Short
<1>1. Zero \in Params /\ dev_def_params \in Params
  BY Values DEF Zero, dev_def_params, Params
<1>2. DEVID_INI \in Value
  BY <1>1, Fields DEF DEVID_INI, Params
<1>3. DOMAIN Missing = {} /\ DOMAIN Short = {"term_id"}
  BY DEF Missing, Short
<1>4. \A p \in Params : "m_server_ip" \in DOMAIN p
  BY Fields DEF Params, ServerFields
<1> QED
  BY <1>1, <1>2, <1>3, <1>4

-----------------------------------------------------------------------------
(* What a handler works on *)

Files == Params \cup {Missing, Short}
Devids == Value \cup {NoDevid, ShortDevid}
Acts == {"no_act", "para_save", "reconn", "rereg"}
Work == [params : Params, file : Files, devid : Devids, unsaved : BOOLEAN,
         paraset : {"none", "reconn", "rereg"}, sta : {0, 1}, done : BOOLEAN,
         act : Acts, acts : SUBSET Acts]

LEMMA MemoryWorks == TypeOK => Memory \in Work
<1> SUFFICES ASSUME TypeOK PROVE Memory \in Work
  OBVIOUS
<1>1. params \in Params /\ file \in Files /\ devid \in Devids
  BY DEF TypeOK, Files, Devids
<1>2. unsaved \in BOOLEAN
  BY DEF TypeOK
<1> QED
  BY <1>1, <1>2 DEF Memory, Work, Acts

(* One member set: the record is one again, and the others are as they were. *)
LEMMA SetOne ==
  ASSUME NEW v \in Work, NEW field, NEW x \in Value
  PROVE  /\ Set(v, field, x) \in Work
         /\ Set(v, field, x).params \in Params
         /\ \A f \in Field : f # field => Set(v, field, x).params[f] = v.params[f]
         /\ field \in Field => Set(v, field, x).params[field] = x
         /\ Set(v, field, x) = [v EXCEPT !.params = Set(v, field, x).params]
<1> DEFINE p == [v.params EXCEPT ![field] = x]
<1>1. v.params \in Params
  BY DEF Work
<1>2. /\ p \in Params
      /\ \A f \in Field : f # field => p[f] = v.params[f]
      /\ field \in Field => p[field] = x
  BY <1>1 DEF Params
<1>3. Set(v, field, x) = [v EXCEPT !.params = p]
  BY DEF Set
<1> HIDE DEF p
<1>4. Set(v, field, x).params = p
  BY <1>3 DEF Work
<1>5. Set(v, field, x) \in Work
  BY <1>2, <1>3 DEF Work
<1> QED
  BY <1>2, <1>3, <1>4, <1>5

(* What the link depends on is unchanged where its members are. *)
LEMMA SameServer ==
  ASSUME NEW p, NEW q, \A f \in ServerFields : p[f] = q[f]
  PROVE  Server(p) = Server(q)
  BY DEF Server, ServerFields

LEMMA SameIdentity ==
  ASSUME NEW p, NEW q, \A f \in IdentityFields : p[f] = q[f]
  PROVE  Identity(p) = Identity(q)
  BY IdentityTable DEF Identity

LEMMA ServerType ==
  ASSUME NEW p \in Params
  PROVE  Server(p) \in [ip : Value, port : Value]
<1>1. "m_server_ip" \in Field /\ "server_tcp_port" \in Field
  BY Fields DEF ServerFields
<1> QED
  BY <1>1 DEF Server, Params

-----------------------------------------------------------------------------
(* Messages of the platform *)

(* v came from w without a write of a file, and nothing that the link depends *)
(* on has changed unless the link is asked for.                              *)
Told(w, v) ==
  /\ v \in Work
  /\ v.file = w.file /\ v.devid = w.devid /\ v.unsaved = w.unsaved
  /\ v.paraset = "none" => /\ w.paraset = "none"
                           /\ Server(v.params) = Server(w.params)
                           /\ Identity(v.params) = Identity(w.params)

LEMMA ToldItself ==
  ASSUME NEW v \in Work
  PROVE  Told(v, v)
  BY DEF Told

(* Asking for a connection or a registration, whatever member is set. *)
LEMMA ToldAsking ==
  ASSUME NEW v \in Work, NEW field, NEW x \in Value, NEW request \in {"reconn", "rereg"}
  PROVE  Told(v, [Set(v, field, x) EXCEPT !.paraset = request])
<1> DEFINE u == Set(v, field, x)
<1>1. u \in Work /\ u.file = v.file /\ u.devid = v.devid /\ u.unsaved = v.unsaved
  <2>1. u \in Work /\ u = [v EXCEPT !.params = u.params]
    BY SetOne
  <2> HIDE DEF u
  <2> QED
    BY <2>1 DEF Work
<1> HIDE DEF u
<1>2. Told(v, [u EXCEPT !.paraset = request])
  BY <1>1 DEF Told, Work
<1> QED
  BY <1>2 DEF u

LEMMA ToldPlainly ==
  ASSUME NEW v \in Work, NEW field, field \notin LinkFields, NEW x \in Value
  PROVE  Told(v, Set(v, field, x))
<1> DEFINE u == Set(v, field, x)
<1>1. /\ u \in Work /\ u = [v EXCEPT !.params = u.params]
      /\ \A f \in Field : f # field => u.params[f] = v.params[f]
  BY SetOne
<1> HIDE DEF u
<1>2. /\ u.file = v.file /\ u.devid = v.devid /\ u.unsaved = v.unsaved /\ u.paraset = v.paraset
  BY <1>1 DEF Work
<1>3. \A f \in LinkFields : u.params[f] = v.params[f]
  BY <1>1, Fields DEF LinkFields
<1>4. Server(u.params) = Server(v.params) /\ Identity(u.params) = Identity(v.params)
  BY <1>3, SameServer, SameIdentity DEF LinkFields
<1> QED
  BY <1>1, <1>2, <1>4 DEF Told, u

LEMMA ToldByWriting ==
  ASSUME NEW v \in Work, NEW id, NEW x \in Value
  PROVE  Told(v, WriteLbsCfgPara(v, id, x))
<1> DEFINE u == WriteLbsCfgPara(v, id, x)
           Asking(field, request) == [Set(v, field, x) EXCEPT !.paraset = request]
<1>1. /\ DOMAIN PlainWrites \cap (DOMAIN PortWrites \cup {"eIP", "ePrivic", "eCity", "eCarid", "eCarclor"}) = {}
      /\ DOMAIN PortWrites = {"eTcpPort", "eUdpPort"}
  BY WritesTable, PortTable, IdentityTable
<1>2. CASE id \in DOMAIN PlainWrites
  <2>1. u = Set(v, PlainWrites[id], x)
    BY <1>1, <1>2 DEF WriteLbsCfgPara
  <2> QED
    BY <1>2, <2>1, ToldPlainly, PlainWritesTable
<1>3. CASE id \in DOMAIN PortWrites
  <2>1. u = v \/ u = Asking(PortWrites[id], "reconn")
    BY <1>1, <1>3 DEF WriteLbsCfgPara
  <2>2. Told(v, v) /\ Told(v, Asking(PortWrites[id], "reconn"))
    BY ToldItself, ToldAsking
  <2> HIDE DEF u, Asking
  <2> QED
    BY <2>1, <2>2 DEF u
<1>4. CASE id = "eIP"
  <2>1. u = v \/ u = Asking("m_server_ip", "reconn")
    BY <1>1, <1>4 DEF WriteLbsCfgPara
  <2>2. Told(v, v) /\ Told(v, Asking("m_server_ip", "reconn"))
    BY ToldItself, ToldAsking
  <2> HIDE DEF u, Asking
  <2> QED
    BY <2>1, <2>2 DEF u
<1>5. CASE id \in {"ePrivic", "eCity", "eCarid", "eCarclor"}
  <2>1. u = v \/ u = Asking(IdentityWrites[id], "rereg")
    BY <1>1, <1>5 DEF WriteLbsCfgPara
  <2>2. Told(v, v) /\ Told(v, Asking(IdentityWrites[id], "rereg"))
    BY ToldItself, ToldAsking
  <2> HIDE DEF u, Asking
  <2> QED
    BY <2>1, <2>2 DEF u
<1>6. CASE id \notin DOMAIN PlainWrites \cup DOMAIN PortWrites \cup {"eIP", "ePrivic", "eCity", "eCarid", "eCarclor"}
  <2>1. u = v
    BY <1>6 DEF WriteLbsCfgPara
  <2> QED
    BY <2>1, ToldItself
<1> QED
  BY <1>2, <1>3, <1>4, <1>5, <1>6

LEMMA ToldByItem ==
  ASSUME NEW v \in Work, NEW item, item.form = "value" => item.val \in Value,
         item.form \in {"value", "refused", "empty"}
  PROVE  Told(v, ParaConvertandSet(v, item))
<1>1. CASE v.done \/ item.form = "empty"
  <2>1. ParaConvertandSet(v, item) = [v EXCEPT !.done = TRUE]
    BY <1>1 DEF ParaConvertandSet
  <2> QED
    BY <2>1 DEF Told, Work
<1>2. CASE ~(v.done \/ item.form = "empty")
  <2>1. CASE item.form = "refused" \/ item.id \notin DOMAIN Writes \cup NeverWritten
    <3>1. ParaConvertandSet(v, item) = [v EXCEPT !.done = TRUE, !.sta = 1]
      BY <1>2, <2>1 DEF ParaConvertandSet
    <3> QED
      BY <3>1 DEF Told, Work
  <2>2. CASE ~(item.form = "refused" \/ item.id \notin DOMAIN Writes \cup NeverWritten)
    <3> DEFINE u == WriteLbsCfgPara(v, item.id, item.val)
    <3>1. ParaConvertandSet(v, item) = [u EXCEPT !.sta = 0]
      BY <1>2, <2>2 DEF ParaConvertandSet
    <3>2. Told(v, u)
      BY <1>2, <2>2, ToldByWriting
    <3> HIDE DEF u
    <3> QED
      BY <3>1, <3>2 DEF Told, Work
  <2> QED
    BY <2>1, <2>2
<1> QED
  BY <1>1, <1>2

LEMMA ToldThen ==
  ASSUME NEW u, NEW v, NEW w, Told(u, v), Told(v, w)
  PROVE  Told(u, w)
  BY DEF Told

LEMMA MessageItems ==
  ASSUME NEW items \in Messages
  PROVE  /\ Len(items) \in Nat /\ items \in Seq(Items)
         /\ \A i \in 1 .. Len(items) :
               /\ items[i] \in Items
               /\ items[i].form \in {"value", "refused", "empty"}
               /\ items[i].form = "value" => items[i].val \in Value
<1>1. PICK m \in 0 .. MaxItems : items \in [1 .. m -> Items]
  BY DEF Messages, SeqOf
<1>2. m \in Nat
  BY ParamsAssumption
<1>3. items \in Seq(Items) /\ Len(items) = m
  BY <1>1, <1>2
<1>4. ASSUME NEW item \in Items
      PROVE  /\ item.form \in {"value", "refused", "empty"}
             /\ item.form = "value" => item.val \in Value
  BY OfferedValues DEF Items, Item
<1> QED
  BY <1>1, <1>2, <1>3, <1>4

(* The loop over the items of a message. *)
LEMMA TakenTold ==
  ASSUME TypeOK, NEW items \in Messages
  PROVE  Told(Memory, Taken(items))
<1> DEFINE n == Len(items)
           Good == {v \in Work : Told(Memory, v)}
           R == [q \in Nat \X Good |-> IF q[1] \in 1 .. n THEN ParaConvertandSet(q[2], items[q[1]]) ELSE q[2]]
           Loop(f) == f = [i \in 0 .. n |-> IF i = 0 THEN Memory ELSE ParaConvertandSet(f[i - 1], items[i])]
<1>1. n \in Nat
  BY MessageItems
<1>2. Memory \in Good
  BY MemoryWorks, ToldItself
<1>3. ASSUME NEW v \in Good, NEW i \in 1 .. n
      PROVE  ParaConvertandSet(v, items[i]) \in Good
  <2>1. Told(v, ParaConvertandSet(v, items[i]))
    BY MessageItems, ToldByItem
  <2>2. Told(Memory, ParaConvertandSet(v, items[i]))
    BY <2>1, ToldThen
  <2> QED
    BY <2>2 DEF Told
<1> HIDE DEF n, Good
<1>4. R \in [Nat \X Good -> Good]
  BY <1>3
<1>5. PICK g : Iterates(g, R, Memory, n, Good)
  <2> HIDE DEF R
  <2> QED
    BY <1>1, <1>2, <1>4, Iteration
<1>6. Loop(g)
  <2>1. /\ g \in [0 .. n -> Good] /\ g[0] = Memory
        /\ \A i \in 1 .. n : g[i] = R[<<i, g[i - 1]>>]
    BY <1>5 DEF Iterates
  <2>2. ASSUME NEW i \in 1 .. n
        PROVE  g[i] = ParaConvertandSet(g[i - 1], items[i])
    <3>1. i - 1 \in 0 .. n /\ i \in Nat
      BY <1>1
    <3>2. <<i, g[i - 1]>> \in Nat \X Good
      BY <2>1, <3>1
    <3> QED
      BY <2>1, <3>2
  <2> HIDE DEF R
  <2> QED
    BY <1>1, <2>1, <2>2
<1> HIDE DEF R
<1>7. \E f : Loop(f) /\ Taken(items) = f[n]
  BY <1>6 DEF Taken, n
<1>8. PICK f : Loop(f) /\ Taken(items) = f[n]
  BY <1>7
<1>9. f[0] = Memory /\ \A i \in 1 .. n : f[i] = ParaConvertandSet(f[i - 1], items[i])
  BY <1>1, <1>8
<1>10. \A i \in 1 .. n : f[i - 1] \in Good => f[i] \in Good
  BY <1>3, <1>9
<1>11. \A i \in 0 .. n : f[i] \in Good
  <2> HIDE DEF Loop
  <2> QED
    BY <1>1, <1>2, <1>9, <1>10, StaysIn
<1>12. f[n] \in Good
  BY <1>1, <1>11
<1> QED
  BY <1>8, <1>12 DEF Good

-----------------------------------------------------------------------------
(* Saving *)

(* A save writes what the handler works on over the file that is there, or   *)
(* leaves the file and notes it.                                             *)
LEMMA Saving ==
  ASSUME NEW v \in Work, NEW u \in dev_params_save(v)
  PROVE  /\ u \in Work
         /\ u.params = v.params /\ u.devid = v.devid /\ u.paraset = v.paraset
         /\ u.act = v.act /\ u.acts = v.acts
         /\ \/ u.file = v.file /\ u.unsaved = TRUE
            \/ u.file = v.params /\ u.unsaved = FALSE
<1>1. \/ u = [v EXCEPT !.unsaved = TRUE]
      \/ u = [v EXCEPT !.file = v.params, !.unsaved = FALSE]
  BY DEF dev_params_save
<1> QED
  BY <1>1 DEF Work, Files

(* The file of v, and what v has not saved. *)
Recorded(v) == v.file \in Params /\ ~v.unsaved => \A f \in Field \ {"term_id"} : v.file[f] = v.params[f]

-----------------------------------------------------------------------------
(* Messages by SMS *)

(* v is what commands have made of the memory and the file: all saved or     *)
(* noted, no file damaged, and the link asked for where it has to be.        *)
Heard(v) ==
  /\ v \in Work
  /\ Recorded(v)
  /\ v.file = file \/ v.file \in Params
  /\ Server(v.params) # Server(params) => "reconn" \in v.acts
  /\ authcode /\ Identity(v.params) # Identity(params) => v.acts \cap {"reconn", "rereg"} # {}

LEMMA MemoryHeard == TypeOK /\ Persisted => Heard(Memory)
<1> SUFFICES ASSUME TypeOK, Persisted PROVE Heard(Memory)
  OBVIOUS
<1>1. Memory \in Work
  BY MemoryWorks
<1>2. /\ Memory.params = params /\ Memory.file = file /\ Memory.unsaved = unsaved
      /\ Memory.acts = {}
  BY DEF Memory
<1>3. Recorded(Memory)
  BY <1>2, Zenon DEF Persisted, Recorded
<1> QED
  BY <1>1, <1>2, <1>3 DEF Heard

(* u is v before its save: one parameter set, or none. *)
Changed(v, u) ==
  /\ u \in Work
  /\ u.file = v.file /\ u.unsaved = v.unsaved /\ u.acts = v.acts
  /\ u.act = "no_act" => u.params = v.params
  /\ Server(u.params) # Server(v.params) => u.act = "reconn"
  /\ authcode /\ Identity(u.params) # Identity(v.params) => u.act = "rereg"

LEMMA ChangedBySet ==
  ASSUME NEW v \in Work, NEW field \in Field, NEW x \in Value, NEW a \in Acts \ {"no_act"},
         field \in ServerFields => a = "reconn",
         authcode /\ field \in IdentityFields => a = "rereg"
  PROVE  Changed(v, [Set(v, field, x) EXCEPT !.act = a])
<1> DEFINE s == Set(v, field, x)
<1>1. /\ s \in Work /\ s = [v EXCEPT !.params = s.params]
      /\ \A f \in Field : f # field => s.params[f] = v.params[f]
  BY SetOne
<1>2. field \notin ServerFields => Server(s.params) = Server(v.params)
  <2>1. ServerFields \subseteq Field
    BY Fields
  <2> HIDE DEF s
  <2> QED
    BY <1>1, <2>1, SameServer
<1>3. field \notin IdentityFields => Identity(s.params) = Identity(v.params)
  <2>1. IdentityFields \subseteq Field
    BY Fields
  <2> HIDE DEF s
  <2> QED
    BY <1>1, <2>1, SameIdentity
<1> HIDE DEF s
<1> DEFINE u == [s EXCEPT !.act = a]
<1>4. u \in Work
  BY <1>1 DEF Work
<1>5. u.file = v.file /\ u.unsaved = v.unsaved /\ u.acts = v.acts /\ u.act = a /\ u.params = s.params
  BY <1>1 DEF Work
<1> HIDE DEF u
<1>6. Changed(v, u)
  BY <1>2, <1>3, <1>4, <1>5 DEF Changed
<1> QED
  BY <1>6 DEF u, s

LEMMA ChangedByKeyword ==
  ASSUME NEW v \in Work, NEW key \in DOMAIN Keywords, NEW x \in Value
  PROVE  Changed(v, handle_keyword4ms(v, key, x))
<1> DEFINE u == handle_keyword4ms(v, key, x)
           Acting(a) == [Set(v, Keywords[key], x) EXCEPT !.act = a]
<1>1. Keywords[key] \in Field
  BY Fields
<1>2. Changed(v, [v EXCEPT !.act = "no_act"])
  BY DEF Changed, Work, Acts
<1>3. CASE key \in DOMAIN ServerKeywords
  <2>1. /\ key \in {"e_IP", "e_TCPPORT", "e_UDPPORT"}
        /\ key \notin DOMAIN PlainKeywords /\ key \notin DOMAIN IdentityKeywords
    BY <1>3, ServerKeywordsTable, IdentityKeywordsTable, KeywordsApart
  <2>2. /\ Keywords["e_IP"] = "m_server_ip" /\ Keywords["e_TCPPORT"] = "server_tcp_port"
        /\ Keywords["e_UDPPORT"] = "server_udp_port"
    BY ServerKeywordsTable, KeywordsTable
  <2>3. ~PlainChanges(v, key, x) /\ ~IdentityChanges(v, key, x)
    BY <2>1 DEF PlainChanges, IdentityChanges
  <2>4. \/ u = [v EXCEPT !.act = "no_act"]
        \/ key # "e_UDPPORT" /\ u = Acting("reconn")
        \/ key = "e_UDPPORT" /\ u = Acting("para_save")
    <3> HIDE DEF PlainChanges
    <3> QED
      BY <2>1, <2>3 DEF handle_keyword4ms
  <2>5. ASSUME key # "e_UDPPORT"
        PROVE  Changed(v, Acting("reconn"))
    <3>1. Keywords[key] \notin IdentityFields
      BY <2>1, <2>2 DEF IdentityFields
    <3> QED
      BY <1>1, <3>1, ChangedBySet DEF Acts
  <2>6. ASSUME key = "e_UDPPORT"
        PROVE  Changed(v, Acting("para_save"))
    <3>1. Keywords[key] \notin IdentityFields /\ Keywords[key] \notin ServerFields
      BY <2>2, <2>6 DEF IdentityFields, ServerFields
    <3> QED
      BY <1>1, <3>1, ChangedBySet DEF Acts
  <2> HIDE DEF u, Acting
  <2> QED
    BY <1>2, <2>4, <2>5, <2>6 DEF u
<1>4. CASE key \in DOMAIN PlainKeywords
  <2>1. key \notin {"e_IP", "e_TCPPORT", "e_UDPPORT"} /\ key \notin DOMAIN IdentityKeywords
    BY <1>4, ServerKeywordsTable, KeywordsApart
  <2>2. ~IdentityChanges(v, key, x)
    BY <2>1 DEF IdentityChanges
  <2>3. u = [v EXCEPT !.act = "no_act"] \/ u = Acting("para_save")
    BY <2>1, <2>2 DEF handle_keyword4ms
  <2>4. Keywords[key] \notin ServerFields /\ Keywords[key] \notin IdentityFields
    BY <1>4, KeywordsTable, PlainKeywordsTable DEF LinkFields
  <2>5. Changed(v, Acting("para_save"))
    BY <1>1, <2>4, ChangedBySet DEF Acts
  <2> HIDE DEF u, Acting
  <2> QED
    BY <1>2, <2>3, <2>5 DEF u
<1>5. CASE key \in DOMAIN IdentityKeywords
  <2>1. key \notin {"e_IP", "e_TCPPORT", "e_UDPPORT"} /\ key \notin DOMAIN PlainKeywords
    BY <1>5, IdentityKeywordsTable, KeywordsApart
  <2>2. ~PlainChanges(v, key, x)
    BY <2>1 DEF PlainChanges
  <2> DEFINE a == IF authcode THEN "rereg" ELSE "para_save"
  <2>3. u = [v EXCEPT !.act = "no_act"] \/ u = Acting(a)
    BY <2>1, <2>2 DEF handle_keyword4ms
  <2>4. Keywords[key] \notin ServerFields
    BY <1>5, KeywordsTable, IdentityKeywordsTable
  <2>5. a \in Acts \ {"no_act"} /\ (authcode => a = "rereg")
    BY DEF Acts
  <2> HIDE DEF a
  <2>6. Changed(v, Acting(a))
    BY <1>1, <2>4, <2>5, ChangedBySet
  <2> HIDE DEF u, Acting
  <2> QED
    BY <1>2, <2>3, <2>6 DEF u
<1> QED
  BY <1>3, <1>4, <1>5, KeywordsTable

LEMMA HeardByAction ==
  ASSUME NEW v, Heard(v), NEW u, Changed(v, u), NEW w \in dev_action_handle(u)
  PROVE  Heard(w)
<1>1. v \in Work /\ u \in Work
  BY DEF Heard, Changed
<1>2. CASE u.act = "no_act"
  <2>1. w = u
    BY <1>2 DEF dev_action_handle
  <2>2. u.params = v.params /\ u.file = v.file /\ u.unsaved = v.unsaved /\ u.acts = v.acts
    BY <1>2 DEF Changed
  <2>3. Recorded(u)
    BY <2>2, Zenon DEF Heard, Recorded
  <2> QED
    BY <1>1, <2>1, <2>2, <2>3 DEF Heard
<1>3. CASE u.act # "no_act"
  <2>1. PICK t \in dev_params_save(u) : w = [t EXCEPT !.acts = @ \cup {u.act}]
    BY <1>3 DEF dev_action_handle
  <2>2. /\ t \in Work /\ t.params = u.params /\ t.acts = u.acts
        /\ \/ t.file = u.file /\ t.unsaved = TRUE
           \/ t.file = u.params /\ t.unsaved = FALSE
    BY <1>1, Saving
  <2>3. w \in Work
    BY <1>1, <2>1, <2>2 DEF Work
  <2>4. w.params = u.params /\ w.acts = v.acts \cup {u.act} /\ w.file = t.file /\ w.unsaved = t.unsaved
    BY <2>1, <2>2 DEF Work, Changed
  <2>5. Recorded(w)
    BY <2>2, <2>4 DEF Recorded
  <2>6. w.file = file \/ w.file \in Params
    BY <1>1, <2>2, <2>4 DEF Heard, Changed, Work
  <2>7. Server(w.params) # Server(params) => "reconn" \in w.acts
    BY <2>4 DEF Heard, Changed
  <2>8. authcode /\ Identity(w.params) # Identity(params) => w.acts \cap {"reconn", "rereg"} # {}
    BY <2>4 DEF Heard, Changed
  <2> QED
    BY <2>3, <2>5, <2>6, <2>7, <2>8 DEF Heard
<1> QED
  BY <1>2, <1>3

LEMMA BackingUp ==
  ASSUME NEW v \in Work, NEW id \in Value, NEW u \in backup_devid(v, id)
  PROVE  \E d \in Devids : u = [v EXCEPT !.devid = d]
<1>1. v = [v EXCEPT !.devid = v.devid] /\ v.devid \in Devids
  BY DEF Work
<1>2. id \in Devids /\ ShortDevid \in Devids /\ DEVID_INI \in Devids
  BY WholeFiles DEF Devids
<1>3. u = v \/ u \in {[v EXCEPT !.devid = id], [v EXCEPT !.devid = ShortDevid], [v EXCEPT !.devid = DEVID_INI]}
  BY DEF backup_devid
<1> QED
  BY <1>1, <1>2, <1>3

LEMMA ChangedAndBackedUp ==
  ASSUME NEW v, NEW u, Changed(v, u), NEW d \in Devids
  PROVE  Changed(v, [u EXCEPT !.devid = d])
<1> DEFINE w == [u EXCEPT !.devid = d]
<1>1. u \in Work
  BY DEF Changed
<1>2. /\ w \in Work /\ w.params = u.params /\ w.file = u.file /\ w.unsaved = u.unsaved
      /\ w.act = u.act /\ w.acts = u.acts
  BY <1>1 DEF Work
<1> HIDE DEF w
<1>3. Changed(v, w)
  BY <1>2 DEF Changed
<1> QED
  BY <1>3 DEF w

LEMMA HeardByCommand ==
  ASSUME NEW v, Heard(v), NEW command, command.key \in DOMAIN Keywords,
         \A x \in set_enquiry_check(command) : x \in Value,
         NEW w \in Commanded(v, command)
  PROVE  Heard(w)
<1> DEFINE taken == set_enquiry_check(command)
           set == {handle_keyword4ms(v, command.key, x) : x \in taken}
           backed == IF command.key = "e_DEVID"
                     THEN UNION {IF u.act = "no_act" THEN {u} ELSE backup_devid(u, u.params.term_id) : u \in set}
                     ELSE set
<1>1. v \in Work
  BY DEF Heard
<1>2. \A u \in set : Changed(v, u)
  BY <1>1, ChangedByKeyword
<1>3. w = v \/ w \in UNION {dev_action_handle(u) : u \in backed}
  BY Zenon DEF Commanded
<1> HIDE DEF taken, set
<1>4. ASSUME NEW u \in backed
      PROVE  Changed(v, u)
  <2>1. CASE u \in set
    BY <2>1, <1>2
  <2>2. CASE u \notin set
    <3>1. PICK t \in set : u \in IF t.act = "no_act" THEN {t} ELSE backup_devid(t, t.params.term_id)
      BY <2>2
    <3>2. Changed(v, t)
      BY <1>2
    <3>3. t \in Work /\ u \in backup_devid(t, t.params.term_id)
      BY <3>1, <3>2, <2>2 DEF Changed
    <3>4. t.params.term_id \in Value
      BY <3>3, Fields DEF Work, Params
    <3>5. PICK d \in Devids : u = [t EXCEPT !.devid = d]
      BY <3>3, <3>4, BackingUp
    <3> QED
      BY <3>2, <3>5, ChangedAndBackedUp
  <2> QED
    BY <2>1, <2>2
<1> HIDE DEF backed
<1>5. CASE w = v
  BY <1>5
<1>6. CASE w \in UNION {dev_action_handle(u) : u \in backed}
  <2>1. PICK u \in backed : w \in dev_action_handle(u)
    BY <1>6
  <2> QED
    BY <1>4, <2>1, HeardByAction
<1> QED
  BY <1>3, <1>5, <1>6

LEMMA MessageCommands ==
  ASSUME NEW commands \in Commands
  PROVE  /\ Len(commands) \in Nat
         /\ \A i \in 1 .. Len(commands) :
               /\ commands[i].key \in DOMAIN Keywords
               /\ \A x \in set_enquiry_check(commands[i]) : x \in Value
<1> DEFINE C == {[key |-> key, form |-> "value", val |-> x] : key \in Keys, x \in Offered}
                \cup {[key |-> key, form |-> "refused", val |-> 0] : key \in Keys}
<1>1. PICK m \in 0 .. MaxItems : commands \in [1 .. m -> C]
  BY DEF Commands, SeqOf
<1>2. ASSUME NEW c \in C
      PROVE  c.key \in DOMAIN Keywords /\ \A x \in set_enquiry_check(c) : x \in Value
  <2>1. c.key \in DOMAIN Keywords
    BY ParamsAssumption
  <2>2. c.form = "value" => c.val \in Value
    BY OfferedValues
  <2>3. 0 \in Value
    BY Values
  <2> HIDE DEF C
  <2>4. \A x \in set_enquiry_check(c) : x = 0 \/ (c.form = "value" /\ x = c.val)
    <3>1. CASE c.form = "value"
      <4>1. set_enquiry_check(c) = {c.val}
        BY <3>1 DEF set_enquiry_check
      <4> QED
        BY <3>1, <4>1
    <3>2. CASE c.form # "value"
      <4>1. set_enquiry_check(c) = {0} \/ set_enquiry_check(c) = {}
        BY <3>2 DEF set_enquiry_check
      <4> QED
        BY <4>1
    <3> QED
      BY <3>1, <3>2
  <2> QED
    BY <2>1, <2>2, <2>3, <2>4
<1> HIDE DEF C
<1>3. m \in Nat /\ Len(commands) = m
  BY <1>1, ParamsAssumption
<1> QED
  BY <1>1, <1>2, <1>3

(* The loop over the commands of a message, over all the ways they may go. *)
LEMMA ObeyedHeard ==
  ASSUME TypeOK, Persisted, NEW commands \in Commands, NEW v \in Obeyed(commands)
  PROVE  Heard(v)
<1> DEFINE n == Len(commands)
           Good == {w \in Work : Heard(w)}
           After(V, i) == UNION {Commanded(w, commands[i]) : w \in V}
           R == [q \in Nat \X SUBSET Good |-> IF q[1] \in 1 .. n THEN After(q[2], q[1]) ELSE q[2]]
           Loop(f) == f = [i \in 0 .. n |-> IF i = 0 THEN {Memory} ELSE After(f[i - 1], i)]
<1>1. n \in Nat
  BY MessageCommands
<1>2. {Memory} \in SUBSET Good
  BY MemoryHeard, MemoryWorks
<1>3. ASSUME NEW V \in SUBSET Good, NEW i \in 1 .. n
      PROVE  After(V, i) \in SUBSET Good
  <2> SUFFICES ASSUME NEW w \in V, NEW u \in Commanded(w, commands[i])
               PROVE  u \in Good
    BY Zenon
  <2>1. Heard(w)
    OBVIOUS
  <2>2. commands[i].key \in DOMAIN Keywords /\ \A x \in set_enquiry_check(commands[i]) : x \in Value
    BY MessageCommands
  <2>3. Heard(u)
    BY <2>1, <2>2, HeardByCommand
  <2> QED
    BY <2>3 DEF Heard
<1> HIDE DEF n, Good, After
<1>4. R \in [Nat \X SUBSET Good -> SUBSET Good]
  BY <1>3
<1>5. PICK g : Iterates(g, R, {Memory}, n, SUBSET Good)
  <2> HIDE DEF R
  <2> QED
    BY <1>1, <1>2, <1>4, Iteration
<1>6. Loop(g)
  <2>1. /\ g \in [0 .. n -> SUBSET Good] /\ g[0] = {Memory}
        /\ \A i \in 1 .. n : g[i] = R[<<i, g[i - 1]>>]
    BY <1>5 DEF Iterates
  <2>2. ASSUME NEW i \in 1 .. n
        PROVE  g[i] = After(g[i - 1], i)
    <3>1. i - 1 \in 0 .. n /\ i \in Nat
      BY <1>1
    <3>2. <<i, g[i - 1]>> \in Nat \X SUBSET Good
      BY <2>1, <3>1
    <3> QED
      BY <2>1, <3>2
  <2> HIDE DEF R
  <2> QED
    BY <1>1, <2>1, <2>2
<1> HIDE DEF R
<1>7. \E f : Loop(f) /\ Obeyed(commands) = f[n]
  BY <1>6 DEF Obeyed, n, After
<1>8. PICK f : Loop(f) /\ Obeyed(commands) = f[n]
  BY <1>7
<1>9. f[0] = {Memory} /\ \A i \in 1 .. n : f[i] = After(f[i - 1], i)
  <2>1. f = [i \in 0 .. n |-> IF i = 0 THEN {Memory} ELSE After(f[i - 1], i)]
    BY <1>8
  <2>2. f[0] = {Memory}
    BY <1>1, <2>1
  <2>3. ASSUME NEW i \in 1 .. n
        PROVE  f[i] = After(f[i - 1], i)
    <3>1. i \in 0 .. n /\ i # 0
      BY <1>1
    <3> QED
      BY <2>1, <3>1, Zenon
  <2> QED
    BY <2>2, <2>3
<1> DEFINE Sets == SUBSET Good
<1>10. \A i \in 1 .. n : f[i - 1] \in Sets => f[i] \in Sets
  BY <1>3, <1>9
<1>11. \A i \in 0 .. n : f[i] \in Sets
  <2>1. f[0] \in Sets
    BY <1>2, <1>9
  <2> HIDE DEF Loop, Sets
  <2> QED
    BY <1>1, <1>10, <2>1, StaysIn
<1>12. f[n] \in SUBSET Good
  BY <1>1, <1>11
<1> QED
  BY <1>8, <1>12 DEF Good

-----------------------------------------------------------------------------
(* What a step does to memory and file *)

(* A second start with nothing failing finds no short file: the first has    *)
(* deleted it, and nothing between the two leaves one without a failure.      *)
Steady ==
  /\ calm = 2 => file \in Params
  /\ calm = 1 => file # Short

IInv == TypeOK /\ Persisted /\ Steady

(* A message keeps the invariant, whoever it is from. *)
LEMMA MessageKept ==
  ASSUME IInv, NEW v \in Work, Recorded(v), v.file = file \/ v.file \in Params, Keep(v)
  PROVE  /\ params' \in Params /\ file' \in Files /\ devid' \in Devids /\ unsaved' \in BOOLEAN
         /\ sets' \in 0 .. MaxSets /\ calm' \in 0 .. 2
         /\ Persisted' /\ Steady'
<1>1. params' = v.params /\ file' = v.file /\ devid' = v.devid /\ unsaved' = v.unsaved
  BY DEF Keep
<1>2. sets' \in 0 .. MaxSets
  BY ParamsAssumption DEF Keep, IInv, TypeOK
<1>3. calm' \in 0 .. 2 /\ (calm' = 0 \/ calm' = calm)
  BY DEF Keep, IInv, TypeOK
<1>4. Persisted'
  BY <1>1, Zenon DEF Persisted, Recorded
<1>5. Steady'
  BY <1>1, <1>3, WholeFiles DEF Steady, IInv
<1> QED
  BY <1>1, <1>2, <1>3, <1>4, <1>5 DEF Work

(* The link asks for the new server, or for a new registration. *)
Asked ==
  /\ \/ Server(params') = Server(params)
     \/ addr' = Server(params')
     \/ step' = "soc_init" /\ need_reconn'
     \/ step' = "rereg"
  /\ authcode /\ sets' # sets /\ Identity(params') # Identity(params)
       => step' = "rereg" \/ step' \in {"reconn", "soc_init"}

LEMMA PlatformSetsStep ==
  ASSUME IInv, NEW items \in Messages, PlatformSets(items)
  PROVE  IInv' /\ Asked
<1>1. PICK v \in dev_params_save(Taken(items)) :
        /\ Keep(v)
        /\ \/ v.paraset = "none" /\ UNCHANGED <<addr, step, authcode>>
           \/ v.paraset = "reconn" /\ addr' = Server(v.params) /\ step' = "reconn" /\ UNCHANGED authcode
           \/ v.paraset = "rereg" /\ do_rereg /\ UNCHANGED addr
  BY DEF PlatformSets, ServReq_SetParam
<1> DEFINE t == Taken(items)
<1>2. Told(Memory, t)
  BY TakenTold DEF IInv
<1> HIDE DEF t
<1>3. t \in Work /\ t.file = file
  BY <1>2 DEF Told, Memory
<1>4. /\ v \in Work /\ v.params = t.params /\ v.paraset = t.paraset
      /\ \/ v.file = t.file /\ v.unsaved = TRUE
         \/ v.file = t.params /\ v.unsaved = FALSE
  BY <1>1, <1>3, Saving DEF t
<1>5. Recorded(v) /\ (v.file = file \/ v.file \in Params)
  BY <1>3, <1>4 DEF Recorded, Work
<1>6. /\ params' \in Params /\ file' \in Files /\ devid' \in Devids /\ unsaved' \in BOOLEAN
      /\ sets' \in 0 .. MaxSets /\ calm' \in 0 .. 2
      /\ Persisted' /\ Steady'
  BY <1>1, <1>4, <1>5, MessageKept
<1>7. params' = v.params
  BY <1>1 DEF Keep
<1>8. Server(v.params) \in [ip : Value, port : Value]
  BY <1>4, ServerType DEF Work
<1>9. addr \in [ip : Value, port : Value] /\ step \in {"none", "soc_init", "reconn", "rereg"}
  BY DEF IInv, TypeOK
<1>10. addr' \in [ip : Value, port : Value] /\ step' \in {"none", "soc_init", "reconn", "rereg"}
  BY <1>1, <1>8, <1>9 DEF do_rereg
<1>11. need_reconn' \in BOOLEAN /\ authcode' \in BOOLEAN
  BY <1>1, Zenon DEF PlatformSets, do_rereg, IInv, TypeOK
<1>12. TypeOK'
  BY <1>6, <1>10, <1>11 DEF TypeOK, Files, Devids
<1>13. v.paraset = "none" => Server(v.params) = Server(params) /\ Identity(v.params) = Identity(params)
  BY <1>2, <1>4 DEF Told, Memory
<1>14. Asked
  BY <1>1, <1>7, <1>13 DEF Asked, do_rereg
<1> QED
  BY <1>6, <1>12, <1>14 DEF IInv

LEMMA SmsStep ==
  ASSUME IInv, NEW commands \in Commands, oa_app_sms(commands)
  PROVE  IInv' /\ Asked
<1>1. PICK v \in Obeyed(commands) :
        /\ Keep(v)
        /\ \/ /\ "reconn" \in v.acts
              /\ step' = "soc_init" /\ need_reconn' = TRUE
              /\ UNCHANGED authcode
           \/ "reconn" \notin v.acts /\ "rereg" \in v.acts /\ do_rereg /\ UNCHANGED need_reconn
           \/ v.acts \cap {"reconn", "rereg"} = {} /\ UNCHANGED <<step, need_reconn, authcode>>
  BY DEF oa_app_sms
<1>2. Heard(v)
  BY ObeyedHeard DEF IInv
<1>3. /\ params' \in Params /\ file' \in Files /\ devid' \in Devids /\ unsaved' \in BOOLEAN
      /\ sets' \in 0 .. MaxSets /\ calm' \in 0 .. 2
      /\ Persisted' /\ Steady'
  BY <1>1, <1>2, MessageKept DEF Heard
<1>4. params' = v.params
  BY <1>1 DEF Keep
<1>5. addr' \in [ip : Value, port : Value] /\ step' \in {"none", "soc_init", "reconn", "rereg"}
  BY <1>1 DEF oa_app_sms, do_rereg, IInv, TypeOK
<1>6. need_reconn' \in BOOLEAN /\ authcode' \in BOOLEAN
  BY <1>1, Zenon DEF do_rereg, IInv, TypeOK
<1>7. TypeOK'
  BY <1>3, <1>5, <1>6 DEF TypeOK, Files, Devids
<1>8. Asked
  BY <1>1, <1>2, <1>4 DEF Asked, Heard, do_rereg
<1> QED
  BY <1>3, <1>7, <1>8 DEF IInv

(* What a start finds whole it keeps, and what it has reported as well.       *)
LEMMA StartedFrom ==
  ASSUME NEW f \in Files, NEW r \in dev_params_init(f)
  PROVE  /\ r.params \in Params /\ r.file \in Files /\ r.ok \in BOOLEAN
         /\ r.file \in Params => r.file = r.params
         /\ r.ok => r.file # Short
         /\ r.ok /\ f # Short => r.file \in Params
<1>1. CASE f = Missing
  <2>1. \/ r = [params |-> dev_def_params, file |-> dev_def_params, ok |-> TRUE]
        \/ r = [params |-> Zero, file |-> Missing, ok |-> FALSE]
        \/ r = [params |-> Zero, file |-> Short, ok |-> FALSE]
    BY <1>1, WholeFiles DEF dev_params_init
  <2>2. \/ r.params = dev_def_params /\ r.file = dev_def_params /\ r.ok = TRUE
        \/ r.params = Zero /\ r.file \in {Missing, Short} /\ r.ok = FALSE
    BY <2>1
  <2> QED
    BY <2>2, WholeFiles DEF Files
<1>2. CASE f = Short
  <2>1. \/ r = [params |-> Zero, file |-> Missing, ok |-> TRUE]
        \/ r = [params |-> Zero, file |-> Short, ok |-> FALSE]
    BY <1>2, WholeFiles DEF dev_params_init
  <2>2. \/ r.params = Zero /\ r.file = Missing /\ r.ok = TRUE
        \/ r.params = Zero /\ r.file = Short /\ r.ok = FALSE
    BY <2>1
  <2> QED
    BY <1>2, <2>2, WholeFiles DEF Files
<1>3. CASE f \in Params
  <2>1. \/ r = [params |-> f, file |-> f, ok |-> TRUE]
        \/ r = [params |-> Zero, file |-> Missing, ok |-> FALSE]
    BY <1>3, WholeFiles DEF dev_params_init
  <2>2. \/ r.params = f /\ r.file = f /\ r.ok = TRUE
        \/ r.params = Zero /\ r.file = Missing /\ r.ok = FALSE
    BY <2>1
  <2> QED
    BY <1>3, <2>2, WholeFiles DEF Files
<1> QED
  BY <1>1, <1>2, <1>3 DEF Files

LEMMA DevidRestored ==
  ASSUME TypeOK, NEW p \in Params
  PROVE  /\ restore_devid(p) \in Params
         /\ \A f \in Field \ {"term_id"} : restore_devid(p)[f] = p[f]
<1>1. CASE devid \in Value
  <2>1. restore_devid(p) = [p EXCEPT !.term_id = devid]
    BY <1>1 DEF restore_devid
  <2> QED
    BY <1>1, <2>1 DEF Params
<1>2. CASE devid \notin Value
  BY <1>2 DEF restore_devid
<1> QED
  BY <1>1, <1>2

LEMMA StartStep ==
  ASSUME IInv, NEW f \in {file, Missing}, oa_app_main(f), authcode' \in BOOLEAN
  PROVE  IInv' /\ Asked
<1>1. f \in Files /\ (calm = 1 \/ calm = 2 => f # Short)
  BY WholeFiles DEF IInv, TypeOK, Files, Steady
<1>2. PICK r \in dev_params_init(f) :
        /\ params' = restore_devid(r.params)
        /\ file' = r.file
        /\ calm' = IF ~r.ok THEN 0 ELSE IF calm < 2 THEN calm + 1 ELSE 2
  BY DEF oa_app_main
<1>3. /\ r.params \in Params /\ r.file \in Files /\ r.ok \in BOOLEAN
      /\ r.file \in Params => r.file = r.params
      /\ r.ok => r.file # Short
      /\ r.ok /\ f # Short => r.file \in Params
  BY <1>1, StartedFrom
<1>4. /\ params' \in Params
      /\ \A g \in Field \ {"term_id"} : params'[g] = r.params[g]
  BY <1>2, <1>3, DevidRestored DEF IInv
<1>5. calm \in 0 .. 2
  BY DEF IInv, TypeOK
<1>6. calm' \in 0 .. 2 /\ (calm' # 0 => r.ok) /\ (calm' = 2 => calm = 1 \/ calm = 2)
  BY <1>2, <1>5
<1>7. Persisted'
  <2>1. file' \in Params => \A g \in Field \ {"term_id"} : file'[g] = params'[g]
    BY <1>2, <1>3, <1>4, Zenon
  <2> QED
    BY <2>1, Zenon DEF Persisted, Params
<1>8. Steady'
  BY <1>1, <1>2, <1>3, <1>6 DEF Steady, Params
<1>9. addr' = Server(params') /\ addr' \in [ip : Value, port : Value] /\ step' = "none"
  BY <1>4, ServerType DEF oa_app_main
<1>10. need_reconn' \in BOOLEAN /\ unsaved' \in BOOLEAN
  BY Zenon DEF oa_app_main
<1>11. devid' \in Devids /\ sets' \in 0 .. MaxSets /\ sets' = sets
  BY DEF oa_app_main, IInv, TypeOK, Devids
<1>12. TypeOK'
  BY <1>2, <1>3, <1>4, <1>6, <1>9, <1>10, <1>11 DEF TypeOK, Files, Devids
<1>13. Asked
  BY <1>9, <1>11 DEF Asked
<1> QED
  BY <1>7, <1>8, <1>12, <1>13 DEF IInv

(* A factory setting that stops half way. *)
LEMMA StoppedStep ==
  ASSUME IInv, file' \in {file, Missing}, calm' = 0, authcode' \in {authcode, FALSE},
         UNCHANGED <<params, devid, addr, step, need_reconn, unsaved, sets>>
  PROVE  IInv' /\ Asked
<1>1. file' \in Files
  BY DEF IInv, TypeOK, Files
<1>2. need_reconn' \in BOOLEAN /\ authcode' \in BOOLEAN /\ unsaved' \in BOOLEAN
  BY Zenon DEF IInv, TypeOK
<1>3. TypeOK'
  BY <1>1, <1>2 DEF IInv, TypeOK, Files
<1>4. Persisted'
  <2>1. file' = file \/ file' \notin Params
    BY WholeFiles
  <2>2. Field' = Field /\ Params' = Params /\ params' = params /\ unsaved' = unsaved
    BY DEF Params, Value
  <2> QED
    BY <2>1, <2>2 DEF IInv, Persisted
<1>5. Steady'
  BY DEF Steady
<1>6. Asked
  BY DEF Asked
<1> QED
  BY <1>3, <1>4, <1>5, <1>6 DEF IInv

(* The steps that set no parameter and touch no file. *)
LEMMA LinkStep ==
  ASSUME IInv, UNCHANGED <<params, file, devid, unsaved, sets, calm>>,
         addr' \in {addr, Server(params)}, step' \in {"none", "soc_init", "reconn", "rereg"},
         need_reconn' \in {need_reconn}, authcode' \in BOOLEAN
  PROVE  IInv' /\ Asked
<1>1. addr' \in [ip : Value, port : Value]
  BY ServerType DEF IInv, TypeOK
<1>2. need_reconn' \in BOOLEAN /\ authcode' \in BOOLEAN /\ unsaved' \in BOOLEAN
  BY Zenon DEF IInv, TypeOK
<1>3. TypeOK'
  BY <1>1, <1>2 DEF IInv, TypeOK
<1>4. Persisted' /\ Steady'
  BY Zenon DEF IInv, Persisted, Steady
<1>5. Asked
  BY DEF Asked
<1> QED
  BY <1>3, <1>4, <1>5 DEF IInv

LEMMA Steps ==
  ASSUME IInv, Next
  PROVE  IInv' /\ Asked
<1>0. addr' = addr => addr' \in {addr, Server(params)}
  OBVIOUS
<1>1. ASSUME NEW items \in Messages, PlatformSets(items)
      PROVE  IInv' /\ Asked
  BY <1>1, PlatformSetsStep
<1>2. ASSUME NEW commands \in Commands, oa_app_sms(commands)
      PROVE  IInv' /\ Asked
  BY <1>2, SmsStep
<1>3. CASE DeleteAuthcode
  BY <1>3, LinkStep DEF DeleteAuthcode, do_rereg
<1>4. CASE Restart
  <2>1. oa_app_main(file) /\ authcode' \in BOOLEAN
    BY <1>4, Zenon DEF Restart, IInv, TypeOK
  <2> QED
    BY <2>1, StartStep
<1>5. CASE factory_set
  <2>1. CASE oa_app_main(Missing) /\ authcode' = FALSE
    BY <2>1, StartStep
  <2>2. CASE ~(oa_app_main(Missing) /\ authcode' = FALSE)
    <3>1. /\ file' \in {file, Missing} /\ calm' = 0
          /\ authcode' \in {authcode, FALSE}
          /\ UNCHANGED <<params, devid, addr, step, need_reconn, unsaved, sets>>
      BY <1>5, <2>2, Zenon DEF factory_set
    <3> QED
      BY <3>1, StoppedStep
  <2> QED
    BY <2>1, <2>2
<1>6. CASE PlatSocInit
  <2>1. addr' \in {addr, Server(params)} /\ authcode' \in BOOLEAN
    BY <1>6, Zenon DEF PlatSocInit, IInv, TypeOK
  <2> QED
    BY <1>6, <2>1, LinkStep DEF PlatSocInit
<1>7. CASE PlatReconn
  <2>1. authcode' \in BOOLEAN
    BY <1>7, Zenon DEF PlatReconn, IInv, TypeOK
  <2> QED
    BY <1>7, <2>1, LinkStep DEF PlatReconn
<1>8. CASE Registered
  <2>1. step' \in {"none", "soc_init", "reconn", "rereg"} /\ authcode' \in BOOLEAN
    BY <1>8 DEF Registered, IInv, TypeOK
  <2> QED
    BY <1>8, <2>1, LinkStep DEF Registered
<1>9. CASE ConnectionLost
  <2>1. authcode' \in BOOLEAN
    BY <1>9, Zenon DEF ConnectionLost, IInv, TypeOK
  <2> QED
    BY <1>9, <2>1, LinkStep DEF ConnectionLost
<1> QED
  BY <1>1, <1>2, <1>3, <1>4, <1>5, <1>6, <1>7, <1>8, <1>9 DEF Next

-----------------------------------------------------------------------------
(* Set and asked for *)

(* The i-th value of the answer is that of its own identifier where that can *)
(* be read.                                                                  *)
LEMMA ReadIsItsOwn ==
  ASSUME NEW i \in DOMAIN Answers, Answers[i] \in DOMAIN Reads
  PROVE  LastRead[i] = Answers[i]
<1> DEFINE Members(q, n) == {q[j] : j \in 1 .. n}
           S == Members(FirstAnswers, 15) \cup Members(ReportAnswers, 14)
                \cup Members(AlarmAnswers, 16) \cup Members(LastAnswers, 10)
<1>1. Answers \in Seq(S)
  <2>1. FirstAnswers \in Seq(Members(FirstAnswers, 15))
    BY DEF FirstAnswers
  <2>2. ReportAnswers \in Seq(Members(ReportAnswers, 14))
    BY DEF ReportAnswers
  <2>3. AlarmAnswers \in Seq(Members(AlarmAnswers, 16))
    BY DEF AlarmAnswers
  <2>4. LastAnswers \in Seq(Members(LastAnswers, 10))
    BY DEF LastAnswers
  <2> HIDE DEF Members
  <2>5. /\ FirstAnswers \in Seq(S) /\ ReportAnswers \in Seq(S)
        /\ AlarmAnswers \in Seq(S) /\ LastAnswers \in Seq(S)
    BY <2>1, <2>2, <2>3, <2>4
  <2> HIDE DEF S
  <2> QED
    BY <2>5 DEF Answers
<1> HIDE DEF S
<1>2. i \in Nat /\ i \in 1 .. i
  BY <1>1
<1> DEFINE readable == {j \in 1 .. i : Answers[j] \in DOMAIN Reads}
<1>3. /\ i \in readable
      /\ \A j \in readable : j \in Nat /\ i >= j
  BY <1>2
<1>4. \A m \in readable : (\A j \in readable : m >= j) => m = i
  BY <1>2, <1>3
<1> HIDE DEF readable
<1>5. Max(readable) = i
  BY <1>3, <1>4 DEF Max
<1> QED
  BY <1>5 DEF LastRead, readable

LEMMA PlatformReadsWhatItSet == TypeOK => SetThenRead
<1> SUFFICES ASSUME TypeOK,
                    NEW id \in DOMAIN Reads \ (NeverWritten \cup {"eOverspeedtime"}), NEW x \in Offered,
                    ~(id \in DOMAIN PortWrites /\ x = addr.port),
                    ~(id \in {"ePrivic", "eCity"} /\ Swap(x) = params.vehicle_province_id)
             PROVE  LET v == ParaConvertandSet(Memory, Item(id, x))
                        body == get_dev_param_rsp_buildbody(v.params)
                    IN  v.sta = 0 /\ \A i \in DOMAIN Answers : Answers[i] = id => body[i] = x
  BY Zenon DEF SetThenRead
<1> DEFINE u == WriteLbsCfgPara(Memory, id, x)
           v == ParaConvertandSet(Memory, Item(id, x))
<1>1. id \in DOMAIN Writes /\ Writes[id] = Reads[id] /\ Reads[id] \in Field /\ id # "eImagClor"
  BY ReadsTable, Fields
<1>2. Memory \in Work /\ x \in Value /\ Memory.params = params
  BY MemoryWorks, OfferedValues DEF Memory
<1>3. u \in Work
  BY <1>2, ToldByWriting DEF Told
<1>4. v = [u EXCEPT !.sta = 0]
  BY <1>1 DEF ParaConvertandSet, Item, Memory
<1>5. u.params[Reads[id]] = x
  <2> DEFINE Asking(field, request) == [Set(Memory, field, x) EXCEPT !.paraset = request]
  <2>1. /\ DOMAIN PlainWrites \cap (DOMAIN PortWrites \cup {"eIP", "ePrivic", "eCity", "eCarid", "eCarclor"}) = {}
        /\ DOMAIN PortWrites = {"eTcpPort", "eUdpPort"}
        /\ DOMAIN IdentityWrites = {"ePrivic", "eCity", "eCarid", "eCarclor"}
    BY WritesTable, PortTable, IdentityTable
  <2>2. ASSUME NEW field \in Field, NEW request
        PROVE  Set(Memory, field, x).params[field] = x /\ Asking(field, request).params[field] = x
    <3> DEFINE s == Set(Memory, field, x)
    <3>1. s \in Work /\ s.params[field] = x
      BY <1>2, SetOne
    <3> HIDE DEF s
    <3>2. [s EXCEPT !.paraset = request].params = s.params
      BY <3>1 DEF Work
    <3> QED
      BY <3>1, <3>2 DEF s
  <2>3. CASE id \in DOMAIN PlainWrites
    <3>1. u = Set(Memory, PlainWrites[id], x)
      BY <2>1, <2>3 DEF WriteLbsCfgPara
    <3>2. PlainWrites[id] = Reads[id]
      BY <1>1, <2>3, WritesTable
    <3> QED
      BY <1>1, <2>2, <3>1, <3>2
  <2>4. CASE id \in DOMAIN PortWrites
    <3>1. PortWrites[id] = Reads[id] /\ x # addr.port
      BY <1>1, <2>4, WritesTable
    <3>2. (u = Memory /\ x = params[Reads[id]]) \/ u = Asking(Reads[id], "reconn")
      BY <1>2, <2>1, <2>4, <3>1 DEF WriteLbsCfgPara
    <3> QED
      BY <1>1, <1>2, <2>2, <3>2
  <2>5. CASE id = "eIP"
    <3>1. Reads[id] = "m_server_ip"
      BY <1>1, <2>5, WritesTable
    <3>2. (u = Memory /\ x = params[Reads[id]]) \/ u = Asking(Reads[id], "reconn")
      BY <1>2, <2>1, <2>5, <3>1 DEF WriteLbsCfgPara
    <3> QED
      BY <1>1, <1>2, <2>2, <3>2
  <2>6. CASE id \in {"ePrivic", "eCity"}
    <3>1. IdentityWrites[id] = Reads[id] /\ Swap(x) # params.vehicle_province_id
      BY <1>1, <2>1, <2>6, WritesTable
    <3>2. u = Asking(Reads[id], "rereg")
      BY <1>2, <2>1, <2>6, <3>1 DEF WriteLbsCfgPara
    <3> QED
      BY <1>1, <2>2, <3>2
  <2>7. CASE id \in {"eCarid", "eCarclor"}
    <3>1. IdentityWrites[id] = Reads[id]
      BY <1>1, <2>1, <2>7, WritesTable
    <3>2. (u = Memory /\ x = params[Reads[id]]) \/ u = Asking(Reads[id], "rereg")
      BY <1>2, <2>1, <2>7, <3>1 DEF WriteLbsCfgPara
    <3> QED
      BY <1>1, <1>2, <2>2, <3>2
  <2>8. id \in DOMAIN PlainWrites \cup DOMAIN PortWrites \cup {"eIP", "ePrivic", "eCity", "eCarid", "eCarclor"}
    BY <1>1, <2>1, WritesTable
  <2> HIDE DEF u
  <2> QED
    BY <2>3, <2>4, <2>5, <2>6, <2>7, <2>8
<1> HIDE DEF u
<1>6. v.sta = 0 /\ v.params = u.params
  BY <1>3, <1>4 DEF Work
<1> HIDE DEF v
<1>7. ASSUME NEW i \in DOMAIN Answers, Answers[i] = id
      PROVE  get_dev_param_rsp_buildbody(v.params)[i] = x
  <2>1. LastRead[i] = id
    BY <1>7, ReadIsItsOwn
  <2> QED
    BY <1>1, <1>5, <1>6, <1>7, <2>1 DEF get_dev_param_rsp_buildbody, ReadLbsCfgPara
<1> QED
  BY <1>6, <1>7 DEF v

LEMMA SenderIsShownWhatHeSet == TypeOK => SetThenShown
<1> SUFFICES ASSUME TypeOK, NEW key \in DOMAIN Keywords, NEW x \in Offered,
                    ~(key \in {"e_TCPPORT", "e_UDPPORT"} /\ x = addr.port),
                    ~(key = "e_IP" /\ x = addr.ip)
             PROVE  handle_keyword4ms(Memory, key, x).params[Shown[key]] = x
  BY Zenon DEF SetThenShown
<1> DEFINE u == handle_keyword4ms(Memory, key, x)
           s == Set(Memory, Keywords[key], x)
<1>1. Shown[key] = Keywords[key] /\ Keywords[key] \in Field
  BY KeywordsTable, Fields
<1>2. Memory \in Work /\ x \in Value /\ Memory.params = params
  BY MemoryWorks, OfferedValues DEF Memory
<1>3. s \in Work /\ s.params[Keywords[key]] = x
  BY <1>1, <1>2, SetOne
<1> HIDE DEF s
<1>4. \/ \E a \in Acts : u = [s EXCEPT !.act = a]
      \/ u = [Memory EXCEPT !.act = "no_act"] /\ params[Keywords[key]] = x
  <2>1. CASE key \in {"e_IP", "e_TCPPORT", "e_UDPPORT"}
    <3>1. ~PlainChanges(Memory, key, x) /\ ~IdentityChanges(Memory, key, x)
      BY <2>1, ServerKeywordsTable, IdentityKeywordsTable, KeywordsApart DEF PlainChanges, IdentityChanges
    <3>2. u = [s EXCEPT !.act = "reconn"] \/ u = [s EXCEPT !.act = "para_save"]
      <4> HIDE DEF PlainChanges
      <4> QED
        BY <2>1, <3>1 DEF handle_keyword4ms, s
    <3> QED
      BY <3>2 DEF Acts
  <2>2. CASE key \notin {"e_IP", "e_TCPPORT", "e_UDPPORT"}
    <3>1. ~PlainChanges(Memory, key, x) /\ ~IdentityChanges(Memory, key, x) => params[Keywords[key]] = x
      BY <1>2, <2>2, KeywordsTable, ServerKeywordsTable DEF PlainChanges, IdentityChanges
    <3>2. PlainChanges(Memory, key, x) => ~IdentityChanges(Memory, key, x)
      BY KeywordsApart DEF PlainChanges, IdentityChanges
    <3>3. \/ u = [s EXCEPT !.act = "para_save"]
          \/ u = [s EXCEPT !.act = IF authcode THEN "rereg" ELSE "para_save"]
          \/ u = [Memory EXCEPT !.act = "no_act"] /\ params[Keywords[key]] = x
      BY <2>2, <3>1, <3>2 DEF handle_keyword4ms, s
    <3> QED
      BY <3>3 DEF Acts
  <2> QED
    BY <2>1, <2>2
<1> HIDE DEF u
<1>5. u.params[Keywords[key]] = x
  BY <1>2, <1>3, <1>4 DEF Work
<1> QED
  BY <1>1, <1>5 DEF u

-----------------------------------------------------------------------------
(* The theorems *)

LEMMA Start == Init => IInv
<1> SUFFICES ASSUME Init PROVE IInv
  OBVIOUS
<1>1. params \in Params /\ file \in Params /\ params = file
  BY WholeFiles DEF Init
<1>2. addr \in [ip : Value, port : Value]
  BY WholeFiles, ServerType DEF Init
<1>3. need_reconn \in BOOLEAN /\ authcode \in BOOLEAN /\ unsaved \in BOOLEAN
  BY Zenon DEF Init
<1>4. TypeOK
  BY <1>1, <1>2, <1>3, ParamsAssumption DEF Init, TypeOK
<1>5. Persisted /\ Steady
  BY <1>1, WholeFiles DEF Init, Persisted, Steady
<1> QED
  BY <1>4, <1>5 DEF IInv

LEMMA Stutter ==
  ASSUME IInv, UNCHANGED vars
  PROVE  IInv'
<1>1. UNCHANGED <<params, file, devid, addr, step, need_reconn, authcode, unsaved, sets, calm>>
  BY DEF vars, link
<1>2. TypeOK'
  BY <1>1, Zenon DEF IInv, TypeOK, Params, Field, Value, Missing, Short, NoDevid, ShortDevid
<1>3. Persisted' /\ Steady'
  BY <1>1, Zenon DEF IInv, Persisted, Steady, Params, Field, Value, Short
<1> QED
  BY <1>2, <1>3 DEF IInv

LEMMA Inductive == Spec => []IInv
<1>1. Init => IInv
  BY Start
<1>2. IInv /\ [Next]_vars => IInv'
  BY Steps, Stutter
<1> QED
  BY <1>1, <1>2, PTL DEF Spec

(* Memory and file agree unless a write has failed since, whatever was set,  *)
(* refused or set twice by whom; and however the file was damaged, the       *)
(* second start with nothing failing has a whole one (dev_params_save,       *)
(* dev_params_init).                                                         *)
THEOREM SavedOrNoted == Spec => []ParamsInv
<1>1. IInv => ParamsInv
  BY DEF IInv, ParamsInv, Steady, StartsRecover
<1> QED
  BY <1>1, Inductive, PTL

(* What the platform or an SMS has set is what the answer to a query tells,  *)
(* in every state, the exceptions of the code named (WriteLbsCfgPara and     *)
(* ReadLbsCfgPara, handle_keyword4ms and handle_common4ms).                  *)
THEOREM WhatIsSetIsAnswered == Spec => []SetThenAnswered
<1>1. IInv => SetThenAnswered
  BY PlatformReadsWhatItSet, SenderIsShownWhatHeSet DEF IInv, SetThenAnswered
<1> QED
  BY <1>1, Inductive, PTL

(* A new server is never forgotten, however many parameters of however many  *)
(* messages have changed it (plat_paraset, act_kind).                        *)
THEOREM NewServerIsReached == Spec => ServerReached
<1>1. IInv /\ [Next]_vars =>
        [\/ Server(params') = Server(params)
         \/ addr' = Server(params')
         \/ step' = "soc_init" /\ need_reconn'
         \/ step' = "rereg"]_vars
  BY Steps DEF Asked
<1> QED
  BY <1>1, Inductive, PTL DEF Spec, ServerReached

(* A message that changes what the vehicle is registered as has it register  *)
(* anew, or asks for another server (do_rereg).                              *)
THEOREM ChangedIdentityRegisters == Spec => IdentityRegistered
<1>1. IInv /\ [Next]_vars =>
        [authcode /\ sets' # sets /\ Identity(params') # Identity(params)
         => step' = "rereg" \/ step' \in {"reconn", "soc_init"}]_vars
  BY Steps DEF Asked
<1> QED
  BY <1>1, Inductive, PTL DEF Spec, IdentityRegistered
=============================================================================
