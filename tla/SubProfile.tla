----------------------------- MODULE SubProfile -----------------------------
(***************************************************************************)
(* services/subscription.py: what a client is given under its token - the   *)
(* sing-box profile, the Clash profile with its groups, proxy-providers and *)
(* telemetry, the provider lists - and where the profile's rules send a     *)
(* packet.  A client loads a profile once a day; the providers of a loaded  *)
(* Clash profile are refreshed every few minutes, so the two may be of      *)
(* different days.  A server is named by its protocol, the reserve by "de". *)
(*                                                                         *)
(* RouteRulesQuicHome is RouteRules with a bug in it: see "mutants" in     *)
(* PROJECT.json.                                                           *)
(***************************************************************************)
EXTENDS Naturals, Sequences, SequencesExt, Sublists

CONSTANTS StoredOrders,      \* cascade orders the server may come to
          Demotions,   \* sets of protocols DPIMonitor may demote
          Configured   \* protocols whose builder yields a server on this deployment

Builders == {"reality", "hy2", "hy2t", "ws", "stls"}   \* _outbound_builders: no xhttp

\* An order is what get_cascade_order returns: no protocol twice (Cascade!NothingLost).
ASSUME ProfileConstants ==
  /\ Configured \subseteq Builders
  /\ StoredOrders \subseteq Seq(STRING) /\ \A s \in StoredOrders : IsInjective(s)

VARIABLES who,     \* the user and the deployment: [payer, en, reserve, base, mirrors]
          offer,   \* what the server would answer now: [order, demoted]
          held,    \* the offer the client's profile was made of
          fed      \* what its providers delivered last: a sequence of servers

profileVars == <<who, offer, held, fed>>

-----------------------------------------------------------------------------
(* The servers of a profile, and those that carry call media.              *)

Reserve(w) == IF w.payer /\ w.reserve THEN <<"de">> ELSE <<>>
Servers(w, o) == Keep(o.order, Configured) \o Reserve(w)

UdpNative == {"reality", "hy2", "hy2t", "de"}
CallServers(w, o) ==
  LET udp == ToSet(Servers(w, o)) \intersect UdpNative
      hy2 == udp \intersect {"hy2", "hy2t"}
  IN IF hy2 # {} THEN hy2 ELSE udp

\* _clash_excluded: nothing, when no server of the cascade would be left.
Excluded(w, o) ==
  LET demoted == ToSet(Servers(w, o)) \intersect o.demoted
  IN IF ToSet(Servers(w, o)) \ demoted \subseteq {"de"} THEN {} ELSE demoted

\* The groups Cascade and Auto of a profile made of h, fed with the provider lists.
Kept(w, h) == Drop(Servers(w, h), Excluded(w, h))
HasProviders(w, h) == Servers(w, h) # <<>> /\ (w.base \/ w.mirrors > 0)
CascadeGroup(w, h, list) ==
  ToSet(Kept(w, h)) \union
  (IF HasProviders(w, h) THEN ToSet(list) \ Excluded(w, h) ELSE {})

\* clash-proxies, with &only= one protocol; the reserve goes under "de".
ProviderList(w, o, only) == Keep(Servers(w, o), {only})

\* telemetry_protocols and probe_groups: from the deployment alone.
TelemetryProtocols(w) == Configured \union (IF w.reserve THEN {"de"} ELSE {})
ProbeGroups(w) ==
  {<<"emergency">>} \union {<<"mirror", n>> : n \in 1 .. w.mirrors}
    \union {<<"p", p>> : p \in TelemetryProtocols(w)}

\* What a loaded profile health-checks on /probe.
Probed(w, h) ==
  IF ~w.base \/ Servers(w, h) = <<>> THEN {}
  ELSE {<<"emergency">>} \union {<<"mirror", n>> : n \in 1 .. w.mirrors}
         \union {<<"p", p>> : p \in ToSet(Servers(w, h)) \intersect TelemetryProtocols(w)}

-----------------------------------------------------------------------------
(* The rules. A packet: over UDP, to port 443, to a site that the built-in   *)
(* databases know (zone) and the operator's lists name (listed; "direct-ip"  *)
(* by its address), while the client is in a mode. The first rule that       *)
(* matches decides.                                                          *)

Zones == {{}, {"ru"}, {"telegram"}, {"always"}, {"always", "ru"}, {"max", "ru"}}
Packet == [udp : BOOLEAN, https : BOOLEAN, zone : Zones,
           listed : SUBSET {"vpn", "direct", "direct-ip"}, mode : {"Rule", "Direct", "Global"}]

Rule(test, out) == [test |-> test, out |-> out]
Matches(test, p) ==
  \/ test = "any"
  \/ test = "udp" /\ p.udp
  \/ test = "ru-quic" /\ p.udp /\ p.https /\ "ru" \in p.zone
  \/ test = "ru-tcp" /\ ~p.udp /\ "ru" \in p.zone
  \/ test = "list-quic" /\ p.udp /\ p.https /\ "direct" \in p.listed
  \/ test = "list-vpn" /\ "vpn" \in p.listed
  \/ test = "list-direct" /\ p.listed \intersect {"direct", "direct-ip"} # {}
  \/ test \in {"Direct", "Global"} /\ p.mode = test
  \/ test \in p.zone
Decision(rules, p) ==
  LET first == CHOOSE i \in DOMAIN rules :
                 Matches(rules[i].test, p) /\ \A j \in 1 .. i - 1 : ~Matches(rules[j].test, p)
  IN rules[first].out

\* The same site over QUIC.
OverHttp3(p) == [p EXCEPT !.udp = TRUE, !.https = TRUE]

\* _build_route_rules. Users with lang 'en' have an exit in Russia.
UdpOut(w, o) == IF CallServers(w, o) = {} THEN "proxy" ELSE "calls"
RouteRulesQuicHome(w, o) ==
  << Rule("Direct", "direct"), Rule("ru-quic", "direct"),
     Rule("udp", UdpOut(w, o)), Rule("telegram", "proxy"), Rule("Global", "proxy"),
     Rule("max", "direct") >>
  \o (IF w.en THEN <<Rule("ru", "ru-exit"), Rule("always", "proxy")>>
      ELSE <<Rule("always", "proxy"), Rule("ru-tcp", "direct")>>)
  \o <<Rule("any", "proxy")>>
RouteRules(w, o) ==
  << Rule("Direct", "direct"),
     Rule("ru-quic", IF w.en THEN "ru-exit" ELSE "direct"),
     Rule("udp", UdpOut(w, o)), Rule("telegram", "proxy"), Rule("Global", "proxy"),
     Rule("max", "direct") >>
  \o (IF w.en THEN <<Rule("ru", "ru-exit"), Rule("always", "proxy")>>
      ELSE <<Rule("always", "proxy"), Rule("ru-tcp", "direct")>>)
  \o <<Rule("any", "proxy")>>

\* _clash_rules. The operator's lists stand before the databases they overrule; a server
\* that does not know its public address has none of them.
ClashRules(w, o) ==
  IF w.base
  THEN << Rule("ru-quic", "direct"), Rule("list-quic", "direct"), Rule("udp", UdpOut(w, o)),
          Rule("telegram", "proxy"), Rule("max", "direct"), Rule("list-vpn", "proxy"),
          Rule("always", "proxy"), Rule("list-direct", "direct"), Rule("ru", "direct"),
          Rule("any", "proxy") >>
  ELSE << Rule("ru-quic", "direct"), Rule("udp", UdpOut(w, o)), Rule("telegram", "proxy"),
          Rule("max", "direct"), Rule("always", "proxy"), Rule("ru", "direct"), Rule("any", "proxy") >>

-----------------------------------------------------------------------------
Offers == [order : StoredOrders, demoted : Demotions]

ProfileInit ==
  /\ who \in [payer : BOOLEAN, en : BOOLEAN, reserve : BOOLEAN, base : BOOLEAN, mirrors : 0 .. 1]
  /\ offer \in Offers /\ held = offer /\ fed = Servers(who, offer)

\* The operator reorders or disables, the monitor demotes.
OfferMoves(o) == offer' = o /\ UNCHANGED <<who, held, fed>>

\* build_clash_config on a profile fetch, its providers loaded with it.
ProfileLoaded == held' = offer /\ fed' = Servers(who, offer) /\ UNCHANGED <<who, offer>>

\* build_clash_proxies for a provider of the profile held.
ProvidersRefreshed ==
  /\ HasProviders(who, held)
  /\ fed' = Servers(who, offer) /\ UNCHANGED <<who, offer, held>>

ProfileNext == (\E o \in Offers : OfferMoves(o)) \/ ProfileLoaded \/ ProvidersRefreshed
ProfileSpec == ProfileInit /\ [][ProfileNext]_profileVars

-----------------------------------------------------------------------------
ProfileTypeOK ==
  /\ offer \in Offers /\ held \in Offers
  /\ ToSet(fed) \subseteq Configured \union {"de"}
  /\ \A i, j \in DOMAIN fed : fed[i] = fed[j] => i = j

\* Call media, and UDP in general except the QUIC of Russian sites and of those the operator
\* sends out directly, goes to servers that carry UDP whenever the profile has one, whatever
\* server the user picked by hand (subscription.py:1497-1506).
CallsCarried ==
  LET route == RouteRules(who, held)
      clash == ClashRules(who, held)
  IN CallServers(who, held) # {} =>
       \A p \in Packet : (p.udp /\ ~("ru" \in p.zone /\ p.https)) =>
         /\ p.mode # "Direct" => Decision(route, p) = "calls"
         /\ (p.mode = "Rule" /\ ~(p.https /\ "direct" \in p.listed))
              => Decision(clash, p) = "calls"

\* A Russian site sees one country, over TCP and over QUIC (subscription.py:1471-1474).
OneCountry ==
  LET route == RouteRules(who, held)
  IN \A p \in Packet : (p.zone = {"ru"} /\ p.mode = "Rule" /\ ~p.udp)
       => Decision(route, p) = Decision(route, OverHttp3(p))

\* For a Russian-speaking user both profiles decide alike what no list of the operator
\* names; the lists are in the Clash profile only (subscription.py:1069-1074, 1211-1216,
\* rule_lists.py:13-15).
ClashAgrees ==
  LET route == RouteRules(who, held)
      clash == ClashRules(who, held)
  IN ~who.en => \A p \in Packet : (p.mode = "Rule" /\ (p.listed = {} \/ ~who.base))
                  => Decision(clash, p) = Decision(route, p)

\* Over TCP the operator's lists beat the databases behind them, and a VPN list beats a
\* DIRECT one (subscription.py:1217-1221, rule_lists.py:22-24).
ListsPrevail ==
  LET clash == ClashRules(who, held)
  IN who.base => \A p \in Packet :
       (p.mode = "Rule" /\ ~p.udp /\ p.zone \intersect {"telegram", "max"} = {})
         => /\ "vpn" \in p.listed => Decision(clash, p) = "proxy"
            /\ (p.listed # {} /\ "vpn" \notin p.listed /\ "always" \notin p.zone)
                 => Decision(clash, p) = "direct"

\* A site that Clash reaches directly over TCP, by its name, does not see its HTTP/3 arrive
\* from the exit (rule_lists.py:589-592).
QuicFollows ==
  LET clash == ClashRules(who, held)
  IN \A p \in Packet : (p.mode = "Rule" /\ ~p.udp /\ "direct-ip" \notin p.listed)
       => (Decision(clash, p) = "direct" => Decision(clash, OverHttp3(p)) = "direct")

\* A demotion costs latency, never connectivity: at the fetch, Cascade holds a server of
\* the cascade if there is one, and only servers still offered (subscription.py:1044-1059).
DemotionLeavesServers ==
  \A o \in Offers :
    LET cascade == ToSet(Servers(who, o)) \ {"de"}
    IN cascade # {} => ToSet(Kept(who, o)) \intersect cascade # {}

\* Every server of a profile is watched on a /probe path the endpoint knows, by a
\* provider that delivers that server alone (subscription.py:876-921, 1006-1041).
EveryServerWatched ==
  who.base =>
    /\ Probed(who, held) \subseteq ProbeGroups(who)
    /\ \A p \in ToSet(Servers(who, held)) :
         <<"p", p>> \in Probed(who, held) /\ ProviderList(who, held, p) = <<p>>

\* NOT TRUE of the code: what must be proxied "even if they're geo-resolved to a Russian
\* PoP" (subscription.py:1334-1336) goes out directly when it is QUIC.
AlwaysTunnels ==
  \A p \in Packet : ("always" \in p.zone /\ p.mode = "Rule")
     => Decision(RouteRules(who, held), p) \in {"proxy", "calls"}

\* NOT TRUE of the code: the profile's exclude-filter outlives the demotion. With every
\* other protocol switched off since, Cascade has no server left that is offered.
NeverStranded ==
  (HasProviders(who, held) /\ ToSet(fed) # {} /\ fed = Servers(who, offer))
    => CascadeGroup(who, held, fed) \intersect ToSet(fed) # {}

\* NOT TRUE of the code: "same servers, rules and DNS policy as build_singbox_config"
\* (subscription.py:1069); the Clash profile has no exit in Russia for lang 'en'.
ClashAgreesForAll ==
  \A p \in Packet : p.mode = "Rule" =>
     Decision(ClashRules(who, held), p) = Decision(RouteRules(who, held), p)

\* NOT TRUE of the code: "a VPN list beats a DIRECT one" (subscription.py:1220-1221); a site
\* in both goes out directly when it is QUIC.
VpnListBeatsDirect ==
  who.base => \A p \in Packet :
    (p.mode = "Rule" /\ {"vpn", "direct"} \subseteq p.listed)
      => Decision(ClashRules(who, held), p) # "direct"

\* What a profile promises.
ProfileHolds ==
  /\ ProfileTypeOK /\ CallsCarried /\ OneCountry /\ ClashAgrees
  /\ ListsPrevail /\ QuicFollows
  /\ DemotionLeavesServers /\ EveryServerWatched
=============================================================================
