-------------------------- MODULE AlertRoutingProofs --------------------------
(***************************************************************************)
(* Proofs about the configurations the operator builds, for every input,   *)
(* and about what becomes of alerts under them, for every alert.           *)
(***************************************************************************)
EXTENDS AlertRouting, TLAPS, WellFoundedInduction

--------------------------------------------------------------------------------
(* Sequences. *)

\* An element of s \o t is an element of s or one of t, at its place.
LEMMA ConcatParts ==
    ASSUME NEW S, NEW s \in Seq(S), NEW t \in Seq(S)
    PROVE  /\ s \o t \in Seq(S)
           /\ Len(s \o t) = Len(s) + Len(t)
           /\ \A i \in DOMAIN s : i \in DOMAIN (s \o t) /\ (s \o t)[i] = s[i]
           /\ \A i \in DOMAIN t : Len(s) + i \in DOMAIN (s \o t) /\ (s \o t)[Len(s) + i] = t[i]
           /\ \A i \in DOMAIN (s \o t) :
                 \/ i \in DOMAIN s /\ (s \o t)[i] = s[i]
                 \/ i - Len(s) \in DOMAIN t /\ (s \o t)[i] = t[i - Len(s)]
OBVIOUS

\* A set of naturals has a least element.
LEMMA LeastElement ==
    ASSUME NEW T, T \subseteq Nat, T # {}
    PROVE  \E least \in T : \A m \in T : least <= m
<1> DEFINE R == OpToRel(<, Nat)
<1>1. IsWellFoundedOn(R, Nat) BY Zenon, NatLessThanWellFounded
<1>2. \A n, m \in Nat : m < n => <<m, n>> \in R BY DEF OpToRel
<1> HIDE DEF R
<1>3. PICK least \in T : \A m \in T : ~(<<m, least>> \in R) BY Zenon, <1>1, WFMin
<1>4. ASSUME NEW m \in T PROVE least <= m
  <2>1. least \in Nat /\ m \in Nat OBVIOUS
  <2>2. ~(m < least) BY Zenon, <1>2, <1>3, <2>1
  <2> QED BY <2>1, <2>2
<1> QED BY <1>4

--------------------------------------------------------------------------------
(***************************************************************************)
(* The routes below the root: six candidates in a fixed order, of which    *)
(* some are left out.  A chain comes with the numbers of its candidates,   *)
(* which increase along it.                                                *)
(***************************************************************************)

Numbers(chain, source, candidate, present, n) ==
    /\ source \in [DOMAIN chain -> 1 .. n]
    /\ \A i \in DOMAIN chain : source[i] \in present /\ chain[i] = candidate[source[i]]
    /\ \A i, j \in DOMAIN chain : i < j => source[i] < source[j]
    /\ \A m \in 1 .. n : m \in present => \E i \in DOMAIN chain : source[i] = m

\* The next candidate is put at the end, if it is there at all.
LEMMA ChainGrows ==
    ASSUME NEW S, NEW n \in Nat, NEW candidate, NEW present, candidate[n + 1] \in S,
           NEW chain \in Seq(S), NEW source, Numbers(chain, source, candidate, present, n),
           NEW next, next = IF n + 1 \in present THEN <<candidate[n + 1]>> ELSE << >>
    PROVE  /\ chain \o next \in Seq(S)
           /\ \E longer : Numbers(chain \o next, longer, candidate, present, n + 1)
<1>1. CASE n + 1 \notin present
  <2>1. chain \o next = chain BY <1>1
  <2>2. source \in [DOMAIN chain -> 1 .. n + 1]
    BY DEF Numbers
  <2>3. Numbers(chain, source, candidate, present, n + 1)
    BY <1>1, <2>2 DEF Numbers
  <2> QED BY <2>1, <2>3
<1>2. CASE n + 1 \in present
  <2> DEFINE longer == [i \in DOMAIN (chain \o next) |->
                           IF i \in DOMAIN chain THEN source[i] ELSE n + 1]
  <2>1. next = <<candidate[n + 1]>> /\ next \in Seq(S) /\ Len(next) = 1
    BY <1>2
  <2>2. /\ chain \o next \in Seq(S)
        /\ DOMAIN chain = 1 .. Len(chain) /\ Len(chain) \in Nat
        /\ DOMAIN (chain \o next) = 1 .. Len(chain) + 1
        /\ \A i \in 1 .. Len(chain) : (chain \o next)[i] = chain[i]
        /\ (chain \o next)[Len(chain) + 1] = candidate[n + 1]
    BY <2>1
  <2> HIDE DEF longer
  <2>3. /\ \A i \in 1 .. Len(chain) : longer[i] = source[i] /\ source[i] \in 1 .. n
        /\ longer[Len(chain) + 1] = n + 1
        /\ DOMAIN longer = 1 .. Len(chain) + 1
        /\ longer = [i \in DOMAIN longer |-> longer[i]]
    BY <2>2 DEF Numbers, longer
  <2>4. longer \in [1 .. Len(chain) + 1 -> 1 .. n + 1]
    BY <2>2, <2>3
  <2>5. \A i \in 1 .. Len(chain) + 1 :
           longer[i] \in present /\ (chain \o next)[i] = candidate[longer[i]]
    BY <1>2, <2>2, <2>3 DEF Numbers
  <2>6. \A i, j \in 1 .. Len(chain) + 1 : i < j => longer[i] < longer[j]
    BY <2>2, <2>3 DEF Numbers
  <2>7. \A m \in 1 .. n + 1 : m \in present => \E i \in 1 .. Len(chain) + 1 : longer[i] = m
    <3> SUFFICES ASSUME NEW m \in 1 .. n + 1, m \in present
                 PROVE  \E i \in 1 .. Len(chain) + 1 : longer[i] = m
      OBVIOUS
    <3>1. CASE m = n + 1 BY <2>2, <2>3, <3>1
    <3>2. CASE m # n + 1
      <4>1. m \in 1 .. n BY <3>2
      <4> QED BY <2>2, <2>3, <4>1 DEF Numbers
    <3> QED BY <3>1, <3>2
  <2>8. Numbers(chain \o next, longer, candidate, present, n + 1)
    BY <2>2, <2>4, <2>5, <2>6, <2>7 DEF Numbers
  <2> QED BY <2>2, <2>8
<1> QED BY <1>1, <1>2

candidates(in) ==
    <<createWatchdogRoute, createOCMAgentRoute, createCADPagerdutyRoute,
      createSubroutes(parseConfigMaps(in), "Pagerduty"),
      createSubroutes(parseConfigMaps(in), "GoAlert"), createHeartbeatRoute>>

Present(in) ==
    {n \in 1 .. 6 :
        \/ n = 1 /\ in.snitchURL # Empty
        \/ n = 2 /\ readOCMAgentServiceURLFromConfig(in) # Empty
        \/ n = 3 /\ in.cadPagerdutyKey # Empty
        \/ n = 4 /\ in.pagerdutyKey # Empty
        \/ n = 5 /\ GoalertWanted(in)
        \/ n = 6 /\ in.goalertHeartbeat # Empty}

\* The routes are the candidates that are present, in their order.
LEMMA RoutesNumbered ==
    ASSUME NEW in
    PROVE  /\ createRoutes(in) \in Seq({candidates(in)[n] : n \in 1 .. 6})
           /\ \E source : Numbers(createRoutes(in), source, candidates(in), Present(in), 6)
<1> DEFINE S == {candidates(in)[n] : n \in 1 .. 6}
           c == candidates(in)
           P == Present(in)
           w(n) == IF n \in P THEN <<c[n]>> ELSE << >>
<1>1. \A n \in 1 .. 6 : c[n] \in S OBVIOUS
<1>2. createRoutes(in) = w(1) \o w(2) \o w(3) \o w(4) \o w(5) \o w(6)
  <2>1. When(in.snitchURL # Empty, createWatchdogRoute) = w(1)
    BY DEF When, Present, candidates
  <2>2. When(readOCMAgentServiceURLFromConfig(in) # Empty, createOCMAgentRoute) = w(2)
    BY DEF When, Present, candidates
  <2>3. When(in.cadPagerdutyKey # Empty, createCADPagerdutyRoute) = w(3)
    BY DEF When, Present, candidates
  <2>4. When(in.pagerdutyKey # Empty, createSubroutes(parseConfigMaps(in), "Pagerduty")) = w(4)
    BY DEF When, Present, candidates
  <2>5. When(GoalertWanted(in), createSubroutes(parseConfigMaps(in), "GoAlert")) = w(5)
    BY DEF When, Present, candidates
  <2>6. When(in.goalertHeartbeat # Empty, createHeartbeatRoute) = w(6)
    BY DEF When, Present, candidates
  <2> HIDE DEF w
  <2> QED BY Zenon, <2>1, <2>2, <2>3, <2>4, <2>5, <2>6 DEF createRoutes
<1> HIDE DEF S, c, P
<1> DEFINE Good(chain, n) ==
               chain \in Seq(S) /\ \E source : Numbers(chain, source, c, P, n)
<1>3. ASSUME NEW n \in 0 .. 5, NEW chain, Good(chain, n)
      PROVE  Good(chain \o w(n + 1), n + 1)
  <2>1. PICK source : Numbers(chain, source, c, P, n) BY <1>3
  <2>2. c[n + 1] \in S /\ n \in Nat BY <1>1, <1>3
  <2> DEFINE next == w(n + 1)
  <2>3. next = IF n + 1 \in P THEN <<c[n + 1]>> ELSE << >> BY <1>3
  <2> HIDE DEF next
  <2>4. chain \o next \in Seq(S) /\ \E longer : Numbers(chain \o next, longer, c, P, n + 1)
    BY <1>3, <2>1, <2>2, <2>3, ChainGrows
  <2> QED BY <2>4 DEF next
<1>4. Good(<< >>, 0) /\ << >> \o w(1) = w(1)
  <2>1. Numbers(<< >>, << >>, c, P, 0) BY DEF Numbers
  <2>2. << >> \o w(1) = w(1) OBVIOUS
  <2> QED BY <2>1, <2>2
<1> HIDE DEF w, Good
<1>5. ASSUME NEW chain, NEW n \in 0 .. 5, NEW m, m = n + 1, Good(chain, n)
      PROVE  Good(chain \o w(m), m)
  BY Zenon, <1>3, <1>5
<1>6. /\ 1 = 0 + 1 /\ 2 = 1 + 1 /\ 3 = 2 + 1 /\ 4 = 3 + 1 /\ 5 = 4 + 1 /\ 6 = 5 + 1
      /\ {0, 1, 2, 3, 4, 5} = 0 .. 5
  OBVIOUS
<1>7. Good(w(1), 1)
  BY Zenon, <1>4, <1>5, <1>6
<1>8. Good(w(1) \o w(2), 2)
  BY Zenon, <1>7, <1>5, <1>6
<1>9. Good(w(1) \o w(2) \o w(3), 3)
  BY Zenon, <1>8, <1>5, <1>6
<1>10. Good(w(1) \o w(2) \o w(3) \o w(4), 4)
  BY Zenon, <1>9, <1>5, <1>6
<1>11. Good(w(1) \o w(2) \o w(3) \o w(4) \o w(5), 5)
  BY Zenon, <1>10, <1>5, <1>6
<1>12. Good(w(1) \o w(2) \o w(3) \o w(4) \o w(5) \o w(6), 6)
  BY Zenon, <1>11, <1>5, <1>6
<1> QED BY <1>2, <1>12 DEF Good, S, c, P

\* The fields of the six candidates.
Fields(route, receiver, label, continue, table, list) ==
    /\ route.receiver = receiver
    /\ route.match = label
    /\ route.continue = continue
    /\ route.table = table
    /\ route.namespaces = list

\* What each candidate matches, and what it does.
LEMMA CandidateFields ==
    ASSUME NEW in
    PROVE  LET c == candidates(in)
               list == parseConfigMaps(in)
           IN  /\ Fields(c[1], "watchdog", "Watchdog", TRUE, "none", << >>)
               /\ Fields(c[2], "ocmagent", "send_managed_notification", FALSE, "none", << >>)
               /\ Fields(c[3], "cad-pagerduty", "route_to_cad", FALSE, "none", << >>)
               /\ Fields(c[4], "null", "any", TRUE, "Pagerduty", list)
               /\ Fields(c[5], "null", "any", TRUE, "GoAlert", list)
               /\ Fields(c[6], "goalert-heartbeat", "Watchdog", TRUE, "none", << >>)
<1>1. /\ candidates(in)[1] = createWatchdogRoute
      /\ candidates(in)[2] = createOCMAgentRoute
      /\ candidates(in)[3] = createCADPagerdutyRoute
      /\ candidates(in)[4] = createSubroutes(parseConfigMaps(in), "Pagerduty")
      /\ candidates(in)[5] = createSubroutes(parseConfigMaps(in), "GoAlert")
      /\ candidates(in)[6] = createHeartbeatRoute
  BY DEF candidates
<1>2. /\ Fields(createWatchdogRoute, "watchdog", "Watchdog", TRUE, "none", << >>)
      /\ Fields(createOCMAgentRoute, "ocmagent", "send_managed_notification", FALSE, "none", << >>)
      /\ Fields(createCADPagerdutyRoute, "cad-pagerduty", "route_to_cad", FALSE, "none", << >>)
      /\ Fields(createHeartbeatRoute, "goalert-heartbeat", "Watchdog", TRUE, "none", << >>)
  BY DEF Fields, createWatchdogRoute, createOCMAgentRoute, createCADPagerdutyRoute,
         createHeartbeatRoute, labelRoute
<1>3. ASSUME NEW list, NEW type
      PROVE  Fields(createSubroutes(list, type), "null", "any", TRUE, type, list)
  BY DEF Fields, createSubroutes
<1> QED BY Zenon, <1>1, <1>2, <1>3

\* The tables are the only candidates that look at namespaces.
LEMMA CandidateNamespaces ==
    ASSUME NEW in, NEW n \in 1 .. 6
    PROVE  \/ candidates(in)[n].namespaces = parseConfigMaps(in)
           \/ candidates(in)[n].namespaces = << >>
<1>1. CASE n \in {4, 5} BY Zenon, <1>1, CandidateFields DEF Fields
<1>2. CASE n \in {1, 2, 3, 6} BY Zenon, <1>2, CandidateFields DEF Fields
<1>3. n \in {4, 5} \/ n \in {1, 2, 3, 6} OBVIOUS
<1> QED BY Zenon, <1>1, <1>2, <1>3

\* The alert gets to candidate n.
VisitedCandidate(in, alert, n) ==
    /\ n \in Present(in)
    /\ Matches(candidates(in)[n], alert)
    /\ \A m \in Present(in) :
          m < n /\ Matches(candidates(in)[m], alert) => candidates(in)[m].continue

\* Which routes an alert gets to depends on the candidates alone.
LEMMA VisitedRoutes ==
    ASSUME NEW in, NEW alert
    PROVE  LET config == createAlertManagerConfig(in)
           IN  /\ \A i \in DOMAIN config.routes :
                     Visits(config, alert, i) =>
                        \E n \in 1 .. 6 : /\ config.routes[i] = candidates(in)[n]
                                          /\ VisitedCandidate(in, alert, n)
               /\ \A n \in 1 .. 6 :
                     VisitedCandidate(in, alert, n) =>
                        \E i \in DOMAIN config.routes :
                           /\ config.routes[i] = candidates(in)[n]
                           /\ Visits(config, alert, i)
<1> DEFINE config == createAlertManagerConfig(in)
           routes == createRoutes(in)
           c == candidates(in)
<1>1. config.routes = routes BY DEF createAlertManagerConfig
<1>2. PICK source : Numbers(routes, source, c, Present(in), 6)
  BY RoutesNumbered
<1>3. routes \in Seq({c[n] : n \in 1 .. 6}) BY RoutesNumbered
<1>4. DOMAIN routes = 1 .. Len(routes) /\ Len(routes) \in Nat BY <1>3
<1>5. Present(in) \subseteq 1 .. 6 BY DEF Present
<1> HIDE DEF config, routes, c
<1>6. /\ \A i \in DOMAIN routes : /\ source[i] \in 1 .. 6 /\ source[i] \in Present(in)
                                  /\ routes[i] = c[source[i]]
      /\ \A i, j \in DOMAIN routes : i < j => source[i] < source[j]
      /\ \A m \in 1 .. 6 : m \in Present(in) => \E i \in DOMAIN routes : source[i] = m
  BY <1>2 DEF Numbers
<1>7. ASSUME NEW i \in DOMAIN routes
      PROVE  Visits(config, alert, i) <=> VisitedCandidate(in, alert, source[i])
  <2>1. ASSUME Visits(config, alert, i), NEW m \in Present(in), m < source[i],
               Matches(c[m], alert)
        PROVE  c[m].continue
    <3>1. PICK j \in DOMAIN routes : source[j] = m BY Zenon, <1>5, <1>6
    <3>2. j < i
      <4>1. i \in Nat /\ j \in Nat BY <1>4
      <4>2. source[i] \in 1 .. 6 /\ m \in 1 .. 6 BY Zenon, <1>5, <1>6
      <4>3. ~(source[i] < m) /\ source[i] # m BY <2>1, <4>2
      <4>4. ~(i < j) BY Zenon, <1>6, <3>1, <4>3
      <4>5. i # j BY Zenon, <3>1, <4>3
      <4> QED BY <4>1, <4>4, <4>5
    <3>3. j \in 1 .. i - 1 BY <1>4, <3>2
    <3> QED BY Zenon, <1>1, <1>6, <2>1, <3>1, <3>3 DEF Visits
  <2>2. ASSUME VisitedCandidate(in, alert, source[i]), NEW j \in 1 .. i - 1,
               Matches(routes[j], alert)
        PROVE  routes[j].continue
    <3>1. j \in DOMAIN routes /\ j < i BY <1>4
    <3>2. source[j] \in Present(in) /\ source[j] < source[i] /\ routes[j] = c[source[j]]
      BY <1>6, <3>1
    <3> QED BY Zenon, <2>2, <3>2 DEF VisitedCandidate, c
  <2>3. Visits(config, alert, i) => VisitedCandidate(in, alert, source[i])
    BY Zenon, <1>1, <1>6, <2>1 DEF Visits, VisitedCandidate, c
  <2>4. VisitedCandidate(in, alert, source[i]) => Visits(config, alert, i)
    BY Zenon, <1>1, <1>6, <2>2 DEF Visits, VisitedCandidate, c
  <2> QED BY <2>3, <2>4
<1>8. \A i \in DOMAIN routes :
         Visits(config, alert, i) =>
            \E n \in 1 .. 6 : routes[i] = c[n] /\ VisitedCandidate(in, alert, n)
  BY Zenon, <1>6, <1>7
<1>9. \A n \in 1 .. 6 :
         VisitedCandidate(in, alert, n) =>
            \E i \in DOMAIN routes : routes[i] = c[n] /\ Visits(config, alert, i)
  <2> SUFFICES ASSUME NEW n \in 1 .. 6, VisitedCandidate(in, alert, n)
               PROVE  \E i \in DOMAIN routes : routes[i] = c[n] /\ Visits(config, alert, i)
    OBVIOUS
  <2>1. n \in Present(in) BY Zenon DEF VisitedCandidate
  <2>2. PICK i \in DOMAIN routes : source[i] = n BY Zenon, <1>6, <2>1
  <2>3. routes[i] = c[n] BY Zenon, <1>6, <2>2
  <2>4. Visits(config, alert, i) BY Zenon, <1>7, <2>2
  <2> QED BY Zenon, <2>3, <2>4
<1> QED BY Zenon, <1>1, <1>8, <1>9 DEF config, c

--------------------------------------------------------------------------------
(* Namespaces. *)

Namespace ==
    {<<"exactly", name>> : name \in {string \in STRING : string # Empty}}
    \cup {<<"default", which>> : which \in {"PDRegexOS", "PDRegexLP", "PDRegexKube"}}

\* Names that are not empty become expressions, one for each.
LEMMA AnchoredNames ==
    ASSUME NEW names \in Seq(STRING), \A i \in DOMAIN names : names[i] # Empty
    PROVE  /\ Anchored(names) \in Seq(Namespace)
           /\ \A i \in DOMAIN Anchored(names) :
                 i \in DOMAIN names /\ Anchored(names)[i] = <<"exactly", names[i]>>
<1>1. ASSUME NEW i \in DOMAIN names PROVE <<"exactly", names[i]>> \in Namespace
  <2>1. names[i] \in STRING /\ names[i] # Empty OBVIOUS
  <2> QED BY Zenon, <2>1 DEF Namespace
<1>2. DOMAIN names = 1 .. Len(names) /\ Len(names) \in Nat OBVIOUS
<1>3. Anchored(names) = [i \in 1 .. Len(names) |-> <<"exactly", names[i]>>]
  BY <1>2 DEF Anchored
<1>4. Anchored(names) \in [1 .. Len(names) -> Namespace]
  BY <1>1, <1>2, <1>3
<1>5. Anchored(names) \in Seq(Namespace)
  BY <1>2, <1>4
<1> QED BY <1>2, <1>3, <1>5

GoodNames(namespaceList) ==
    \A j \in DOMAIN namespaceList :
        namespaceList[j][1] = "exactly" => namespaceList[j][2] \notin BadName

\* What a namespaces ConfigMap contributes.
LEMMA ParsedList ==
    ASSUME NEW names \in Seq(STRING), \A i \in DOMAIN names : names[i] # Empty,
           NEW list, list = Anchored(names) \/ list = << >>
    PROVE  /\ list \in Seq(Namespace)
           /\ (\A i \in DOMAIN names : names[i] \notin BadName) => GoodNames(list)
<1>1. CASE list = Anchored(names) BY <1>1, AnchoredNames DEF GoodNames
<1>2. CASE list = << >> BY <1>2 DEF GoodNames
<1> QED BY <1>1, <1>2

Documents(in) == \A k \in DocumentField : IsDocument(in[k])

\* The namespace list is made of proper expressions, and of usable ones if the
\* ConfigMaps are (secret_controller.go:958-1060).
LEMMA NamespaceList ==
    ASSUME NEW in, Documents(in)
    PROVE  /\ parseConfigMaps(in) \in Seq(Namespace)
           /\ UsableInput(in) => GoodNames(parseConfigMaps(in))
<1> DEFINE managed == parseNamespaceConfigMap(in.managedNamespaces)
           ocp     == parseNamespaceConfigMap(in.ocpNamespaces)
           mc      == IF isManagementCluster(in)
                      THEN parseMCNamespaceConfigMap(in.mcNamespaces) ELSE << >>
<1>1. /\ IsDocument(in.managedNamespaces) /\ IsDocument(in.ocpNamespaces)
      /\ IsDocument(in.mcNamespaces)
  BY DEF Documents, DocumentField
<1>2. managed \in Seq(Namespace) /\ (UsableInput(in) => GoodNames(managed))
  <2>1. managed = Anchored(in.managedNamespaces.namespaces) \/ managed = << >>
    BY DEF parseNamespaceConfigMap
  <2>2. UsableInput(in) => \A i \in DOMAIN in.managedNamespaces.namespaces :
                              in.managedNamespaces.namespaces[i] \notin BadName
    BY DEF UsableInput
  <2> HIDE DEF managed
  <2> QED BY <1>1, <2>1, <2>2, ParsedList DEF IsDocument
<1>3. ocp \in Seq(Namespace) /\ (UsableInput(in) => GoodNames(ocp))
  <2>1. ocp = Anchored(in.ocpNamespaces.namespaces) \/ ocp = << >>
    BY DEF parseNamespaceConfigMap
  <2>2. UsableInput(in) => \A i \in DOMAIN in.ocpNamespaces.namespaces :
                              in.ocpNamespaces.namespaces[i] \notin BadName
    BY DEF UsableInput
  <2> HIDE DEF ocp
  <2> QED BY <1>1, <2>1, <2>2, ParsedList DEF IsDocument
<1>4. mc \in Seq(Namespace) /\ (UsableInput(in) => GoodNames(mc))
  <2>1. mc = Anchored(in.mcNamespaces.additional) \/ mc = << >>
    BY DEF parseMCNamespaceConfigMap
  <2>2. UsableInput(in) => \A i \in DOMAIN in.mcNamespaces.additional :
                              in.mcNamespaces.additional[i] \notin BadName
    BY DEF UsableInput
  <2> HIDE DEF mc
  <2> QED BY <1>1, <2>1, <2>2, ParsedList DEF IsDocument
<1>5. parseConfigMaps(in) = IF managed = << >> \/ ocp = << >> THEN defaultNamespaces
                            ELSE managed \o ocp \o mc
  BY DEF parseConfigMaps
<1> HIDE DEF managed, ocp, mc
<1>6. defaultNamespaces \in Seq(Namespace) /\ GoodNames(defaultNamespaces)
  BY DEF defaultNamespaces, Namespace, GoodNames
<1>7. ASSUME NEW s \in Seq(Namespace), NEW t \in Seq(Namespace)
      PROVE  s \o t \in Seq(Namespace) /\ (GoodNames(s) /\ GoodNames(t) => GoodNames(s \o t))
  BY ConcatParts DEF GoodNames
<1>8. managed \o ocp \in Seq(Namespace) /\ (UsableInput(in) => GoodNames(managed \o ocp))
  BY <1>2, <1>3, <1>7
<1>9. /\ managed \o ocp \o mc \in Seq(Namespace)
      /\ UsableInput(in) => GoodNames(managed \o ocp \o mc)
  BY <1>4, <1>7, <1>8
<1> QED BY <1>5, <1>6, <1>9

--------------------------------------------------------------------------------
(* Receivers. *)

hook(name, url, proxy) ==
    [receiverNull EXCEPT !.name = name, !.kind = "webhook", !.target = url, !.proxy = proxy]

\* A webhook receiver exists where its URL does.
LEMMA WebhookFields ==
    ASSUME NEW name, NEW url, NEW proxy
    PROVE  /\ hook(name, url, proxy).name = name
           /\ hook(name, url, proxy).kind = "webhook"
           /\ hook(name, url, proxy).target = url
           /\ url # Empty => webhookReceiver(name, url, proxy) = {hook(name, url, proxy)}
           /\ url = Empty => webhookReceiver(name, url, proxy) = {}
BY DEF webhookReceiver, hook, receiverNull

\* The null receiver notifies nobody.
LEMMA NullFields == receiverNull.name = "null" /\ receiverNull.kind = "none"
BY DEF receiverNull

\* The only receiver there can be of each name.
named(in) ==
    [name \in {"null", "pagerduty", "make-it-warning", "make-it-error", "make-it-critical",
               "cad-pagerduty", "goalert", "goalert-high", "goalert-heartbeat", "watchdog",
               "ocmagent"} |->
        IF name = "null" THEN receiverNull
        ELSE IF name = "pagerduty"
        THEN createPagerdutyConfig("pagerduty", "of the alert", in.pagerdutyKey, in)
        ELSE IF name = "make-it-warning"
        THEN createPagerdutyConfig("make-it-warning", "warning", in.pagerdutyKey, in)
        ELSE IF name = "make-it-error"
        THEN createPagerdutyConfig("make-it-error", "error", in.pagerdutyKey, in)
        ELSE IF name = "make-it-critical"
        THEN createPagerdutyConfig("make-it-critical", "critical", in.pagerdutyKey, in)
        ELSE IF name = "cad-pagerduty"
        THEN createPagerdutyConfig("cad-pagerduty", "of the alert", in.cadPagerdutyKey, in)
        ELSE IF name = "goalert" THEN hook("goalert", in.goalertLow, in.httpsProxy)
        ELSE IF name = "goalert-high" THEN hook("goalert-high", in.goalertHigh, in.httpsProxy)
        ELSE IF name = "goalert-heartbeat"
        THEN hook("goalert-heartbeat", in.goalertHeartbeat, in.httpsProxy)
        ELSE IF name = "watchdog" THEN hook("watchdog", in.snitchURL, in.httpsProxy)
        ELSE hook("ocmagent", readOCMAgentServiceURLFromConfig(in), Empty)]

Origin(in, r) ==
    /\ r = named(in)[r.name]
    /\ r.kind = "webhook" =>
          \/ r.target # Empty /\ r.target \in {in.snitchURL, in.goalertHeartbeat,
                                               readOCMAgentServiceURLFromConfig(in)}
          \/ GoalertWanted(in) /\ r.target \in {in.goalertLow, in.goalertHigh}
    /\ r.name = "ocmagent" => readOCMAgentServiceURLFromConfig(in) # Empty
    /\ r.name = "pagerduty" => in.pagerdutyKey # Empty
    /\ r.name = "goalert" => GoalertWanted(in)

\* Where a receiver comes from.
LEMMA ReceiverOrigin ==
    ASSUME NEW in, NEW r \in createReceivers(in)
    PROVE  Origin(in, r)
<1>1. CASE r \in createWatchdogReceivers(in)
  <2>1. r = hook("watchdog", in.snitchURL, in.httpsProxy) /\ in.snitchURL # Empty
    BY <1>1, WebhookFields DEF createWatchdogReceivers
  <2>2. named(in)["watchdog"] = hook("watchdog", in.snitchURL, in.httpsProxy)
    BY DEF named
  <2> QED BY <2>1, <2>2, WebhookFields DEF Origin
<1>2. CASE r \in createOCMAgentReceiver(in)
  <2>1. /\ r = hook("ocmagent", readOCMAgentServiceURLFromConfig(in), Empty)
        /\ readOCMAgentServiceURLFromConfig(in) # Empty
    BY <1>2, WebhookFields DEF createOCMAgentReceiver
  <2>2. named(in)["ocmagent"] = hook("ocmagent", readOCMAgentServiceURLFromConfig(in), Empty)
    BY DEF named
  <2> QED BY <2>1, <2>2, WebhookFields DEF Origin
<1>3. CASE r \in createCADPagerdutyReceivers(in)
  <2>1. r = createPagerdutyConfig("cad-pagerduty", "of the alert", in.cadPagerdutyKey, in)
    BY <1>3 DEF createCADPagerdutyReceivers
  <2>2. named(in)["cad-pagerduty"] = r
    BY <2>1 DEF named
  <2>3. r.name = "cad-pagerduty" /\ r.kind = "pagerduty"
    BY <2>1 DEF createPagerdutyConfig, receiverNull
  <2> QED BY <2>2, <2>3 DEF Origin
<1>4. CASE r \in createPagerdutyReceivers(in)
  <2> DEFINE config(name, severity) == createPagerdutyConfig(name, severity, in.pagerdutyKey, in)
  <2>1. /\ in.pagerdutyKey # Empty
        /\ r \in {config("pagerduty", "of the alert"), config("make-it-warning", "warning"),
                  config("make-it-error", "error"), config("make-it-critical", "critical")}
    BY <1>4 DEF createPagerdutyReceivers
  <2>2. /\ named(in)["pagerduty"] = config("pagerduty", "of the alert")
        /\ named(in)["make-it-warning"] = config("make-it-warning", "warning")
        /\ named(in)["make-it-error"] = config("make-it-error", "error")
        /\ named(in)["make-it-critical"] = config("make-it-critical", "critical")
    BY DEF named
  <2>3. \A name, severity :
           config(name, severity).name = name /\ config(name, severity).kind = "pagerduty"
    BY DEF createPagerdutyConfig, receiverNull
  <2> HIDE DEF config
  <2>4. ASSUME NEW name, NEW severity, r = config(name, severity),
               named(in)[name] = config(name, severity), name # "goalert", name # "ocmagent"
        PROVE  Origin(in, r)
    <3>1. r.name = name /\ r.kind = "pagerduty" BY <2>3, <2>4
    <3> QED BY <2>1, <2>4, <3>1 DEF Origin
  <2>5. CASE r = config("pagerduty", "of the alert") BY Zenon, <2>2, <2>4, <2>5
  <2>6. CASE r = config("make-it-warning", "warning") BY Zenon, <2>2, <2>4, <2>6
  <2>7. CASE r = config("make-it-error", "error") BY Zenon, <2>2, <2>4, <2>7
  <2>8. CASE r = config("make-it-critical", "critical") BY Zenon, <2>2, <2>4, <2>8
  <2> QED BY <2>1, <2>5, <2>6, <2>7, <2>8
<1>5. CASE r \in createGoalertReceivers(in)
  <2>1. GoalertWanted(in) BY <1>5 DEF createGoalertReceivers
  <2>2. \/ r = hook("goalert", in.goalertLow, in.httpsProxy)
        \/ r = hook("goalert-high", in.goalertHigh, in.httpsProxy)
    BY <1>5, <2>1, WebhookFields DEF createGoalertReceivers, GoalertWanted
  <2>3. /\ named(in)["goalert"] = hook("goalert", in.goalertLow, in.httpsProxy)
        /\ named(in)["goalert-high"] = hook("goalert-high", in.goalertHigh, in.httpsProxy)
    BY DEF named
  <2> QED BY <2>1, <2>2, <2>3, WebhookFields DEF Origin
<1>6. CASE r \in createHeartbeatReceivers(in)
  <2>1. /\ r = hook("goalert-heartbeat", in.goalertHeartbeat, in.httpsProxy)
        /\ in.goalertHeartbeat # Empty
    BY <1>6, WebhookFields DEF createHeartbeatReceivers
  <2>2. named(in)["goalert-heartbeat"]
           = hook("goalert-heartbeat", in.goalertHeartbeat, in.httpsProxy)
    BY DEF named
  <2> QED BY <2>1, <2>2, WebhookFields DEF Origin
<1>7. CASE r = receiverNull
  <2>1. named(in)["null"] = receiverNull BY DEF named
  <2> QED BY <1>7, <2>1, NullFields DEF Origin
<1> QED BY <1>1, <1>2, <1>3, <1>4, <1>5, <1>6, <1>7 DEF createReceivers

Names(in) == {r.name : r \in createReceivers(in)}

\* Every candidate that is present has its receivers.
LEMMA ReceiversPresent ==
    ASSUME NEW in
    PROVE  /\ "null" \in Names(in)
           /\ in.snitchURL # Empty => "watchdog" \in Names(in)
           /\ readOCMAgentServiceURLFromConfig(in) # Empty => "ocmagent" \in Names(in)
           /\ in.cadPagerdutyKey # Empty => "cad-pagerduty" \in Names(in)
           /\ in.pagerdutyKey # Empty => {"pagerduty", "make-it-warning", "make-it-error",
                                          "make-it-critical"} \subseteq Names(in)
           /\ GoalertWanted(in) => {"goalert", "goalert-high"} \subseteq Names(in)
           /\ in.goalertHeartbeat # Empty => "goalert-heartbeat" \in Names(in)
<1>1. "null" \in Names(in)
  BY NullFields DEF Names, createReceivers
<1>2. in.snitchURL # Empty => "watchdog" \in Names(in)
  <2>1. in.snitchURL # Empty => \E r \in createWatchdogReceivers(in) : r.name = "watchdog"
    BY WebhookFields DEF createWatchdogReceivers
  <2> QED BY <2>1 DEF Names, createReceivers
<1>3. readOCMAgentServiceURLFromConfig(in) # Empty => "ocmagent" \in Names(in)
  <2>1. readOCMAgentServiceURLFromConfig(in) # Empty
           => \E r \in createOCMAgentReceiver(in) : r.name = "ocmagent"
    BY WebhookFields DEF createOCMAgentReceiver
  <2> QED BY <2>1 DEF Names, createReceivers
<1>4. in.cadPagerdutyKey # Empty => "cad-pagerduty" \in Names(in)
  <2> DEFINE r == createPagerdutyConfig("cad-pagerduty", "of the alert", in.cadPagerdutyKey, in)
  <2>1. in.cadPagerdutyKey # Empty => r \in createReceivers(in)
    BY DEF createReceivers, createCADPagerdutyReceivers
  <2>2. r.name = "cad-pagerduty"
    BY DEF createPagerdutyConfig, receiverNull
  <2> HIDE DEF r
  <2> QED BY <2>1, <2>2 DEF Names
<1>5. ASSUME in.pagerdutyKey # Empty,
             NEW name \in {"pagerduty", "make-it-warning", "make-it-error",
                           "make-it-critical"}
      PROVE  name \in Names(in)
  <2> DEFINE config(severity) == createPagerdutyConfig(name, severity, in.pagerdutyKey, in)
  <2>1. \E severity : config(severity) \in createReceivers(in)
    BY <1>5 DEF createReceivers, createPagerdutyReceivers
  <2>2. \A severity : config(severity).name = name
    BY DEF createPagerdutyConfig, receiverNull
  <2> HIDE DEF config
  <2> QED BY <2>1, <2>2 DEF Names
<1>6. ASSUME GoalertWanted(in), NEW name \in {"goalert", "goalert-high"}
      PROVE  name \in Names(in)
  <2>1. in.goalertLow # Empty /\ in.goalertHigh # Empty BY <1>6 DEF GoalertWanted
  <2>2. \E url : hook(name, url, in.httpsProxy) \in createGoalertReceivers(in)
    BY <1>6, <2>1, WebhookFields DEF createGoalertReceivers
  <2> QED BY <2>2, WebhookFields DEF Names, createReceivers
<1>7. in.goalertHeartbeat # Empty => "goalert-heartbeat" \in Names(in)
  <2>1. in.goalertHeartbeat # Empty
           => \E r \in createHeartbeatReceivers(in) : r.name = "goalert-heartbeat"
    BY WebhookFields DEF createHeartbeatReceivers
  <2> QED BY <2>1 DEF Names, createReceivers
<1> QED BY <1>1, <1>2, <1>3, <1>4, <1>5, <1>6, <1>7

--------------------------------------------------------------------------------
(* Every input that is read has the documents, and every alert the labels, that *)
(* the assumptions give them.                                                   *)

LEMMA TypeCorrect == Spec => []TypeOK
<1>1. Init => TypeOK
  <2> SUFFICES ASSUME Init PROVE TypeOK OBVIOUS
  <2>1. \A k \in InputField : (CHOOSE value \in Values[k] : TRUE) \in Values[k]
    BY RoutingAssumption
  <2> QED BY <2>1 DEF Init, TypeOK
<1>2. TypeOK /\ [Next]_vars => TypeOK'
  <2> SUFFICES ASSUME TypeOK, [Next]_vars PROVE TypeOK' OBVIOUS
  <2>1. ASSUME NEW k \in InputField, NEW value \in Values[k], ReadAnew(k, value)
        PROVE  TypeOK'
    BY <2>1 DEF ReadAnew, TypeOK
  <2>2. CASE FireAlone BY <2>2, RoutingAssumption DEF FireAlone, TypeOK
  <2>3. CASE FireJointly BY <2>3, RoutingAssumption DEF FireJointly, TypeOK
  <2>4. CASE Resolve BY <2>4 DEF Resolve, TypeOK
  <2>5. CASE UNCHANGED vars BY <2>5 DEF vars, TypeOK
  <2> QED BY <2>1, <2>2, <2>3, <2>4, <2>5 DEF Next
<1> QED BY <1>1, <1>2, PTL DEF Spec

\* The ConfigMaps read are documents.
LEMMA InputDocuments == TypeOK => Documents(input)
BY RoutingAssumption DEF TypeOK, Documents, InputField

--------------------------------------------------------------------------------
(* Loading. *)

LEMMA ConfigFields ==
    ASSUME NEW in
    PROVE  /\ createAlertManagerConfig(in).routes = createRoutes(in)
           /\ createAlertManagerConfig(in).receivers = createReceivers(in)
           /\ ReceiverNames(createAlertManagerConfig(in)) = Names(in)
BY DEF createAlertManagerConfig, ReceiverNames, Names

\* The receivers that the rules of each table name.
LEMMA TableReceivers ==
    /\ subrouteReceivers("none") = {}
    /\ subrouteReceivers("Pagerduty") = {"pagerduty", "make-it-critical", "make-it-error",
                                         "make-it-warning", "null"}
    /\ subrouteReceivers("GoAlert") = {"goalert", "goalert-high", "null"}
<1>1. Class = {"common", "critical", "error", "warning", "null"} BY DEF Class
<1>2. subrouteReceivers("none") = {} BY DEF subrouteReceivers
<1>3. subrouteReceivers("Pagerduty") = {receiverOf("Pagerduty")[class] : class \in Class}
  BY DEF subrouteReceivers
<1>4. subrouteReceivers("GoAlert") = {receiverOf("GoAlert")[class] : class \in Class}
  BY DEF subrouteReceivers
<1>5. /\ receiverOf("Pagerduty").common = "pagerduty"
      /\ receiverOf("Pagerduty").critical = "make-it-critical"
      /\ receiverOf("Pagerduty").error = "make-it-error"
      /\ receiverOf("Pagerduty").warning = "make-it-warning"
      /\ receiverOf("Pagerduty").null = "null"
  BY DEF receiverOf
<1>6. /\ receiverOf("GoAlert").common = "goalert"
      /\ receiverOf("GoAlert").critical = "goalert-high"
      /\ receiverOf("GoAlert").error = "goalert-high"
      /\ receiverOf("GoAlert").warning = "goalert"
      /\ receiverOf("GoAlert").null = "null"
  BY DEF receiverOf
<1>7. subrouteReceivers("Pagerduty") = {"pagerduty", "make-it-critical", "make-it-error",
                                        "make-it-warning", "null"}
  BY <1>1, <1>3, <1>5
<1>8. subrouteReceivers("GoAlert") = {"goalert", "goalert-high", "null"}
  BY <1>1, <1>4, <1>6
<1> QED BY <1>2, <1>7, <1>8

\* A candidate that is present finds its receivers, its own and its table's.
LEMMA CandidateHasReceivers ==
    ASSUME NEW in, NEW n \in Present(in)
    PROVE  {candidates(in)[n].receiver} \cup subrouteReceivers(candidates(in)[n].table)
              \subseteq Names(in)
<1>1. n \in 1 .. 6 BY DEF Present
<1> DEFINE c == candidates(in)[n]
<1>2. CASE n = 1
  <2>1. in.snitchURL # Empty BY <1>2 DEF Present
  <2>2. c.receiver = "watchdog" /\ c.table = "none"
    BY Zenon, <1>2, CandidateFields DEF Fields
  <2> HIDE DEF c
  <2>3. "watchdog" \in Names(in) BY Zenon, <2>1, ReceiversPresent
  <2>4. subrouteReceivers(c.table) = {} BY Zenon, <2>2, TableReceivers
  <2>5. {c.receiver} \cup subrouteReceivers(c.table) \subseteq Names(in)
    BY <2>2, <2>3, <2>4
  <2> QED BY <2>5 DEF c
<1>3. CASE n = 2
  <2>1. readOCMAgentServiceURLFromConfig(in) # Empty BY <1>3 DEF Present
  <2>2. c.receiver = "ocmagent" /\ c.table = "none"
    BY Zenon, <1>3, CandidateFields DEF Fields
  <2> HIDE DEF c
  <2>3. "ocmagent" \in Names(in) BY Zenon, <2>1, ReceiversPresent
  <2>4. subrouteReceivers(c.table) = {} BY Zenon, <2>2, TableReceivers
  <2>5. {c.receiver} \cup subrouteReceivers(c.table) \subseteq Names(in)
    BY <2>2, <2>3, <2>4
  <2> QED BY <2>5 DEF c
<1>4. CASE n = 3
  <2>1. in.cadPagerdutyKey # Empty BY <1>4 DEF Present
  <2>2. c.receiver = "cad-pagerduty" /\ c.table = "none"
    BY Zenon, <1>4, CandidateFields DEF Fields
  <2> HIDE DEF c
  <2>3. "cad-pagerduty" \in Names(in) BY Zenon, <2>1, ReceiversPresent
  <2>4. subrouteReceivers(c.table) = {} BY Zenon, <2>2, TableReceivers
  <2>5. {c.receiver} \cup subrouteReceivers(c.table) \subseteq Names(in)
    BY <2>2, <2>3, <2>4
  <2> QED BY <2>5 DEF c
<1>5. CASE n = 4
  <2>1. in.pagerdutyKey # Empty BY <1>5 DEF Present
  <2>2. c.receiver = "null" /\ c.table = "Pagerduty"
    BY Zenon, <1>5, CandidateFields DEF Fields
  <2> HIDE DEF c
  <2>3. /\ "null" \in Names(in)
        /\ {"pagerduty", "make-it-warning", "make-it-error", "make-it-critical"}
              \subseteq Names(in)
    BY Zenon, <2>1, ReceiversPresent
  <2>4. subrouteReceivers(c.table) = {"pagerduty", "make-it-critical", "make-it-error",
                                      "make-it-warning", "null"}
    BY Zenon, <2>2, TableReceivers
  <2>5. {c.receiver} \cup subrouteReceivers(c.table) \subseteq Names(in)
    BY <2>2, <2>3, <2>4
  <2> QED BY <2>5 DEF c
<1>6. CASE n = 5
  <2>1. GoalertWanted(in) BY <1>6 DEF Present
  <2>2. c.receiver = "null" /\ c.table = "GoAlert"
    BY Zenon, <1>6, CandidateFields DEF Fields
  <2> HIDE DEF c
  <2>3. "null" \in Names(in) /\ {"goalert", "goalert-high"} \subseteq Names(in)
    BY Zenon, <2>1, ReceiversPresent
  <2>4. subrouteReceivers(c.table) = {"goalert", "goalert-high", "null"}
    BY Zenon, <2>2, TableReceivers
  <2>5. {c.receiver} \cup subrouteReceivers(c.table) \subseteq Names(in)
    BY <2>2, <2>3, <2>4
  <2> QED BY <2>5 DEF c
<1>7. CASE n = 6
  <2>1. in.goalertHeartbeat # Empty BY <1>7 DEF Present
  <2>2. c.receiver = "goalert-heartbeat" /\ c.table = "none"
    BY Zenon, <1>7, CandidateFields DEF Fields
  <2> HIDE DEF c
  <2>3. "goalert-heartbeat" \in Names(in) BY Zenon, <2>1, ReceiversPresent
  <2>4. subrouteReceivers(c.table) = {} BY Zenon, <2>2, TableReceivers
  <2>5. {c.receiver} \cup subrouteReceivers(c.table) \subseteq Names(in)
    BY <2>2, <2>3, <2>4
  <2> QED BY <2>5 DEF c
<1> HIDE DEF c
<1>8. {c.receiver} \cup subrouteReceivers(c.table) \subseteq Names(in)
  <2>1. n = 1 \/ n = 2 \/ n = 3 \/ n = 4 \/ n = 5 \/ n = 6 BY <1>1
  <2> QED BY Zenon, <2>1, <1>2, <1>3, <1>4, <1>5, <1>6, <1>7 DEF c
<1> QED BY Zenon, <1>8 DEF c

\* Alertmanager accepts every configuration built from usable input, whichever
\* Secrets and ConfigMaps are there (secret_controller.go:770-815).
THEOREM ConfigurationsLoad == Spec => []UsableInputLoadsInv
<1>1. ASSUME NEW in, Documents(in), UsableInput(in)
      PROVE  Load(createAlertManagerConfig(in))
  <2> DEFINE config == createAlertManagerConfig(in)
  <2>1. PICK source : Numbers(createRoutes(in), source, candidates(in), Present(in), 6)
    BY RoutesNumbered
  <2>2. ASSUME NEW i \in DOMAIN createRoutes(in)
        PROVE  source[i] \in Present(in) /\ createRoutes(in)[i] = candidates(in)[source[i]]
    BY <2>1 DEF Numbers
  <2>3. WellFormed(config)
    <3>1. \A r, s \in createReceivers(in) : r.name = s.name => r = s
      BY ReceiverOrigin DEF Origin
    <3>2. \A i \in DOMAIN createRoutes(in) :
             {createRoutes(in)[i].receiver} \cup subrouteReceivers(createRoutes(in)[i].table)
                 \subseteq Names(in)
      BY Zenon, <2>2, CandidateHasReceivers
    <3> QED BY <3>1, <3>2, ConfigFields, ReceiversPresent DEF WellFormed
  <2>4. URLsAccepted(config)
    <3> SUFFICES ASSUME NEW r \in createReceivers(in), r.kind = "webhook"
                 PROVE  r.target \in WebhookURL
      BY ConfigFields DEF URLsAccepted
    <3>1. \/ r.target # Empty /\ r.target \in {in.snitchURL, in.goalertHeartbeat,
                                               readOCMAgentServiceURLFromConfig(in)}
          \/ GoalertWanted(in) /\ r.target \in {in.goalertLow, in.goalertHigh}
      BY ReceiverOrigin DEF Origin
    <3> QED BY <1>1, <3>1 DEF UsableInput, GoalertWanted
  <2>5. RegexesCompile(config)
    <3>1. ASSUME NEW i \in DOMAIN createRoutes(in)
          PROVE  GoodNames(createRoutes(in)[i].namespaces)
      <4>1. source[i] \in 1 .. 6 BY <2>2, <3>1 DEF Present
      <4>2. \/ candidates(in)[source[i]].namespaces = parseConfigMaps(in)
            \/ candidates(in)[source[i]].namespaces = << >>
        BY Zenon, <4>1, CandidateNamespaces
      <4>3. GoodNames(parseConfigMaps(in)) /\ GoodNames(<< >>)
        BY <1>1, NamespaceList DEF GoodNames
      <4> QED BY Zenon, <2>2, <3>1, <4>2, <4>3
    <3> QED BY <3>1, ConfigFields DEF RegexesCompile, GoodNames
  <2> QED BY <2>3, <2>4, <2>5 DEF Load
<1>2. TypeOK => UsableInputLoadsInv
  BY <1>1, InputDocuments DEF UsableInputLoadsInv, UsableInputLoads
<1> QED BY <1>2, TypeCorrect, PTL

--------------------------------------------------------------------------------
(* The top level of the routing tree. *)

\* The heartbeat alert reaches both of its monitors: every candidate that matches
\* it lets it pass (secret_controller.go:554-579, 770-815).
THEOREM WatchdogIsMonitored == Spec => []WatchdogReachesMonitorsInv
<1>1. ASSUME NEW in PROVE WatchdogReachesMonitors(in)
  <2> DEFINE config == createAlertManagerConfig(in)
             c == candidates(in)
  <2>1. ASSUME NEW n \in 1 .. 6, Matches(c[n], {"Watchdog"}) PROVE c[n].continue
    <3>1. CASE n \in {1, 4, 5, 6}
      <4>1. c[n].continue = TRUE BY Zenon, <3>1, CandidateFields DEF Fields
      <4> QED BY <4>1
    <3>2. CASE n = 2
      <4>1. c[n].match = "send_managed_notification"
        BY Zenon, <3>2, CandidateFields DEF Fields
      <4> HIDE DEF c
      <4> QED BY <2>1, <4>1 DEF Matches
    <3>3. CASE n = 3
      <4>1. c[n].match = "route_to_cad" BY Zenon, <3>3, CandidateFields DEF Fields
      <4> HIDE DEF c
      <4> QED BY <2>1, <4>1 DEF Matches
    <3>4. n \in {1, 4, 5, 6} \/ n = 2 \/ n = 3 OBVIOUS
    <3> QED BY Zenon, <3>1, <3>2, <3>3, <3>4
  <2>2. Present(in) \subseteq 1 .. 6 BY DEF Present
  <2>3. ASSUME NEW n \in {1, 6}, n \in Present(in)
        PROVE  c[n].receiver \in Reaches(config, {"Watchdog"})
    <3>1. c[n].match = "Watchdog" BY Zenon, CandidateFields DEF Fields
    <3>2. n \in 1 .. 6 BY <2>2, <2>3
    <3> HIDE DEF c, config
    <3>3. Matches(c[n], {"Watchdog"}) BY <3>1 DEF Matches
    <3>4. VisitedCandidate(in, {"Watchdog"}, n)
      BY Zenon, <2>1, <2>2, <2>3, <3>3 DEF VisitedCandidate, c
    <3>5. \E i \in DOMAIN config.routes :
             config.routes[i] = c[n] /\ Visits(config, {"Watchdog"}, i)
      BY Zenon, <3>2, <3>4, VisitedRoutes DEF config, c
    <3> QED BY <3>5 DEF Reaches
  <2>4. c[1].receiver = "watchdog" /\ c[6].receiver = "goalert-heartbeat"
    BY Zenon, CandidateFields DEF Fields
  <2>5. /\ in.snitchURL # Empty => 1 \in Present(in)
        /\ in.goalertHeartbeat # Empty => 6 \in Present(in)
    BY DEF Present
  <2> HIDE DEF c
  <2> QED BY Zenon, <2>3, <2>4, <2>5 DEF WatchdogReachesMonitors
<1>2. WatchdogReachesMonitorsInv BY <1>1 DEF WatchdogReachesMonitorsInv
<1> QED BY <1>2, PTL

\* The OCM Agent's route ends the journey of its alerts, and only that of the
\* heartbeat comes before it (secret_controller.go:581-601, 770-815).
THEOREM ManagedNotificationsStay == Spec => []ManagedNotificationsDoNotPageInv
<1>1. ASSUME NEW in PROVE ManagedNotificationsDoNotPage(in)
  <2> DEFINE config == createAlertManagerConfig(in)
             c == candidates(in)
  <2> SUFFICES ASSUME "ocmagent" \in ReceiverNames(config), NEW alert,
                      "send_managed_notification" \in alert,
                      NEW i \in DOMAIN config.routes, Visits(config, alert, i)
               PROVE  config.routes[i].receiver \in {"ocmagent", "watchdog"}
    BY DEF ManagedNotificationsDoNotPage, Reaches
  <2>1. 2 \in Present(in)
    <3>1. PICK r \in createReceivers(in) : r.name = "ocmagent"
      BY ConfigFields DEF Names
    <3>2. readOCMAgentServiceURLFromConfig(in) # Empty
      BY <3>1, ReceiverOrigin DEF Origin
    <3> QED BY <3>2 DEF Present
  <2>2. c[2].match = "send_managed_notification" /\ c[2].continue = FALSE
    BY Zenon, CandidateFields DEF Fields
  <2>3. c[1].receiver = "watchdog" /\ c[2].receiver = "ocmagent"
    BY Zenon, CandidateFields DEF Fields
  <2>4. PICK n \in 1 .. 6 : config.routes[i] = c[n] /\ VisitedCandidate(in, alert, n)
    BY Zenon, VisitedRoutes
  <2> HIDE DEF config, c
  <2>5. Matches(c[2], alert) BY <2>2 DEF Matches
  <2>6. ~(2 < n) BY Zenon, <2>1, <2>2, <2>4, <2>5 DEF VisitedCandidate, c
  <2>7. n = 1 \/ n = 2 BY <2>6
  <2> QED BY Zenon, <2>3, <2>4, <2>7
<1>2. ManagedNotificationsDoNotPageInv BY <1>1 DEF ManagedNotificationsDoNotPageInv
<1> QED BY <1>2, PTL

--------------------------------------------------------------------------------
(***************************************************************************)
(* Inhibition goes up a ladder: along every rule the alert inhibited is    *)
(* further up than the one that inhibits it.                               *)
(***************************************************************************)

NameRank(alert) ==
    IF alert["alertname"] \in {"SDNPodNotReady", "TargetDown", "KubePodNotReady",
                               "KubePodCrashLooping"} THEN 2
    ELSE IF alert["alertname"] \in {"ClusterOperatorDown", "KubeNodeUnreachable",
               "KubeDaemonSetRolloutStuck", "KubeDaemonSetMisScheduled",
               "KubeDeploymentReplicasMismatch", "KubeStatefulSetReplicasMismatch",
               "ElasticsearchClusterNotHealthy", "api-ErrorBudgetBurn"} THEN 1
    ELSE 0

SeverityRank(alert) ==
    IF alert["severity"] = "info" THEN 2
    ELSE IF alert["severity"] = "warning" THEN 1
    ELSE 0

Rank(alert) == 3 * NameRank(alert) + SeverityRank(alert)

\* The ladder has nine rungs.
LEMMA RankBounds ==
    ASSUME NEW alert
    PROVE  NameRank(alert) \in 0 .. 2 /\ SeverityRank(alert) \in 0 .. 2 /\ Rank(alert) \in 0 .. 8
<1>1. NameRank(alert) \in 0 .. 2 BY DEF NameRank
<1>2. SeverityRank(alert) \in 0 .. 2 BY DEF SeverityRank
<1> QED BY <1>1, <1>2 DEF Rank

\* Each of the nine inhibit rules climbs: by the name, or by the severity under one name.
LEMMA InhibitionClimbs ==
    ASSUME NEW source, NEW target, Inhibits(source, target)
    PROVE  Rank(source) < Rank(target)
<1>1. PICK rule \in inhibitRules :
         /\ Meets(rule.source, source) /\ Meets(rule.target, target)
         /\ \A label \in rule.equal : source[label] = target[label]
  BY DEF Inhibits
<1>2. ASSUME NEW values, NEW alert
      PROVE  /\ Meets([alertname |-> values], alert) => alert["alertname"] \in values
             /\ Meets([severity |-> values], alert) => alert["severity"] \in values
  BY DEF Meets
<1>3. ASSUME NameRank(source) < NameRank(target) PROVE Rank(source) < Rank(target)
  <2>1. /\ NameRank(source) \in 0 .. 2 /\ SeverityRank(source) \in 0 .. 2
        /\ NameRank(target) \in 0 .. 2 /\ SeverityRank(target) \in 0 .. 2
    BY RankBounds
  <2> QED BY <1>3, <2>1 DEF Rank
<1>4. ASSUME NEW names, NEW others, Meets([alertname |-> names], source),
             Meets([alertname |-> others], target)
      PROVE  source["alertname"] \in names /\ target["alertname"] \in others
  BY Zenon, <1>2, <1>4
<1>5. ASSUME source["alertname"] = target["alertname"], source["severity"] \in {"critical"},
             target["severity"] \in {"warning", "info"}
      PROVE  Rank(source) < Rank(target)
  <2>1. NameRank(source) = NameRank(target) /\ NameRank(source) \in 0 .. 2
    BY <1>5 DEF NameRank
  <2>2. SeverityRank(source) < SeverityRank(target) BY <1>5 DEF SeverityRank
  <2>3. SeverityRank(source) \in 0 .. 2 /\ SeverityRank(target) \in 0 .. 2 BY RankBounds
  <2> QED BY <2>1, <2>2, <2>3 DEF Rank
<1>6. ASSUME source["alertname"] = target["alertname"], source["severity"] \in {"warning"},
             target["severity"] \in {"info"}
      PROVE  Rank(source) < Rank(target)
  <2>1. NameRank(source) = NameRank(target) /\ NameRank(source) \in 0 .. 2
    BY <1>6 DEF NameRank
  <2>2. SeverityRank(source) < SeverityRank(target) BY <1>6 DEF SeverityRank
  <2>3. SeverityRank(source) \in 0 .. 2 /\ SeverityRank(target) \in 0 .. 2 BY RankBounds
  <2> QED BY <2>1, <2>2, <2>3 DEF Rank
<1>7. CASE rule = InhibitRule([severity |-> {"critical"}], [severity |-> {"warning", "info"}],
                              {"namespace", "alertname"})
  <2> DEFINE values == {"critical"}
             others == {"warning", "info"}
  <2>1. /\ rule.source = [severity |-> values] /\ rule.target = [severity |-> others]
        /\ "alertname" \in rule.equal
    BY <1>7 DEF InhibitRule
  <2> HIDE DEF values, others
  <2>2. source["severity"] \in values BY Zenon, <1>1, <1>2, <2>1
  <2>3. target["severity"] \in others BY Zenon, <1>1, <1>2, <2>1
  <2>4. source["alertname"] = target["alertname"] BY Zenon, <1>1, <2>1
  <2> QED BY Zenon, <1>5, <2>2, <2>3, <2>4 DEF values, others
<1>8. CASE rule = InhibitRule([severity |-> {"warning"}], warningTarget,
                              {"namespace", "alertname"})
  <2> DEFINE values == {"warning"}
             others == {"info"}
  <2>1. /\ rule.source = [severity |-> values] /\ rule.target = [severity |-> others]
        /\ "alertname" \in rule.equal
    BY <1>8 DEF InhibitRule, warningTarget
  <2> HIDE DEF values, others
  <2>2. source["severity"] \in values BY Zenon, <1>1, <1>2, <2>1
  <2>3. target["severity"] \in others BY Zenon, <1>1, <1>2, <2>1
  <2>4. source["alertname"] = target["alertname"] BY Zenon, <1>1, <2>1
  <2> QED BY Zenon, <1>6, <2>2, <2>3, <2>4 DEF values, others
<1>9. CASE rule = InhibitRule([alertname |-> {"ClusterOperatorDegraded"},
                                severity |-> {"critical"}],
                               [alertname |-> {"ClusterOperatorDown"}], {"namespace", "name"})
  <2> DEFINE names == {"ClusterOperatorDegraded"}
             values == {"critical"}
             others == {"ClusterOperatorDown"}
  <2>1. /\ rule.source = [alertname |-> names, severity |-> values]
        /\ rule.target = [alertname |-> others]
    BY <1>9 DEF InhibitRule
  <2> HIDE DEF names, values, others
  <2>2. Meets([alertname |-> names, severity |-> values], source) BY Zenon, <1>1, <2>1
  <2>3. source["alertname"] \in names BY <2>2 DEF Meets
  <2>4. target["alertname"] \in others BY Zenon, <1>1, <1>2, <2>1
  <2>5. NameRank(source) < NameRank(target) BY <2>3, <2>4 DEF names, others, NameRank
  <2> QED BY <1>3, <2>5
<1>10. CASE rule = InhibitRule([alertname |-> {"KubeNodeNotReady"}],
                               [alertname |-> {"KubeNodeUnreachable"}], {"node", "instance"})
  <2> DEFINE names == {"KubeNodeNotReady"}
             others == {"KubeNodeUnreachable"}
  <2>1. rule.source = [alertname |-> names] /\ rule.target = [alertname |-> others]
    BY <1>10 DEF InhibitRule
  <2> HIDE DEF names, others
  <2>2. source["alertname"] \in names /\ target["alertname"] \in others
    BY Zenon, <1>1, <1>4, <2>1
  <2> QED BY <1>3, <2>2 DEF names, others, NameRank
<1>11. CASE rule = InhibitRule([alertname |-> {"KubeNodeUnreachable"}],
                               [alertname |-> {"SDNPodNotReady", "TargetDown"}], {})
  <2> DEFINE names == {"KubeNodeUnreachable"}
             others == {"SDNPodNotReady", "TargetDown"}
  <2>1. rule.source = [alertname |-> names] /\ rule.target = [alertname |-> others]
    BY <1>11 DEF InhibitRule
  <2> HIDE DEF names, others
  <2>2. source["alertname"] \in names /\ target["alertname"] \in others
    BY Zenon, <1>1, <1>4, <2>1
  <2> QED BY <1>3, <2>2 DEF names, others, NameRank
<1>12. CASE rule = InhibitRule([alertname |-> {"KubeNodeNotReady"}],
                               [alertname |-> {"KubeDaemonSetRolloutStuck", "KubeDaemonSetMisScheduled",
                    "KubeDeploymentReplicasMismatch", "KubeStatefulSetReplicasMismatch",
                    "KubePodNotReady"}], {"instance"})
  <2> DEFINE names == {"KubeNodeNotReady"}
             others == {"KubeDaemonSetRolloutStuck", "KubeDaemonSetMisScheduled",
                    "KubeDeploymentReplicasMismatch", "KubeStatefulSetReplicasMismatch",
                    "KubePodNotReady"}
  <2>1. rule.source = [alertname |-> names] /\ rule.target = [alertname |-> others]
    BY <1>12 DEF InhibitRule
  <2> HIDE DEF names, others
  <2>2. source["alertname"] \in names /\ target["alertname"] \in others
    BY Zenon, <1>1, <1>4, <2>1
  <2> QED BY <1>3, <2>2 DEF names, others, NameRank
<1>13. CASE rule = InhibitRule([alertname |-> {"KubeDeploymentReplicasMismatch"}],
                               [alertname |-> {"KubePodNotReady", "KubePodCrashLooping"}], {"namespace"})
  <2> DEFINE names == {"KubeDeploymentReplicasMismatch"}
             others == {"KubePodNotReady", "KubePodCrashLooping"}
  <2>1. rule.source = [alertname |-> names] /\ rule.target = [alertname |-> others]
    BY <1>13 DEF InhibitRule
  <2> HIDE DEF names, others
  <2>2. source["alertname"] \in names /\ target["alertname"] \in others
    BY Zenon, <1>1, <1>4, <2>1
  <2> QED BY <1>3, <2>2 DEF names, others, NameRank
<1>14. CASE rule = InhibitRule([alertname |-> {"ElasticsearchOperatorCSVNotSuccessful"}],
                               [alertname |-> {"ElasticsearchClusterNotHealthy"}], {"dummylabel"})
  <2> DEFINE names == {"ElasticsearchOperatorCSVNotSuccessful"}
             others == {"ElasticsearchClusterNotHealthy"}
  <2>1. rule.source = [alertname |-> names] /\ rule.target = [alertname |-> others]
    BY <1>14 DEF InhibitRule
  <2> HIDE DEF names, others
  <2>2. source["alertname"] \in names /\ target["alertname"] \in others
    BY Zenon, <1>1, <1>4, <2>1
  <2> QED BY <1>3, <2>2 DEF names, others, NameRank
<1>15. CASE rule = InhibitRule([alertname |-> {"KubeAPIErrorBudgetBurn"}],
                               [alertname |-> {"api-ErrorBudgetBurn"}], {"severity"})
  <2> DEFINE names == {"KubeAPIErrorBudgetBurn"}
             others == {"api-ErrorBudgetBurn"}
  <2>1. rule.source = [alertname |-> names] /\ rule.target = [alertname |-> others]
    BY <1>15 DEF InhibitRule
  <2> HIDE DEF names, others
  <2>2. source["alertname"] \in names /\ target["alertname"] \in others
    BY Zenon, <1>1, <1>4, <2>1
  <2> QED BY <1>3, <2>2 DEF names, others, NameRank
<1> QED
  BY Zenon, <1>1, <1>7, <1>8, <1>9, <1>10, <1>11, <1>12, <1>13, <1>14, <1>15 DEF inhibitRules

\* Of the alerts that fire, however many, one on the lowest rung is not inhibited
\* (secret_controller.go:836-951).
THEOREM InhibitionLeavesOne == Spec => []NeverAllInhibitedInv
<1>1. ASSUME NEW alerts, alerts # {} PROVE \E alert \in alerts : ~Inhibited(alert, alerts)
  <2> DEFINE rungs == {Rank(alert) : alert \in alerts}
  <2>1. rungs # {} /\ rungs \subseteq 0 .. 8 BY <1>1, RankBounds
  <2>2. \A alert \in alerts : Rank(alert) \in rungs OBVIOUS
  <2>3. \A rung \in rungs : \E alert \in alerts : Rank(alert) = rung OBVIOUS
  <2> HIDE DEF rungs
  <2>4. PICK lowest \in rungs : \A rung \in rungs : ~(rung < lowest)
    <3>1. rungs \subseteq Nat BY <2>1
    <3>2. PICK lowest \in rungs : \A rung \in rungs : lowest <= rung
      BY Zenon, <2>1, <3>1, LeastElement
    <3>3. \A rung \in rungs : ~(rung < lowest) BY <2>1, <3>2
    <3> QED BY <3>3
  <2>5. PICK alert \in alerts : Rank(alert) = lowest BY <2>3
  <2>6. \A source \in alerts : ~Inhibits(source, alert)
    BY Zenon, <2>2, <2>4, <2>5, InhibitionClimbs
  <2> QED BY Zenon, <2>5, <2>6 DEF Inhibited
<1>2. NeverAllInhibitedInv BY <1>1 DEF NeverAllInhibitedInv, NeverAllInhibited
<1> QED BY <1>2, PTL

--------------------------------------------------------------------------------
(* The rule tables: fixed rules, then the rules of the namespaces. *)

ruleCount(type) == IF type = "GoAlert" THEN 3 ELSE 2

perNamespace(list, type) ==
    [j \in 1 .. ruleCount(type) * Len(list) |->
        namespaceRules(list[1 + ((j - 1) \div ruleCount(type))], type)
            [1 + ((j - 1) % ruleCount(type))]]

IsSequence(s) == \E S : s \in Seq(S)

\* A concatenation is made of its two parts.
LEMMA SequencesConcat ==
    ASSUME NEW s, NEW t, IsSequence(s), IsSequence(t)
    PROVE  /\ IsSequence(s \o t)
           /\ Len(s) \in Nat /\ Len(t) \in Nat /\ Len(s \o t) = Len(s) + Len(t)
           /\ DOMAIN s = 1 .. Len(s) /\ DOMAIN t = 1 .. Len(t)
           /\ DOMAIN (s \o t) = 1 .. Len(s) + Len(t)
           /\ \A i \in 1 .. Len(s) : (s \o t)[i] = s[i]
           /\ \A i \in 1 .. Len(t) : (s \o t)[Len(s) + i] = t[i]
<1>1. PICK S : s \in Seq(S) BY DEF IsSequence
<1>2. PICK T : t \in Seq(T) BY DEF IsSequence
<1>3. s \in Seq(S \cup T) /\ t \in Seq(S \cup T) BY <1>1, <1>2
<1> QED BY <1>3, ConcatParts DEF IsSequence

\* The lengths of the tables of rules.
LEMMA Three ==
    ASSUME NEW a1, NEW a2, NEW a3
    PROVE  /\ IsSequence(<<a1, a2, a3>>)
           /\ Len(<<a1, a2, a3>>) = 3
<1>1. <<a1, a2, a3>>
         \in Seq({a1, a2, a3})
  OBVIOUS
<1> QED BY <1>1 DEF IsSequence

\* Eight rules.
LEMMA Eight ==
    ASSUME NEW a1, NEW a2, NEW a3, NEW a4, NEW a5, NEW a6, NEW a7, NEW a8
    PROVE  /\ IsSequence(<<a1, a2, a3, a4, a5, a6, a7, a8>>)
           /\ Len(<<a1, a2, a3, a4, a5, a6, a7, a8>>) = 8
<1>1. <<a1, a2, a3, a4, a5, a6, a7, a8>>
         \in Seq({a1, a2, a3, a4, a5, a6, a7, a8})
  OBVIOUS
<1> QED BY <1>1 DEF IsSequence

\* Eleven rules.
LEMMA Eleven ==
    ASSUME NEW a1, NEW a2, NEW a3, NEW a4, NEW a5, NEW a6, NEW a7, NEW a8, NEW a9, NEW
           a10, NEW a11
    PROVE  /\ IsSequence(<<a1, a2, a3, a4, a5, a6, a7, a8, a9, a10, a11>>)
           /\ Len(<<a1, a2, a3, a4, a5, a6, a7, a8, a9, a10, a11>>) = 11
<1>1. <<a1, a2, a3, a4, a5, a6, a7, a8, a9, a10, a11>>
         \in Seq({a1, a2, a3, a4, a5, a6, a7, a8, a9, a10, a11})
  OBVIOUS
<1> QED BY <1>1 DEF IsSequence

\* Thirteen rules.
LEMMA Thirteen ==
    ASSUME NEW a1, NEW a2, NEW a3, NEW a4, NEW a5, NEW a6, NEW a7, NEW a8, NEW a9, NEW
           a10, NEW a11, NEW a12, NEW a13
    PROVE  /\ IsSequence(<<a1, a2, a3, a4, a5, a6, a7, a8, a9, a10, a11, a12, a13>>)
           /\ Len(<<a1, a2, a3, a4, a5, a6, a7, a8, a9, a10, a11, a12, a13>>) = 13
<1>1. <<a1, a2, a3, a4, a5, a6, a7, a8, a9, a10, a11, a12, a13>>
         \in Seq({a1, a2, a3, a4, a5, a6, a7, a8, a9, a10, a11, a12, a13})
  OBVIOUS
<1> QED BY <1>1 DEF IsSequence

\* The fixed rules begin with the critical ones.
LEMMA FixedRules ==
    /\ IsSequence(fixedRules)
    /\ fixedRules[1] = criticalRules[1] /\ fixedRules[2] = criticalRules[2]
    /\ Len(fixedRules) \in Nat /\ 2 <= Len(fixedRules)
<1>1. IsSequence(criticalRules) /\ Len(criticalRules) = 3 BY Zenon, Three DEF criticalRules
<1>2. IsSequence(silenceRules) BY Zenon, Thirteen DEF silenceRules
<1>3. IsSequence(loggingRules) BY Zenon, Three DEF loggingRules
<1>4. IsSequence(laterSilenceRules) BY Zenon, Eight DEF laterSilenceRules
<1>5. IsSequence(mixedRules)
  <2>1. ASSUME NEW condition, NEW rule PROVE IsSequence(When(condition, rule))
    <3>1. <<rule>> \in Seq({rule}) /\ << >> \in Seq({rule}) OBVIOUS
    <3>2. When(condition, rule) = <<rule>> \/ When(condition, rule) = << >>
      BY Zenon DEF When
    <3> QED BY Zenon, <3>1, <3>2 DEF IsSequence
  <2> QED BY Zenon, <2>1, Eleven, SequencesConcat DEF mixedRules
<1>6. /\ IsSequence(criticalRules \o silenceRules)
      /\ \A i \in 1 .. 3 : (criticalRules \o silenceRules)[i] = criticalRules[i]
      /\ Len(criticalRules \o silenceRules) \in Nat
      /\ 3 <= Len(criticalRules \o silenceRules)
  <2>1. /\ IsSequence(criticalRules \o silenceRules)
        /\ Len(criticalRules) \in Nat /\ Len(silenceRules) \in Nat
        /\ Len(criticalRules \o silenceRules) = Len(criticalRules) + Len(silenceRules)
        /\ \A i \in 1 .. Len(criticalRules) :
              (criticalRules \o silenceRules)[i] = criticalRules[i]
    BY Zenon, <1>1, <1>2, SequencesConcat
  <2> QED BY <1>1, <2>1
<1>7. ASSUME NEW s, IsSequence(s), Len(s) \in Nat, 3 <= Len(s),
             \A i \in 1 .. 3 : s[i] = criticalRules[i], NEW t, IsSequence(t)
      PROVE  /\ IsSequence(s \o t) /\ Len(s \o t) \in Nat /\ 3 <= Len(s \o t)
             /\ \A i \in 1 .. 3 : (s \o t)[i] = criticalRules[i]
  BY <1>7, SequencesConcat
<1> DEFINE long(s) == /\ IsSequence(s) /\ Len(s) \in Nat /\ 3 <= Len(s)
                      /\ \A i \in 1 .. 3 : s[i] = criticalRules[i]
<1>8. ASSUME NEW s, long(s), NEW t, IsSequence(t) PROVE long(s \o t)
  BY Zenon, <1>7, <1>8
<1>9. long(criticalRules \o silenceRules) BY Zenon, <1>6
<1> HIDE DEF long
<1>10. long(fixedRules) BY Zenon, <1>3, <1>4, <1>5, <1>8, <1>9 DEF fixedRules
<1> QED BY <1>10 DEF long

\* The first rule that matches decides.
LEMMA FirstDecides ==
    ASSUME NEW rules, IsSequence(rules), NEW alert, NEW i \in DOMAIN rules,
           Meets(rules[i].on, alert),
           \A j \in DOMAIN rules : Meets(rules[j].on, alert) => i <= j
    PROVE  Decide(rules, alert) = rules[i].class
<1> DEFINE matching == {j \in DOMAIN rules : Meets(rules[j].on, alert)}
<1>1. DOMAIN rules \subseteq Nat BY DEF IsSequence
<1>2. i \in matching /\ \A j \in matching : i <= j OBVIOUS
<1>3. matching \subseteq Nat BY <1>1
<1>4. Decide(rules, alert) = IF matching = {} THEN "null"
          ELSE rules[CHOOSE first \in matching : \A j \in matching : first <= j].class
  BY DEF Decide
<1> HIDE DEF matching
<1>5. matching # {} BY <1>2
<1>6. (CHOOSE first \in matching : \A j \in matching : first <= j) = i
  <2> DEFINE chosen == CHOOSE first \in matching : \A j \in matching : first <= j
  <2>1. chosen \in matching /\ \A j \in matching : chosen <= j BY Zenon, <1>2
  <2> HIDE DEF chosen
  <2>2. chosen <= i /\ i <= chosen /\ chosen \in Nat /\ i \in Nat BY <1>2, <1>3, <2>1
  <2>3. chosen = i BY <2>2
  <2> QED BY Zenon, <2>3 DEF chosen
<1> QED BY Zenon, <1>4, <1>5, <1>6

\* A rule that matches comes with a first one that does, which decides.
LEMMA SomeRuleDecides ==
    ASSUME NEW rules, IsSequence(rules), NEW alert,
           \E i \in DOMAIN rules : Meets(rules[i].on, alert)
    PROVE  \E i \in DOMAIN rules :
              /\ Meets(rules[i].on, alert)
              /\ \A j \in DOMAIN rules : Meets(rules[j].on, alert) => i <= j
              /\ Decide(rules, alert) = rules[i].class
<1> DEFINE matching == {j \in DOMAIN rules : Meets(rules[j].on, alert)}
<1>1. DOMAIN rules \subseteq Nat BY DEF IsSequence
<1>2. matching \subseteq Nat /\ matching # {} BY Zenon, <1>1
<1>3. \A j \in matching : j \in DOMAIN rules /\ Meets(rules[j].on, alert) OBVIOUS
<1>4. \A j \in DOMAIN rules : Meets(rules[j].on, alert) => j \in matching OBVIOUS
<1> HIDE DEF matching
<1>5. PICK i \in matching : \A j \in matching : i <= j BY Zenon, <1>2, LeastElement
<1>6. /\ i \in DOMAIN rules /\ Meets(rules[i].on, alert)
      /\ \A j \in DOMAIN rules : Meets(rules[j].on, alert) => i <= j
  BY Zenon, <1>3, <1>4, <1>5
<1>7. Decide(rules, alert) = rules[i].class BY Zenon, <1>6, FirstDecides
<1> QED BY Zenon, <1>6, <1>7

\* Without a rule that matches the table's own receiver, null, decides.
LEMMA NoRuleDecides ==
    ASSUME NEW rules, NEW alert, \A i \in DOMAIN rules : ~Meets(rules[i].on, alert)
    PROVE  Decide(rules, alert) = "null"
<1>1. {j \in DOMAIN rules : Meets(rules[j].on, alert)} = {} OBVIOUS
<1> QED BY Zenon, <1>1 DEF Decide

\* Division by the number of rules a namespace has in the PagerDuty table.
LEMMA Halves ==
    \A a \in Nat : \A b \in 0 .. 1 : (2 * a + b) \div 2 = a /\ (2 * a + b) % 2 = b
OBVIOUS

\* Division by the number of rules a namespace has in the GoAlert table.
LEMMA Thirds ==
    \A a \in Nat : \A b \in 0 .. 2 : (3 * a + b) \div 3 = a /\ (3 * a + b) % 3 = b
OBVIOUS

\* The rules of the namespaces, by namespace.
LEMMA NamespaceRules ==
    ASSUME NEW list \in Seq(Namespace), NEW type
    PROVE  /\ IsSequence(perNamespace(list, type))
           /\ subroutes(list, type) = fixedRules \o perNamespace(list, type)
           /\ \A j \in DOMAIN perNamespace(list, type) :
                 \E k \in DOMAIN list : \E n \in 1 .. ruleCount(type) :
                    perNamespace(list, type)[j] = namespaceRules(list[k], type)[n]
           /\ \A k \in DOMAIN list : \A n \in 1 .. ruleCount(type) :
                 \E j \in DOMAIN perNamespace(list, type) :
                    perNamespace(list, type)[j] = namespaceRules(list[k], type)[n]
<1> DEFINE rules == perNamespace(list, type)
           count == ruleCount(type)
<1>1. count = 2 \/ count = 3 BY DEF ruleCount
<1>2. Len(list) \in Nat /\ DOMAIN list = 1 .. Len(list) OBVIOUS
<1>3. subroutes(list, type) = fixedRules \o rules
  BY Zenon DEF subroutes, perNamespace, ruleCount
<1>4. rules = [j \in 1 .. count * Len(list) |->
                  namespaceRules(list[1 + ((j - 1) \div count)], type)[1 + ((j - 1) % count)]]
  BY Zenon DEF perNamespace
<1> HIDE DEF rules, count
<1>5. count * Len(list) \in Nat BY <1>1, <1>2
<1>6. IsSequence(rules)
  <2> DEFINE S == {rules[j] : j \in 1 .. count * Len(list)}
  <2>1. DOMAIN rules = 1 .. count * Len(list) /\ rules = [j \in DOMAIN rules |-> rules[j]]
    BY <1>4
  <2>2. rules \in [1 .. count * Len(list) -> S] BY <2>1
  <2> HIDE DEF S
  <2>3. rules \in Seq(S) BY <1>5, <2>2
  <2> QED BY <2>3 DEF IsSequence
<1>7. ASSUME NEW j \in DOMAIN rules
      PROVE  \E k \in DOMAIN list : \E n \in 1 .. count :
                rules[j] = namespaceRules(list[k], type)[n]
  <2>1. j \in 1 .. count * Len(list) BY <1>4
  <2>2. 1 + ((j - 1) \div count) \in 1 .. Len(list) /\ 1 + ((j - 1) % count) \in 1 .. count
    BY <1>1, <1>2, <2>1
  <2>3. rules[j] = namespaceRules(list[1 + ((j - 1) \div count)], type)[1 + ((j - 1) % count)]
    BY <1>4, <2>1
  <2> QED BY Zenon, <1>2, <2>2, <2>3
<1>8. ASSUME NEW k \in DOMAIN list, NEW n \in 1 .. count
      PROVE  \E j \in DOMAIN rules : rules[j] = namespaceRules(list[k], type)[n]
  <2> DEFINE j == count * (k - 1) + n
  <2>1. j \in 1 .. count * Len(list) BY <1>1, <1>2
  <2>2. 1 + ((j - 1) \div count) = k /\ 1 + ((j - 1) % count) = n
    <3>1. k - 1 \in Nat /\ n \in Int /\ n - 1 \in 0 .. count - 1 /\ k \in Int
      BY <1>1, <1>2
    <3>2. CASE count = 2
      <4>1. j - 1 = 2 * (k - 1) + (n - 1) BY <3>1, <3>2
      <4> HIDE DEF j
      <4>2. n - 1 \in 0 .. 1 BY <3>1, <3>2
      <4>3. (j - 1) \div 2 = k - 1 /\ (j - 1) % 2 = n - 1
        BY Zenon, <3>1, <4>1, <4>2, Halves
      <4> QED BY <3>1, <3>2, <4>3
    <3>3. CASE count = 3
      <4>1. j - 1 = 3 * (k - 1) + (n - 1) BY <3>1, <3>3
      <4> HIDE DEF j
      <4>2. n - 1 \in 0 .. 2 BY <3>1, <3>3
      <4>3. (j - 1) \div 3 = k - 1 /\ (j - 1) % 3 = n - 1
        BY Zenon, <3>1, <4>1, <4>2, Thirds
      <4> QED BY <3>1, <3>3, <4>3
    <3> HIDE DEF j
    <3> QED BY Zenon, <1>1, <3>2, <3>3
  <2> HIDE DEF j
  <2>3. j \in DOMAIN rules /\ rules[j] = namespaceRules(list[k], type)[n]
    BY <1>4, <2>1, <2>2
  <2> QED BY Zenon, <2>3
<1> QED BY Zenon, <1>3, <1>6, <1>7, <1>8 DEF rules, count

FixedRuleMeets(alert) == \E i \in DOMAIN fixedRules : Meets(fixedRules[i].on, alert)

NamespaceRuleMeets(list, type, alert) ==
    \E k \in DOMAIN list : \E n \in 1 .. ruleCount(type) :
        Meets(namespaceRules(list[k], type)[n].on, alert)

\* A fixed rule decides if there is one that matches; else a namespace's rule.
LEMMA TableDecides ==
    ASSUME NEW list \in Seq(Namespace), NEW type, NEW alert
    PROVE  LET decision == Decide(subroutes(list, type), alert)
           IN  /\ FixedRuleMeets(alert) => decision = Decide(fixedRules, alert)
               /\ (~FixedRuleMeets(alert) /\ NamespaceRuleMeets(list, type, alert)) =>
                     \E k \in DOMAIN list : \E n \in 1 .. ruleCount(type) :
                        decision = namespaceRules(list[k], type)[n].class
               /\ (~FixedRuleMeets(alert) /\ ~NamespaceRuleMeets(list, type, alert)) =>
                     decision = "null"
<1> DEFINE more == perNamespace(list, type)
           all == fixedRules \o more
<1>1. IsSequence(fixedRules) BY Zenon, FixedRules
<1>2. \A j \in DOMAIN more : \E k \in DOMAIN list : \E n \in 1 .. ruleCount(type) :
         more[j] = namespaceRules(list[k], type)[n]
  BY NamespaceRules
<1>3. \A k \in DOMAIN list : \A n \in 1 .. ruleCount(type) : \E j \in DOMAIN more :
         more[j] = namespaceRules(list[k], type)[n]
  BY NamespaceRules
<1>4. IsSequence(more) /\ subroutes(list, type) = all BY Zenon, NamespaceRules
<1> HIDE DEF more
<1>5. /\ IsSequence(all)
      /\ Len(fixedRules) \in Nat /\ Len(more) \in Nat
      /\ DOMAIN fixedRules = 1 .. Len(fixedRules) /\ DOMAIN more = 1 .. Len(more)
      /\ DOMAIN all = 1 .. Len(fixedRules) + Len(more)
      /\ \A i \in 1 .. Len(fixedRules) : all[i] = fixedRules[i]
      /\ \A i \in 1 .. Len(more) : all[Len(fixedRules) + i] = more[i]
  <2> DEFINE Parts(s, t) == /\ IsSequence(s \o t)
                            /\ Len(s) \in Nat /\ Len(t) \in Nat
                            /\ DOMAIN s = 1 .. Len(s) /\ DOMAIN t = 1 .. Len(t)
                            /\ DOMAIN (s \o t) = 1 .. Len(s) + Len(t)
                            /\ \A i \in 1 .. Len(s) : (s \o t)[i] = s[i]
                            /\ \A i \in 1 .. Len(t) : (s \o t)[Len(s) + i] = t[i]
  <2>1. ASSUME NEW s, NEW t, IsSequence(s), IsSequence(t) PROVE Parts(s, t)
    BY <2>1, SequencesConcat
  <2> HIDE DEF Parts
  <2>2. Parts(fixedRules, more) BY Zenon, <1>1, <1>4, <2>1
  <2> QED BY Zenon, <2>2 DEF Parts
<1> HIDE DEF all
<1>6. /\ DOMAIN fixedRules \subseteq DOMAIN all
      /\ \A i \in DOMAIN fixedRules : all[i] = fixedRules[i]
      /\ \A i \in DOMAIN fixedRules : \A j \in DOMAIN all : j \in DOMAIN fixedRules \/ i <= j
  BY <1>5
<1>7. ASSUME NEW i \in DOMAIN all, i \notin DOMAIN fixedRules
      PROVE  \E j \in DOMAIN more : all[i] = more[j]
  <2>1. i - Len(fixedRules) \in 1 .. Len(more) /\ i = Len(fixedRules) + (i - Len(fixedRules))
    BY <1>5, <1>7
  <2> QED BY Zenon, <1>5, <2>1
<1>8. \A j \in DOMAIN more : \E i \in DOMAIN all : all[i] = more[j]
  <2>1. \A j \in DOMAIN more : Len(fixedRules) + j \in DOMAIN all BY <1>5
  <2> QED BY Zenon, <1>5, <2>1
<1>9. ASSUME FixedRuleMeets(alert)
      PROVE  Decide(all, alert) = Decide(fixedRules, alert)
  <2>1. PICK i \in DOMAIN fixedRules :
           /\ Meets(fixedRules[i].on, alert)
           /\ \A j \in DOMAIN fixedRules : Meets(fixedRules[j].on, alert) => i <= j
           /\ Decide(fixedRules, alert) = fixedRules[i].class
    BY Zenon, <1>1, <1>9, SomeRuleDecides DEF FixedRuleMeets
  <2>2. \A j \in DOMAIN all : Meets(all[j].on, alert) => i <= j
    BY Zenon, <1>6, <2>1
  <2>3. i \in DOMAIN all /\ Meets(all[i].on, alert) BY Zenon, <1>6, <2>1
  <2>4. Decide(all, alert) = all[i].class BY Zenon, <1>5, <2>2, <2>3, FirstDecides
  <2> QED BY Zenon, <1>6, <2>1, <2>4
<1>10. ASSUME ~FixedRuleMeets(alert), NEW i \in DOMAIN all, Meets(all[i].on, alert)
      PROVE  \E j \in DOMAIN more : all[i] = more[j]
  BY Zenon, <1>6, <1>7, <1>10 DEF FixedRuleMeets
<1>11. ASSUME ~FixedRuleMeets(alert), NamespaceRuleMeets(list, type, alert)
      PROVE  \E k \in DOMAIN list : \E n \in 1 .. ruleCount(type) :
                Decide(all, alert) = namespaceRules(list[k], type)[n].class
  <2>1. \E i \in DOMAIN all : Meets(all[i].on, alert)
    <3>1. PICK k \in DOMAIN list, n \in 1 .. ruleCount(type) :
             Meets(namespaceRules(list[k], type)[n].on, alert)
      BY Zenon, <1>11 DEF NamespaceRuleMeets
    <3>2. PICK j \in DOMAIN more : more[j] = namespaceRules(list[k], type)[n] BY Zenon, <1>3
    <3>3. PICK i \in DOMAIN all : all[i] = more[j] BY Zenon, <1>8
    <3> QED BY Zenon, <3>1, <3>2, <3>3
  <2>2. PICK i \in DOMAIN all : Meets(all[i].on, alert) /\ Decide(all, alert) = all[i].class
    BY Zenon, <1>5, <2>1, SomeRuleDecides
  <2>3. PICK j \in DOMAIN more : all[i] = more[j] BY Zenon, <1>10, <1>11, <2>2
  <2>4. PICK k \in DOMAIN list, n \in 1 .. ruleCount(type) :
           more[j] = namespaceRules(list[k], type)[n]
    BY Zenon, <1>2
  <2> QED BY Zenon, <2>2, <2>3, <2>4
<1>12. ASSUME ~FixedRuleMeets(alert), ~NamespaceRuleMeets(list, type, alert)
       PROVE  Decide(all, alert) = "null"
  <2>1. ASSUME NEW i \in DOMAIN all, Meets(all[i].on, alert) PROVE FALSE
    <3>1. PICK j \in DOMAIN more : all[i] = more[j] BY Zenon, <1>10, <1>12, <2>1
    <3>2. PICK k \in DOMAIN list, n \in 1 .. ruleCount(type) :
             more[j] = namespaceRules(list[k], type)[n]
      BY Zenon, <1>2
    <3> QED BY Zenon, <1>12, <2>1, <3>1, <3>2 DEF NamespaceRuleMeets
  <2> QED BY Zenon, <2>1, NoRuleDecides
<1> QED BY Zenon, <1>4, <1>9, <1>11, <1>12

\* No element of the list accepts the empty namespace.
LEMMA AcceptedNotEmpty ==
    ASSUME NEW namespace \in Namespace
    PROVE  Empty \notin acceptedNamespaces(namespace)
<1>1. CASE \E name \in {string \in STRING : string # Empty} : namespace = <<"exactly", name>>
  BY <1>1 DEF acceptedNamespaces
<1>2. CASE \E which \in {"PDRegexOS", "PDRegexLP", "PDRegexKube"} :
              namespace = <<"default", which>>
  <2>1. Empty \notin PDRegexOS /\ Empty \notin PDRegexLP /\ Empty \notin PDRegexKube
    BY RoutingAssumption
  <2>2. namespace[1] # "exactly" /\ namespace[2] \in {"PDRegexOS", "PDRegexLP", "PDRegexKube"}
    BY <1>2
  <2>3. acceptedNamespaces(namespace) \in {PDRegexOS, PDRegexLP, PDRegexKube}
    BY <2>2 DEF acceptedNamespaces
  <2> QED BY Zenon, <2>1, <2>3
<1> QED BY Zenon, <1>1, <1>2 DEF Namespace

Local(namespace, alert) ==
    /\ alert["namespace"] \in acceptedNamespaces(namespace)
    /\ alert["exported_namespace"] = Empty
    /\ alert["prometheus"] = platform

Exported(namespace, alert) ==
    /\ alert["exported_namespace"] \in acceptedNamespaces(namespace)
    /\ alert["prometheus"] = platform

GoalertSeverity == {"critical", "error", "warning"}

\* What the rules of a namespace ask for; each passes the alert on.
LEMMA NamespaceRuleFields ==
    ASSUME NEW namespace, NEW alert
    PROVE  /\ ruleCount("GoAlert") = 3 /\ ruleCount("Pagerduty") = 2
           /\ \A n \in 1 .. 3 : namespaceRules(namespace, "GoAlert")[n].class # "null"
           /\ \A n \in 1 .. 2 : namespaceRules(namespace, "Pagerduty")[n].class # "null"
           /\ (\E n \in 1 .. 3 : Meets(namespaceRules(namespace, "GoAlert")[n].on, alert))
                 <=> Local(namespace, alert) /\ alert["severity"] \in GoalertSeverity
           /\ (\E n \in 1 .. 2 : Meets(namespaceRules(namespace, "Pagerduty")[n].on, alert))
                 <=> Local(namespace, alert) \/ Exported(namespace, alert)
<1>1. ruleCount("GoAlert") = 3 /\ ruleCount("Pagerduty") = 2 BY DEF ruleCount
<1> DEFINE g == namespaceRules(namespace, "GoAlert")
           p == namespaceRules(namespace, "Pagerduty")
           o(severity) == withSeverity(originatesIn(namespace), severity)
           e == [exported_namespace |-> acceptedNamespaces(namespace), prometheus |-> {platform}]
<1>2. /\ g = <<Rule("critical", o("critical")), Rule("error", o("error")),
               Rule("warning", o("warning"))>>
      /\ p = <<Rule("common", e), Rule("common", originatesIn(namespace))>>
  BY DEF namespaceRules
<1>3. ASSUME NEW severity
      PROVE  Meets(o(severity), alert) <=> Local(namespace, alert) /\ alert["severity"] = severity
  BY DEF Meets, withSeverity, originatesIn, Local
<1>4. Meets(originatesIn(namespace), alert) <=> Local(namespace, alert)
  BY DEF Meets, originatesIn, Local
<1>5. Meets(e, alert) <=> Exported(namespace, alert)
  BY DEF Meets, Exported
<1> HIDE DEF g, p, o, e
<1>6. /\ g[1].class = "critical" /\ g[2].class = "error" /\ g[3].class = "warning"
      /\ g[1].on = o("critical") /\ g[2].on = o("error") /\ g[3].on = o("warning")
  BY <1>2 DEF Rule
<1>7. /\ p[1].class = "common" /\ p[2].class = "common"
      /\ p[1].on = e /\ p[2].on = originatesIn(namespace)
  BY <1>2 DEF Rule
<1>8. 1 .. 3 = {1, 2, 3} /\ 1 .. 2 = {1, 2} OBVIOUS
<1>9. \A n \in 1 .. 3 : g[n].class # "null"
  <2>1. "critical" # "null" /\ "error" # "null" /\ "warning" # "null" OBVIOUS
  <2> QED BY Zenon, <1>6, <1>8, <2>1
<1>10. \A n \in 1 .. 2 : p[n].class # "null"
  <2>1. "common" # "null" OBVIOUS
  <2> QED BY Zenon, <1>7, <1>8, <2>1
<1>11. (\E n \in 1 .. 3 : Meets(g[n].on, alert))
          <=> Local(namespace, alert) /\ alert["severity"] \in GoalertSeverity
  BY Zenon, <1>3, <1>6, <1>8 DEF GoalertSeverity
<1>12. (\E n \in 1 .. 2 : Meets(p[n].on, alert))
          <=> Local(namespace, alert) \/ Exported(namespace, alert)
  BY Zenon, <1>4, <1>5, <1>7, <1>8
<1> QED BY Zenon, <1>1, <1>9, <1>10, <1>11, <1>12 DEF g, p

\* An alert that neither the OCM Agent nor CAD takes over gets to both tables.
LEMMA TablesVisited ==
    ASSUME NEW in, NEW alert, ~TakenOver(createAlertManagerConfig(in), alert),
           NEW n \in {4, 5}, n \in Present(in)
    PROVE  VisitedCandidate(in, TopLevel(alert), n)
<1> DEFINE c == candidates(in)
           labels == TopLevel(alert)
           config == createAlertManagerConfig(in)
<1>1. /\ c[1].continue = TRUE /\ c[4].continue = TRUE
      /\ c[4].match = "any" /\ c[5].match = "any"
  BY Zenon, CandidateFields DEF Fields
<1>2. /\ c[2].receiver = "ocmagent" /\ c[2].table = "none"
      /\ c[3].receiver = "cad-pagerduty" /\ c[3].table = "none"
  BY Zenon, CandidateFields DEF Fields
<1> HIDE DEF c, labels, config
<1>3. ASSUME NEW m \in {2, 3}, VisitedCandidate(in, labels, m) PROVE FALSE
  <2>1. m \in 1 .. 6 BY <1>3
  <2>2. PICK i \in DOMAIN config.routes : config.routes[i] = c[m] /\ Visits(config, labels, i)
    BY Zenon, <1>3, <2>1, VisitedRoutes DEF config, c
  <2>3. Handler(config.routes[i], alert) \in {"ocmagent", "cad-pagerduty"}
    <3>1. CASE m = 2 BY Zenon, <1>2, <2>2, <3>1 DEF Handler
    <3>2. CASE m = 3 BY Zenon, <1>2, <2>2, <3>2 DEF Handler
    <3> QED BY <3>1, <3>2
  <2>4. Handler(config.routes[i], alert) \in Deliveries(config, alert)
    BY Zenon, <2>2 DEF Deliveries, labels
  <2> QED BY Zenon, <2>3, <2>4 DEF TakenOver, config
<1>4. Present(in) \subseteq 1 .. 6 BY DEF Present
<1>5. ~(2 \in Present(in) /\ Matches(c[2], labels))
  <2> SUFFICES ASSUME 2 \in Present(in), Matches(c[2], labels) PROVE FALSE OBVIOUS
  <2>1. \A m \in Present(in) : m < 2 => c[m].continue
    <3>1. \A m \in Present(in) : m < 2 => m = 1 BY <1>4
    <3> QED BY Zenon, <1>1, <3>1
  <2>2. VisitedCandidate(in, labels, 2) BY Zenon, <2>1 DEF VisitedCandidate, c
  <2> QED BY Zenon, <1>3, <2>2
<1>6. ~(3 \in Present(in) /\ Matches(c[3], labels))
  <2> SUFFICES ASSUME 3 \in Present(in), Matches(c[3], labels) PROVE FALSE OBVIOUS
  <2>1. \A m \in Present(in) : m < 3 /\ Matches(c[m], labels) => c[m].continue
    <3>1. \A m \in Present(in) : m < 3 => m = 1 \/ m = 2 BY <1>4
    <3> QED BY Zenon, <1>1, <1>5, <3>1
  <2>2. VisitedCandidate(in, labels, 3) BY Zenon, <2>1 DEF VisitedCandidate, c
  <2> QED BY Zenon, <1>3, <2>2
<1>7. \A m \in Present(in) : m < n /\ Matches(c[m], labels) => c[m].continue
  <2>1. \A m \in Present(in) : m < n => m = 1 \/ m = 2 \/ m = 3 \/ m = 4 BY <1>4
  <2> QED BY Zenon, <1>1, <1>5, <1>6, <2>1
<1>8. Matches(c[n], labels) BY Zenon, <1>1 DEF Matches
<1> QED BY Zenon, <1>7, <1>8 DEF VisitedCandidate, c, labels

\* The candidate's table hands the alert on.
LEMMA TableHandles ==
    ASSUME NEW in, NEW alert
    PROVE  /\ Handler(candidates(in)[4], alert)
                 = receiverOf("Pagerduty")[Decide(subroutes(parseConfigMaps(in), "Pagerduty"), alert)]
           /\ Handler(candidates(in)[5], alert)
                 = receiverOf("GoAlert")[Decide(subroutes(parseConfigMaps(in), "GoAlert"), alert)]
<1>1. /\ candidates(in)[4].table = "Pagerduty" /\ candidates(in)[5].table = "GoAlert"
      /\ candidates(in)[4].namespaces = parseConfigMaps(in)
      /\ candidates(in)[5].namespaces = parseConfigMaps(in)
  BY Zenon, CandidateFields DEF Fields
<1>2. "Pagerduty" # "none" /\ "GoAlert" # "none" OBVIOUS
<1> QED BY Zenon, <1>1, <1>2 DEF Handler

\* The fixed rules make the loss of a master critical: the rule before the one for
\* it is about the heartbeat.
LEMMA MasterLossDecided ==
    ASSUME NEW alert, TerminatedMaster(alert)
    PROVE  FixedRuleMeets(alert) /\ Decide(fixedRules, alert) = "critical"
<1> DEFINE on1 == [alertname |-> {"Watchdog"}, severity |-> {"none"}]
           on2 == [alertname |-> {"MachineWithoutValidNode", "MachineWithNoRunningPhase"},
                   namespace |-> {"openshift-machine-api"}, name |-> MasterName]
<1>1. fixedRules[1] = Rule("null", on1) /\ fixedRules[2] = Rule("critical", on2)
  <2>1. ASSUME NEW a, NEW b, NEW d PROVE <<a, b, d>>[1] = a /\ <<a, b, d>>[2] = b OBVIOUS
  <2>2. criticalRules[1] = Rule("null", on1) /\ criticalRules[2] = Rule("critical", on2)
    BY Zenon, <2>1 DEF criticalRules
  <2> QED BY Zenon, <2>2, FixedRules
<1>2. ~Meets(on1, alert) BY DEF Meets, TerminatedMaster
<1>3. Meets(on2, alert) BY DEF Meets, TerminatedMaster
<1> HIDE DEF on1, on2
<1>4. fixedRules[1].on = on1 /\ fixedRules[2].on = on2 /\ fixedRules[2].class = "critical"
  BY <1>1 DEF Rule
<1>5. DOMAIN fixedRules = 1 .. Len(fixedRules) /\ Len(fixedRules) \in Nat /\ 2 <= Len(fixedRules)
  BY FixedRules DEF IsSequence
<1>6. 2 \in DOMAIN fixedRules BY <1>5
<1>7. \A j \in DOMAIN fixedRules : j = 1 \/ 2 <= j BY <1>5
<1>8. \A j \in DOMAIN fixedRules : Meets(fixedRules[j].on, alert) => 2 <= j
  BY Zenon, <1>2, <1>4, <1>7
<1>9. Meets(fixedRules[2].on, alert) BY Zenon, <1>3, <1>4
<1>10. IsSequence(fixedRules) BY Zenon, FixedRules
<1>11. Decide(fixedRules, alert) = fixedRules[2].class
  BY Zenon, <1>6, <1>8, <1>9, <1>10, FirstDecides
<1> QED BY Zenon, <1>4, <1>6, <1>9, <1>11 DEF FixedRuleMeets

\* The loss of a master is critical to both tables, whatever else the alert carries
\* and whichever Secrets are there (secret_controller.go:346-353).
THEOREM MasterLossPages == Spec => []MasterLossIsCriticalInv
<1>1. ASSUME NEW in, Documents(in), NEW alert
      PROVE  MasterLossIsCritical(createAlertManagerConfig(in), alert)
  <2> DEFINE config == createAlertManagerConfig(in)
             c == candidates(in)
             list == parseConfigMaps(in)
  <2> SUFFICES ASSUME TerminatedMaster(alert), ~TakenOver(config, alert)
               PROVE  /\ "pagerduty" \in ReceiverNames(config)
                            => "make-it-critical" \in Deliveries(config, alert)
                      /\ "goalert" \in ReceiverNames(config)
                            => "goalert-high" \in Deliveries(config, alert)
    BY DEF MasterLossIsCritical
  <2>1. list \in Seq(Namespace) BY Zenon, <1>1, NamespaceList
  <2>2. ASSUME NEW type PROVE Decide(subroutes(list, type), alert) = "critical"
    BY Zenon, <2>1, MasterLossDecided, TableDecides
  <2>3. /\ "pagerduty" \in ReceiverNames(config) => 4 \in Present(in)
        /\ "goalert" \in ReceiverNames(config) => 5 \in Present(in)
    <3>1. ASSUME NEW name \in ReceiverNames(config)
          PROVE  \E r \in createReceivers(in) : r.name = name
      BY <3>1, ConfigFields DEF Names
    <3>2. "pagerduty" \in ReceiverNames(config) => in.pagerdutyKey # Empty
      BY Zenon, <3>1, ReceiverOrigin DEF Origin
    <3>3. "goalert" \in ReceiverNames(config) => GoalertWanted(in)
      BY Zenon, <3>1, ReceiverOrigin DEF Origin
    <3> QED BY <3>2, <3>3 DEF Present
  <2>4. /\ Handler(c[4], alert) = "make-it-critical"
        /\ Handler(c[5], alert) = "goalert-high"
    <3>1. /\ receiverOf("Pagerduty")["critical"] = "make-it-critical"
          /\ receiverOf("GoAlert")["critical"] = "goalert-high"
      BY DEF receiverOf
    <3> QED BY Zenon, <2>2, <3>1, TableHandles
  <2>5. ASSUME NEW n \in {4, 5}, n \in Present(in)
        PROVE  Handler(c[n], alert) \in Deliveries(config, alert)
    <3>1. VisitedCandidate(in, TopLevel(alert), n) BY Zenon, <2>5, TablesVisited
    <3>2. n \in 1 .. 6 OBVIOUS
    <3>3. PICK i \in DOMAIN config.routes :
             config.routes[i] = c[n] /\ Visits(config, TopLevel(alert), i)
      BY Zenon, <3>1, <3>2, VisitedRoutes
    <3> HIDE DEF config, c
    <3> QED BY Zenon, <3>3 DEF Deliveries
  <2> HIDE DEF config, c
  <2> QED BY Zenon, <2>3, <2>4, <2>5
<1>2. TypeOK => MasterLossIsCriticalInv
  BY Zenon, <1>1, InputDocuments DEF MasterLossIsCriticalInv
<1> QED BY <1>2, TypeCorrect, PTL

LocalSomewhere(list, alert) == \E k \in DOMAIN list : Local(list[k], alert)
ExportedSomewhere(list, alert) == \E k \in DOMAIN list : Exported(list[k], alert)

\* When the rules of the namespaces catch an alert that no fixed rule does.
LEMMA NamespacesDecide ==
    ASSUME NEW list \in Seq(Namespace), NEW alert, ~FixedRuleMeets(alert)
    PROVE  /\ Decide(subroutes(list, "GoAlert"), alert) # "null"
                 <=> LocalSomewhere(list, alert) /\ alert["severity"] \in GoalertSeverity
           /\ Decide(subroutes(list, "Pagerduty"), alert) # "null"
                 <=> LocalSomewhere(list, alert) \/ ExportedSomewhere(list, alert)
<1>1. ASSUME NEW type \in {"GoAlert", "Pagerduty"}
      PROVE  Decide(subroutes(list, type), alert) # "null" <=> NamespaceRuleMeets(list, type, alert)
  <2>1. ASSUME NEW k \in DOMAIN list, NEW n \in 1 .. ruleCount(type)
        PROVE  namespaceRules(list[k], type)[n].class # "null"
    <3>1. CASE type = "GoAlert" BY Zenon, <3>1, NamespaceRuleFields
    <3>2. CASE type = "Pagerduty" BY Zenon, <3>2, NamespaceRuleFields
    <3> QED BY <3>1, <3>2
  <2>2. NamespaceRuleMeets(list, type, alert) =>
           \E k \in DOMAIN list : \E n \in 1 .. ruleCount(type) :
              Decide(subroutes(list, type), alert) = namespaceRules(list[k], type)[n].class
    BY Zenon, TableDecides
  <2>3. ~NamespaceRuleMeets(list, type, alert) => Decide(subroutes(list, type), alert) = "null"
    BY Zenon, TableDecides
  <2> QED BY Zenon, <2>1, <2>2, <2>3
<1>2. NamespaceRuleMeets(list, "GoAlert", alert)
         <=> LocalSomewhere(list, alert) /\ alert["severity"] \in GoalertSeverity
  <2>1. ruleCount("GoAlert") = 3 BY Zenon, NamespaceRuleFields
  <2>2. \A k \in DOMAIN list :
           (\E n \in 1 .. 3 : Meets(namespaceRules(list[k], "GoAlert")[n].on, alert))
              <=> Local(list[k], alert) /\ alert["severity"] \in GoalertSeverity
    BY Zenon, NamespaceRuleFields
  <2> QED BY Zenon, <2>1, <2>2 DEF NamespaceRuleMeets, LocalSomewhere
<1>3. NamespaceRuleMeets(list, "Pagerduty", alert)
         <=> LocalSomewhere(list, alert) \/ ExportedSomewhere(list, alert)
  <2>1. ruleCount("Pagerduty") = 2 BY Zenon, NamespaceRuleFields
  <2>2. \A k \in DOMAIN list :
           (\E n \in 1 .. 2 : Meets(namespaceRules(list[k], "Pagerduty")[n].on, alert))
              <=> Local(list[k], alert) \/ Exported(list[k], alert)
    BY Zenon, NamespaceRuleFields
  <2> QED BY Zenon, <2>1, <2>2 DEF NamespaceRuleMeets, LocalSomewhere, ExportedSomewhere
<1> QED BY Zenon, <1>1, <1>2, <1>3

\* An exported alert names the namespace it is about.
LEMMA ExportedIsNamed ==
    ASSUME NEW list \in Seq(Namespace), NEW alert, ExportedSomewhere(list, alert)
    PROVE  alert["exported_namespace"] # Empty
<1>1. PICK k \in DOMAIN list : Exported(list[k], alert) BY Zenon DEF ExportedSomewhere
<1>2. list[k] \in Namespace OBVIOUS
<1> QED BY Zenon, <1>1, <1>2, AcceptedNotEmpty DEF Exported

\* GoAlert is told what PagerDuty is told, for every namespace list, but for the
\* exported alerts and the severities it has no rule for (secret_controller.go:518-536).
THEOREM SameTables == Spec => []TablesAgreeInv
<1>1. ASSUME NEW list \in Seq(Namespace), NEW alert PROVE TablesAgree(list, alert)
  <2> DEFINE pagerduty == Decide(subroutes(list, "Pagerduty"), alert)
             goalert == Decide(subroutes(list, "GoAlert"), alert)
  <2>1. FixedRuleMeets(alert) => pagerduty = goalert BY Zenon, TableDecides
  <2>2. ~FixedRuleMeets(alert) =>
           /\ goalert # "null" <=> LocalSomewhere(list, alert) /\ alert["severity"] \in GoalertSeverity
           /\ pagerduty # "null" <=> LocalSomewhere(list, alert) \/ ExportedSomewhere(list, alert)
    BY Zenon, NamespacesDecide
  <2> HIDE DEF pagerduty, goalert
  <2>3. /\ goalert # "null" => pagerduty # "null"
        /\ (pagerduty # "null" /\ goalert = "null") =>
              \/ alert["exported_namespace"] # Empty
              \/ alert["severity"] \notin GoalertSeverity
    BY Zenon, <2>1, <2>2, ExportedIsNamed
  <2> QED BY Zenon, <2>3 DEF TablesAgree, pagerduty, goalert, GoalertSeverity
<1>2. TypeOK => parseConfigMaps(input) \in Seq(Namespace)
  BY Zenon, InputDocuments, NamespaceList
<1>3. TypeOK => TablesAgreeInv BY Zenon, <1>1, <1>2 DEF TablesAgreeInv
<1> QED BY <1>3, TypeCorrect, PTL

\* Only alerts about managed namespaces, and those named in the table, page, for
\* every namespace list and every alert (secret_controller.go:518-536).
THEOREM CustomersAreLeftOut == Spec => []CustomersDoNotPageInv
<1>1. ASSUME NEW list \in Seq(Namespace), NEW type \in {"Pagerduty", "GoAlert"}, NEW alert,
             Decide(subroutes(list, type), alert) # "null"
      PROVE  Managed(alert, list) \/ NamedInTable(alert)
  <2>1. CASE FixedRuleMeets(alert)
    <3>1. Decide(fixedRules, alert) # "null" BY Zenon, <1>1, <2>1, TableDecides
    <3>2. IsSequence(fixedRules) BY Zenon, FixedRules
    <3>3. PICK i \in DOMAIN fixedRules :
             Meets(fixedRules[i].on, alert) /\ Decide(fixedRules, alert) = fixedRules[i].class
      BY Zenon, <2>1, <3>2, SomeRuleDecides DEF FixedRuleMeets
    <3> QED BY Zenon, <3>1, <3>3 DEF NamedInTable
  <2>2. CASE ~FixedRuleMeets(alert)
    <3>1. LocalSomewhere(list, alert) \/ ExportedSomewhere(list, alert)
      <4>1. CASE type = "Pagerduty" BY Zenon, <1>1, <2>2, <4>1, NamespacesDecide
      <4>2. CASE type = "GoAlert" BY Zenon, <1>1, <2>2, <4>2, NamespacesDecide
      <4> QED BY <4>1, <4>2
    <3>2. CASE LocalSomewhere(list, alert)
      BY Zenon, <3>2 DEF LocalSomewhere, Local, Managed, Subject
    <3>3. CASE ExportedSomewhere(list, alert)
      <4>1. alert["exported_namespace"] # Empty BY Zenon, <3>3, ExportedIsNamed
      <4> QED BY Zenon, <3>3, <4>1 DEF ExportedSomewhere, Exported, Managed, Subject
    <3> QED BY <3>1, <3>2, <3>3
  <2> QED BY <2>1, <2>2
<1>2. ASSUME NEW in, Documents(in), NEW alert
      PROVE  CustomersDoNotPage(createAlertManagerConfig(in), alert)
  <2> DEFINE config == createAlertManagerConfig(in)
             c == candidates(in)
             list == parseConfigMaps(in)
  <2> SUFFICES ASSUME NEW i \in DOMAIN config.routes, config.routes[i].table # "none",
                      Visits(config, TopLevel(alert), i),
                      Handler(config.routes[i], alert) \in TablePages
               PROVE  Managed(alert, config.routes[i].namespaces) \/ NamedInTable(alert)
    BY DEF CustomersDoNotPage
  <2>1. PICK n \in 1 .. 6 : config.routes[i] = c[n] BY Zenon, VisitedRoutes
  <2>2. \A m \in {1, 2, 3, 6} : c[m].table = "none" BY Zenon, CandidateFields DEF Fields
  <2>3. \A m \in {4, 5} : c[m].namespaces = list BY Zenon, CandidateFields DEF Fields
  <2>4. list \in Seq(Namespace) BY Zenon, <1>2, NamespaceList
  <2>5. "null" \notin TablePages BY DEF TablePages
  <2>6. receiverOf("Pagerduty")["null"] = "null" /\ receiverOf("GoAlert")["null"] = "null"
    BY DEF receiverOf
  <2>7. n \in {1, 2, 3, 6} \/ n = 4 \/ n = 5 OBVIOUS
  <2>8. CASE n = 4
    <3>1. Decide(subroutes(list, "Pagerduty"), alert) # "null"
      BY Zenon, <2>1, <2>5, <2>6, <2>8, TableHandles
    <3>2. Managed(alert, list) \/ NamedInTable(alert) BY Zenon, <1>1, <2>4, <3>1
    <3> QED BY Zenon, <2>1, <2>3, <2>8, <3>2
  <2>9. CASE n = 5
    <3>1. Decide(subroutes(list, "GoAlert"), alert) # "null"
      BY Zenon, <2>1, <2>5, <2>6, <2>9, TableHandles
    <3>2. Managed(alert, list) \/ NamedInTable(alert) BY Zenon, <1>1, <2>4, <3>1
    <3> QED BY Zenon, <2>1, <2>3, <2>9, <3>2
  <2> QED BY Zenon, <2>1, <2>2, <2>7, <2>8, <2>9
<1>3. TypeOK => CustomersDoNotPageInv
  BY Zenon, <1>2, InputDocuments DEF CustomersDoNotPageInv
<1> QED BY <1>3, TypeCorrect, PTL
================================================================================
