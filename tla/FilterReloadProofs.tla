------------------------- MODULE FilterReloadProofs -------------------------
(***************************************************************************)
(* Proofs about FilterReload, for any files, queries and callers.          *)
(***************************************************************************)
EXTENDS FilterReload, SetInduction, TLAPS

-----------------------------------------------------------------------------
(***************************************************************************)
(* While a reload is under way it may still see the file of the last       *)
(* SIGHUP.  Once it has read the file, either it has seen a version that   *)
(* is recent enough or another SIGHUP is pending.                          *)
(***************************************************************************)
VersionInv ==
    /\ version \in Nat /\ hupVersion \in Nat /\ readVersion \in Nat
    /\ hupVersion <= version
    /\ readVersion <= version

HasRead == main \in {"options", "listen", "metrics", "wait", "store"}

ReloadInv == HasRead /\ ~chReload => readVersion >= hupVersion

Inv == VersionInv /\ ReloadInv

LEMMA InitInv == Init => Inv
  BY DEF Init, Inv, VersionInv, ReloadInv, HasRead

LEMMA StepInv == Inv /\ [Next]_vars => Inv'
<1> SUFFICES ASSUME Inv, [Next]_vars PROVE Inv'
  OBVIOUS
<1> USE DEF Inv, VersionInv, ReloadInv, HasRead
<1>1. ASSUME NEW f \in Files, EditFile(f) PROVE Inv'
  BY <1>1 DEF EditFile, signalVars, mainVars
<1>2. CASE Sighup
  BY <1>2 DEF Sighup, fileVars, mainVars
<1>3. CASE Sigterm
  BY <1>3 DEF Sigterm, fileVars, mainVars
<1>4. CASE ReceiveExit
  BY <1>4 DEF ReceiveExit, fileVars
<1>5. CASE ReceiveReload
  BY <1>5 DEF ReceiveReload, fileVars
<1>6. CASE readConfigStat
  BY <1>6 DEF readConfigStat, ReloadFails, fileVars, signalVars
<1>7. CASE readConfigDecode
  BY <1>7 DEF readConfigDecode, ReloadFails, fileVars, signalVars
<1>8. CASE UpdateConfig
  BY <1>8 DEF UpdateConfig, MainStep, fileVars, signalVars
<1>9. CASE Boot
  BY <1>9 DEF Boot, BuildOptions, BuildOptionsFails, Start, StartFails,
              StartMetricsLog, StartMetricsLogFails, MainStep, fileVars,
              signalVars
<1>10. CASE StopReturns
  BY <1>10 DEF StopReturns, MainStep, fileVars, signalVars
<1>11. ASSUME NEW c \in Callers, Handler(c) PROVE Inv'
  BY <1>11 DEF Handler, FilterCall, FilterParse, FilterStmt, HandlerReturns,
               fileVars, signalVars, mainVars
<1>12. CASE UNCHANGED vars
  BY <1>12 DEF vars, fileVars, signalVars, mainVars
<1> QED
  BY <1>1, <1>2, <1>3, <1>4, <1>5, <1>6, <1>7, <1>8, <1>9, <1>10, <1>11,
     <1>12
  DEF Next, Finished, run, readConfig

\* No SIGHUP is lost to the one-place channel: whenever the wait loop of run
\* is at its select with nothing pending, the last read of the file saw it as
\* it was at the last SIGHUP or later.
THEOREM ReloadNotLost == Spec => []NoReloadLost
<1>1. Inv => NoReloadLost
  BY DEF Inv, ReloadInv, HasRead, NoReloadLost
<1> QED BY <1>1, InitInv, StepInv, PTL DEF Spec

-----------------------------------------------------------------------------
(***************************************************************************)
(* The options that Start was given are those of the file the process was  *)
(* booted with, and buildStartOptions had no objection to it.  Until the   *)
(* boot is over, that file is also the last one read.                      *)
(***************************************************************************)
OptionsFit ==
    /\ booted \in ServerSections
    /\ opts = buildStartOptions(booted)
    /\ ~buildStartOptionsFails(booted)

BootInv ==
    /\ main \in {"options", "listen", "exited", "failed"} => ~listening
    /\ main = "options" => booted \in ServerSections
    /\ main \in {"options", "listen", "metrics"} => read.server = booted
    /\ main = "listen" \/ listening => OptionsFit
    /\ listening => opts.acl # "bad"

LEMMA InitBoot == Init => BootInv
  BY DEF Init, BootInv

LEMMA StepBoot == BootInv /\ file \in Files /\ [Next]_vars => BootInv'
<1> SUFFICES ASSUME BootInv, file \in Files, [Next]_vars PROVE BootInv'
  OBVIOUS
<1> USE DEF BootInv, OptionsFit
<1>1. ASSUME NEW f \in Files, EditFile(f) PROVE BootInv'
  BY <1>1 DEF EditFile, mainVars, bootVars
<1>2. CASE Sighup
  BY <1>2 DEF Sighup, mainVars, bootVars
<1>3. CASE Sigterm
  BY <1>3 DEF Sigterm, mainVars, bootVars
<1>4. CASE ReceiveExit
  BY <1>4 DEF ReceiveExit, bootVars
<1>5. CASE ReceiveReload
  BY <1>5 DEF ReceiveReload, bootVars
<1>6. CASE readConfigStat
  BY <1>6 DEF readConfigStat, ReloadFails, Booting, bootVars
<1>7. CASE readConfigDecode
  <2>1. ProxyConfig(file).server = file.server
    BY DEF ProxyConfig
  <2>2. file.server \in ServerSections
    BY FilesAssumption
  <2> QED BY <1>7, <2>1, <2>2 DEF readConfigDecode, ReloadFails, Booting
<1>8. CASE UpdateConfig
  BY <1>8 DEF UpdateConfig, MainStep, bootVars
<1>9. CASE BuildOptions
  BY <1>9 DEF BuildOptions, MainStep
<1>10. CASE Start
  BY <1>10 DEF Start, MainStep
<1>11. CASE BuildOptionsFails \/ StartFails \/ StartMetricsLog
  BY <1>11 DEF BuildOptionsFails, StartFails, StartMetricsLog, MainStep,
               bootVars
<1>12. CASE StartMetricsLogFails \/ StopReturns
  BY <1>12 DEF StartMetricsLogFails, StopReturns, MainStep
<1>13. ASSUME NEW c \in Callers, Handler(c) PROVE BootInv'
  <2>1. UNCHANGED mainVars
    BY <1>13 DEF Handler, FilterCall, FilterParse, FilterStmt, HandlerReturns
  <2> QED BY <2>1 DEF mainVars, bootVars
<1>14. CASE UNCHANGED vars
  BY <1>14 DEF vars, mainVars, bootVars
<1> QED
  BY <1>1, <1>2, <1>3, <1>4, <1>5, <1>6, <1>7, <1>8, <1>9, <1>10, <1>11,
     <1>12, <1>13, <1>14
  DEF Next, Finished, run, readConfig, Boot

LEMMA FileStays == file \in Files /\ [Next]_vars => file' \in Files
  BY DEF Next, EditFile, Sighup, Sigterm, run, readConfig, readConfigStat,
         readConfigDecode, Boot, BuildOptions, BuildOptionsFails, Start,
         StartFails, StartMetricsLog, StartMetricsLogFails, ReceiveExit,
         ReceiveReload, StopReturns, UpdateConfig, MainStep, Handler,
         FilterCall, FilterParse, FilterStmt, HandlerReturns, Finished, vars,
         fileVars

LEMMA BootHolds == Spec => [](BootInv /\ file \in Files)
<1>1. Init => BootInv /\ file \in Files
  BY InitBoot DEF Init
<1>2. BootInv /\ file \in Files /\ [Next]_vars => (BootInv /\ file \in Files)'
  BY StepBoot, FileStays
<1> QED BY <1>1, <1>2, PTL DEF Spec

\* The proxy serves only with the TLS, access control, limit and timeout that
\* its boot file asks for, for every configuration file and whatever is
\* edited and reloaded later; only a TLSClientCA without TLSCert and TLSKey is
\* ignored (buildStartOptions).
THEOREM ServesAsConfigured == Spec => []ServedAsConfigured
<1>1. BootInv => ServedAsConfigured
  <2> SUFFICES ASSUME BootInv, listening PROVE ServedAsConfigured
    BY DEF ServedAsConfigured
  <2>1. /\ booted.cert \in {"", "pem", "bad"} /\ booted.key \in {"", "pem", "bad"}
        /\ booted.ca \in {"", "pem", "bad"} /\ booted.acl \in {"", "list", "bad"}
        /\ booted.idle \in {"", "5m", "zero", "bad"}
    BY DEF BootInv, OptionsFit, ServerSections
  <2>2. /\ opts.tls = IF ~WantsTLS(booted) THEN "off"
                      ELSE IF booted.ca = "" THEN "server" ELSE "mutual"
        /\ opts.acl = booted.acl
        /\ opts.maxConnections = IF booted.max > 0 THEN booted.max ELSE 0
        /\ opts.idleTimeout = IF booted.idle \in {"", "zero"} THEN "none"
                              ELSE booted.idle
    <3>1. opts = buildStartOptions(booted)
      BY DEF BootInv, OptionsFit
    <3> QED BY <3>1 DEF buildStartOptions, WantsTLS
  <2>3. /\ WantsTLS(booted) =>
               booted.cert = "pem" /\ booted.key = "pem" /\ booted.ca # "bad"
        /\ booted.idle # "bad"
    BY DEF BootInv, OptionsFit, buildStartOptionsFails,
           NewFrontendTLSConfigFails
  <2>4. "bad" \notin {booted.cert, booted.key, booted.acl, booted.idle}
    BY <2>1, <2>2, <2>3 DEF BootInv, WantsTLS
  <2>5. IF booted.cert = "" /\ booted.key = ""
        THEN opts.tls = "off"
        ELSE /\ booted.cert = "pem" /\ booted.key = "pem" /\ booted.ca # "bad"
             /\ opts.tls = IF booted.ca = "pem" THEN "mutual" ELSE "server"
    BY <2>1, <2>2, <2>3 DEF WantsTLS
  <2>6. opts.idleTimeout = IF booted.idle = "5m" THEN "5m" ELSE "none"
    BY <2>1, <2>2, <2>3
  <2> QED BY <2>2, <2>4, <2>5, <2>6 DEF ServedAsConfigured
<1> QED BY <1>1, BootHolds, PTL

\* Once ready, the process is not ended by an edit, a signal or a reload that
\* fails, but by its own metrics interval alone.
THEOREM DiesOnlyOfMetricsHolds == Spec => DiesOnlyOfMetrics
<1>1. BootInv /\ [Next]_vars =>
          [listening /\ main' = "failed" =>
               booted.metrics \in {"bad", "zero"}]_vars
  <2> SUFFICES ASSUME BootInv, Next, listening, main' = "failed"
               PROVE booted.metrics \in {"bad", "zero"}
    OBVIOUS
  <2> USE DEF BootInv
  <2>1. ASSUME NEW f \in Files, EditFile(f) PROVE FALSE
    BY <2>1 DEF EditFile, mainVars
  <2>2. CASE Sighup \/ Sigterm
    BY <2>2 DEF Sighup, Sigterm, mainVars
  <2>3. CASE readConfig
    BY <2>3 DEF readConfig, readConfigStat, readConfigDecode, ReloadFails,
                Booting
  <2>4. CASE ReceiveExit \/ ReceiveReload \/ StopReturns \/ UpdateConfig
    BY <2>4 DEF ReceiveExit, ReceiveReload, StopReturns, UpdateConfig, MainStep
  <2>5. CASE Boot
    BY <2>5 DEF Boot, BuildOptions, BuildOptionsFails, Start, StartFails,
                StartMetricsLog, StartMetricsLogFails, MainStep
  <2>6. ASSUME NEW c \in Callers, Handler(c) PROVE FALSE
    <3>1. UNCHANGED mainVars
      BY <2>6 DEF Handler, FilterCall, FilterParse, FilterStmt, HandlerReturns
    <3> QED BY <3>1 DEF mainVars
  <2>7. CASE Finished
    BY <2>7 DEF Finished, vars, mainVars
  <2> QED BY <2>1, <2>2, <2>3, <2>4, <2>5, <2>6, <2>7 DEF Next, run
<1> QED BY <1>1, BootHolds, PTL DEF Spec, DiesOnlyOfMetrics

-----------------------------------------------------------------------------
(* The rules *)

\* One round of walkNodeTree: the visited nodes and their children.
Round(tree, nodes) == nodes \cup UNION {tree[n].kids : n \in nodes}

\* The function that walkNodeTree defines recursively, on 0..len.
IsWalk(v, tree, len) ==
    v = [d \in 0..len |-> IF d = 0 THEN {1} ELSE Round(tree, v[d - 1])]

LEMMA WalkExists ==
  ASSUME NEW tree, NEW len \in Nat
  PROVE  \E v : IsWalk(v, tree, len)
<1> DEFINE T == {n \in Nat : \E v : IsWalk(v, tree, n)}
<1>1. 0 \in T
  <2> DEFINE v == [d \in 0..0 |-> {1}]
  <2>1. IsWalk(v, tree, 0)
    BY DEF IsWalk
  <2> QED BY <2>1
<1>2. ASSUME NEW n \in Nat, n \in T PROVE n + 1 \in T
  <2>1. PICK v : IsWalk(v, tree, n)
    BY <1>2
  <2> DEFINE w == [d \in 0..(n + 1) |->
                      IF d = n + 1 THEN Round(tree, v[n]) ELSE v[d]]
  <2>2. ASSUME NEW d \in 0..(n + 1)
        PROVE  w[d] = IF d = 0 THEN {1} ELSE Round(tree, w[d - 1])
    <3>1. CASE d = n + 1
      <4>1. w[d] = Round(tree, v[n]) /\ w[d - 1] = v[n] /\ d # 0
        BY <3>1
      <4> QED BY <4>1
    <3>2. CASE d # n + 1
      <4>1. d \in 0..n /\ w[d] = v[d]
        BY <3>2
      <4>2. d # 0 => d - 1 \in 0..(n + 1) /\ d - 1 # n + 1 /\ w[d - 1] = v[d - 1]
        BY <3>2
      <4>3. v[d] = IF d = 0 THEN {1} ELSE Round(tree, v[d - 1])
        BY <2>1, <4>1 DEF IsWalk
      <4> QED BY <4>1, <4>2, <4>3
    <3> QED BY <3>1, <3>2
  <2>3. IsWalk(w, tree, n + 1)
    BY <2>2 DEF IsWalk
  <2> QED BY <2>3
<1> HIDE DEF T
<1>3. len \in T
  BY <1>1, <1>2, NatSetInduction
<1> QED BY <1>3 DEF T

\* walkNodeTree visits every node, at whatever depth it stands.
LEMMA WalkVisitsAll ==
  ASSUME NEW tree \in Trees
  PROVE  walkNodeTree(tree) = DOMAIN tree
<1> DEFINE N == Len(tree)
           V == CHOOSE v : IsWalk(v, tree, N)
<1>1. /\ N \in Nat /\ N > 0 /\ DOMAIN tree = 1..N
      /\ \A n \in 1..N : tree[n].kids \subseteq 1..N
      /\ \A n \in (1..N) \ {1} : \E m \in 1..(n - 1) : n \in tree[m].kids
  <2>1. tree \in Seq(Nodes) /\ tree # << >>
    BY DEF Trees
  <2>2. N \in Nat /\ N > 0 /\ DOMAIN tree = 1..N
    BY <2>1
  <2>3. /\ \A n \in DOMAIN tree : tree[n].kids \subseteq DOMAIN tree
        /\ \A n \in DOMAIN tree \ {1} : \E m \in 1..(n - 1) : n \in tree[m].kids
    BY DEF Trees
  <2> HIDE DEF N
  <2> QED BY <2>2, <2>3
<1>2. IsWalk(V, tree, N)
  BY <1>1, WalkExists
<1>3. walkNodeTree(tree) = V[N]
  BY DEF walkNodeTree, IsWalk, Round
<1> HIDE DEF N, V
<1>4. /\ V[0] = {1}
      /\ \A d \in Nat : d + 1 <= N => V[d + 1] = Round(tree, V[d])
  <2>1. \A d \in 0..N : V[d] = IF d = 0 THEN {1} ELSE Round(tree, V[d - 1])
    BY <1>2 DEF IsWalk
  <2>2. 0 \in 0..N
    BY <1>1
  <2>3. ASSUME NEW d \in Nat, d + 1 <= N PROVE V[d + 1] = Round(tree, V[d])
    <3>1. d + 1 \in 0..N /\ d + 1 # 0 /\ (d + 1) - 1 = d
      BY <1>1, <2>3
    <3> QED BY <2>1, <3>1
  <2> QED BY <2>1, <2>2, <2>3
<1> DEFINE Good(d) == /\ V[d] \subseteq 1..N
                      /\ \A n \in 1..N : n <= d + 1 => n \in V[d]
           T == {d \in Nat : d <= N => Good(d)}
<1>5. 0 \in T
  BY <1>1, <1>4
<1>6. ASSUME NEW d \in Nat, d \in T PROVE d + 1 \in T
  <2> SUFFICES ASSUME d + 1 <= N PROVE Good(d + 1)
    OBVIOUS
  <2>1. Good(d) /\ V[d + 1] = V[d] \cup UNION {tree[n].kids : n \in V[d]}
    <3>1. d <= N
      BY <1>1
    <3>2. Good(d)
      BY <1>6, <3>1
    <3> QED BY <1>4, <3>2 DEF Round
  <2>2. V[d + 1] \subseteq 1..N
    BY <1>1, <2>1
  <2>3. ASSUME NEW n \in 1..N, n <= (d + 1) + 1 PROVE n \in V[d + 1]
    <3>1. CASE n <= d + 1
      BY <2>1, <3>1
    <3>2. CASE n = d + 2
      <4>1. PICK m \in 1..(n - 1) : n \in tree[m].kids
        BY <1>1, <3>2
      <4>2. m \in V[d]
        BY <1>1, <2>1, <3>2, <4>1
      <4> QED BY <2>1, <4>1, <4>2
    <3> QED BY <1>1, <2>3, <3>1, <3>2
  <2> QED BY <2>2, <2>3
<1> HIDE DEF T
<1>7. N \in T
  BY <1>1, <1>5, <1>6, NatSetInduction
<1>8. Good(N)
  BY <1>1, <1>7 DEF T
<1>9. \A n \in 1..N : n <= N + 1
  BY <1>1
<1>10. V[N] = 1..N
  BY <1>8, <1>9
<1> QED BY <1>1, <1>3, <1>10

\* The case of Filter's switch for a node is the documented rule for it.
LEMMA NodeRule ==
  ASSUME NEW rules, NEW node \in Nodes
  PROVE  /\ isFilteredStmtType(node.kind) =>
                (NodeAllowed(rules, node) <=> ~Forbidden(rules, node))
         /\ ~isFilteredStmtType(node.kind) => ~Forbidden(rules, node)
<1>1. (\A v \in rules.block_set_vars : ~EqualFold(node.name, v)) <=>
          node.name.word \notin {v.word : v \in rules.block_set_vars}
  BY DEF EqualFold
<1>2. ~isFilteredStmtType(node.kind) => ~Forbidden(rules, node)
  BY DEF isFilteredStmtType, StmtTypes, Forbidden
<1>3. ASSUME isFilteredStmtType(node.kind)
      PROVE  NodeAllowed(rules, node) <=> ~Forbidden(rules, node)
  BY <1>1, <1>3 DEF isFilteredStmtType, StmtTypes, Forbidden, NodeAllowed
<1> QED BY <1>2, <1>3

\* The rules of Filter are the documented ones: for every configuration and
\* every syntax tree, however deep, an iteration of Filter's loop lets a
\* statement pass exactly when no node of it breaks a rule and the signature
\* lists let it through.
THEOREM RulesMatch ==
  ASSUME NEW rules, NEW stmt \in Statements
  PROVE  StmtPasses(rules, stmt) <=> StmtPermitted(rules, stmt)
<1> DEFINE tree == stmt.tree
<1>1. tree \in Trees /\ \A n \in DOMAIN tree : tree[n] \in Nodes
  BY DEF Statements, Trees
<1>2. extractStatements(tree) =
          {tree[n] : n \in {m \in DOMAIN tree : isFilteredStmtType(tree[m].kind)}}
  BY <1>1, WalkVisitsAll DEF extractStatements
<1>3. (\A node \in extractStatements(tree) : NodeAllowed(rules, node)) <=>
          ~\E n \in DOMAIN tree : Forbidden(rules, tree[n])
  <2>1. (\A node \in extractStatements(tree) : NodeAllowed(rules, node)) <=>
            \A n \in DOMAIN tree :
                isFilteredStmtType(tree[n].kind) => NodeAllowed(rules, tree[n])
    BY <1>2
  <2>2. ASSUME NEW n \in DOMAIN tree
        PROVE  (isFilteredStmtType(tree[n].kind) => NodeAllowed(rules, tree[n]))
                   <=> ~Forbidden(rules, tree[n])
    BY <1>1, NodeRule
  <2> QED BY <2>1, <2>2
<1>4. SignaturePasses(rules, stmt.sig) <=>
          \/ ~rules.signature_filter_enabled
          \/ /\ stmt.sig # Unnormalized
             /\ \/ /\ stmt.sig \notin rules.block_signatures
                   /\ \/ stmt.sig \in rules.allow_signatures
                      \/ rules.signature_allow_by_default
                \/ rules.signature_audit_mode
  BY DEF SignaturePasses, SignatureBlocked
<1> QED BY <1>3, <1>4 DEF StmtPasses, StmtPermitted

-----------------------------------------------------------------------------
(* Types and verdicts *)

\* What has been read and stored when the process serves.
ReadInv ==
    /\ main \in {"options", "listen", "metrics", "store"} =>
           read \in ProxyConfigs
    /\ main = "listen" \/ listening => config \in Configs

\* A call goes by one configuration that was in force during it, and has
\* passed the statements before the one it looks at.
CallInv ==
    \A c \in Callers :
        /\ pc[c] # "idle" => cfg[c] \in current[c] /\ query[c] \in Queries
        /\ pc[c] = "loop" =>
               /\ query[c].parses
               /\ next[c] \in 1..(Len(query[c].stmts) + 1)
               /\ \A i \in 1..(next[c] - 1) :
                      StmtPasses(cfg[c], query[c].stmts[i])
        /\ pc[c] = "done" => verdict[c] = Permits(cfg[c], query[c])

LEMMA InitTypes == Init => TypeOK /\ ReadInv /\ CallInv
<1> SUFFICES ASSUME Init PROVE TypeOK /\ ReadInv /\ CallInv
  OBVIOUS
<1>1. version \in 0..MaxEdits /\ hupVersion \in 0..version
      /\ readVersion \in 0..version
  BY FilesAssumption DEF Init
<1> QED BY <1>1 DEF Init, TypeOK, ReadInv, CallInv

LEMMA ConfigOf ==
  ASSUME read \in ProxyConfigs
  PROVE  read.filter \in Configs /\ read.server \in ServerSections
  BY FilesAssumption DEF ProxyConfigs, ProxyConfig, Configs, GoodFiles

\* A step that leaves the calls alone.
LEMMA CallsQuiet ==
  ASSUME CallInv, UNCHANGED <<callVars, current>>
  PROVE  CallInv'
  BY DEF CallInv, callVars

LEMMA OperatorTypes ==
  ASSUME TypeOK, ReadInv, CallInv, Alive,
         (\E f \in Files : EditFile(f)) \/ Sighup \/ Sigterm
  PROVE  TypeOK' /\ ReadInv' /\ CallInv'
<1> USE DEF mainVars, bootVars, fileVars, signalVars
<1>1. UNCHANGED <<mainVars, callVars, current>>
  BY DEF EditFile, Sighup, Sigterm
<1>2. CallInv'
  BY <1>1, CallsQuiet
<1>3. ReadInv'
  BY <1>1 DEF ReadInv
<1>4. /\ file' \in Files /\ version' \in 0..MaxEdits
      /\ chReload' \in BOOLEAN /\ chExit' \in {"none", "sent", "taken"}
      /\ hupVersion' \in 0..version' /\ readVersion' \in 0..version'
  <2>1. /\ version \in Nat /\ version <= MaxEdits /\ MaxEdits \in Nat
        /\ hupVersion \in 0..version /\ readVersion \in 0..version
    BY FilesAssumption DEF TypeOK
  <2>2. CASE \E f \in Files : EditFile(f)
    <3>1. /\ version < MaxEdits /\ version' = version + 1 /\ file' \in Files
          /\ UNCHANGED <<chReload, chExit, hupVersion, readVersion>>
      BY <2>2 DEF EditFile
    <3>2. version' \in 0..MaxEdits
      BY <2>1, <3>1
    <3>3. hupVersion' \in 0..version' /\ readVersion' \in 0..version'
      BY <2>1, <3>1
    <3> QED BY <3>1, <3>2, <3>3 DEF TypeOK
  <2>3. CASE Sighup
    BY <2>1, <2>3 DEF Sighup, TypeOK
  <2>4. CASE Sigterm
    BY <2>4 DEF Sigterm, TypeOK
  <2> QED BY <2>2, <2>3, <2>4
<1> QED BY <1>1, <1>2, <1>3, <1>4 DEF TypeOK, callVars

LEMMA BuildOptionsTypes ==
  ASSUME NEW s \in ServerSections, ~buildStartOptionsFails(s)
  PROVE  buildStartOptions(s) \in startConfig
<1>1. /\ s.acl \in {"", "list", "bad"} /\ s.max \in Int
      /\ s.idle \in {"", "5m", "zero", "bad"} /\ s.idle # "bad"
  BY DEF ServerSections, buildStartOptionsFails
<1>2. (IF s.max > 0 THEN s.max ELSE 0) \in Nat
  <2>1. \A x \in Int : (IF x > 0 THEN x ELSE 0) \in Nat
    OBVIOUS
  <2> QED BY <1>1, <2>1
<1>3. (IF s.idle \in {"", "zero"} THEN "none" ELSE s.idle) \in {"none", "5m"}
  BY <1>1
<1> QED BY <1>1, <1>2, <1>3 DEF buildStartOptions, startConfig

LEMMA runTypes ==
  ASSUME TypeOK, ReadInv, CallInv, run
  PROVE  TypeOK' /\ ReadInv' /\ CallInv'
<1> USE DEF fileVars, signalVars
<1>1. UNCHANGED <<file, version, hupVersion, callVars>>
  BY DEF run, readConfig, readConfigStat, readConfigDecode, Boot, BuildOptions,
         BuildOptionsFails, Start, StartFails, StartMetricsLog,
         StartMetricsLogFails, ReceiveExit, ReceiveReload, StopReturns,
         UpdateConfig, MainStep
<1>2. chReload' \in BOOLEAN /\ chExit' \in {"none", "sent", "taken"}
  BY DEF run, readConfig, readConfigStat, readConfigDecode, Boot, BuildOptions,
         BuildOptionsFails, Start, StartFails, StartMetricsLog,
         StartMetricsLogFails, ReceiveExit, ReceiveReload, StopReturns,
         UpdateConfig, MainStep, TypeOK
<1>3. ASSUME UNCHANGED current,
             main' \in {"stat", "decode", "options", "listen", "metrics",
                        "wait", "store", "stopping", "exited", "failed"},
             read' \in ProxyConfigs \cup {Nil}, opts' \in startConfig \cup {Nil},
             config' \in Configs \cup {Nil}, listening' \in BOOLEAN,
             readVersion' \in {readVersion, version}, ReadInv'
      PROVE  TypeOK' /\ ReadInv' /\ CallInv'
  <2>1. CallInv'
    BY <1>1, <1>3, CallsQuiet
  <2>2. readVersion' \in 0..version'
    BY <1>1, <1>3, FilesAssumption DEF TypeOK
  <2> QED BY <1>1, <1>2, <1>3, <2>1, <2>2 DEF TypeOK, callVars
<1>4. CASE readConfigStat
  <2>1. /\ UNCHANGED <<current, read, config, opts, listening>>
        /\ main' \in {"failed", "wait", "decode"}
        /\ readVersion' \in {readVersion, version}
    BY <1>4 DEF readConfigStat, ReloadFails, bootVars
  <2> QED BY <1>3, <2>1 DEF TypeOK, ReadInv
<1>5. CASE readConfigDecode
  <2>1. /\ UNCHANGED <<current, config, opts, listening>>
        /\ main' \in {"failed", "wait", "options", "store"}
        /\ readVersion' = version
        /\ \/ UNCHANGED read /\ main' \in {"failed", "wait"}
           \/ read' = ProxyConfig(file) /\ file.state = "good"
    BY <1>5 DEF readConfigDecode, ReloadFails
  <2>2. file.state = "good" => ProxyConfig(file) \in ProxyConfigs
    BY DEF TypeOK, ProxyConfigs, GoodFiles
  <2> QED BY <1>3, <2>1, <2>2 DEF TypeOK, ReadInv
<1>6. CASE BuildOptions
  <2>1. /\ main = "options" /\ main' = "listen"
        /\ ~buildStartOptionsFails(read.server)
        /\ opts' = buildStartOptions(read.server) /\ config' = read.filter
        /\ UNCHANGED <<read, readVersion, listening, current>>
    BY <1>6 DEF BuildOptions, MainStep
  <2>2. opts' \in startConfig /\ config' \in Configs
    BY <2>1, ConfigOf, BuildOptionsTypes DEF ReadInv
  <2> QED BY <1>3, <2>1, <2>2 DEF TypeOK, ReadInv
<1>7. CASE Start
  <2>1. /\ main = "listen" /\ main' = "metrics" /\ listening'
        /\ listening' \in BOOLEAN
        /\ UNCHANGED <<read, config, readVersion, opts, current>>
    BY <1>7 DEF Start, MainStep
  <2> QED BY <1>3, <2>1 DEF TypeOK, ReadInv
<1>8. CASE StartMetricsLogFails \/ StopReturns
  <2>1. /\ main' \in {"failed", "exited"} /\ listening' = FALSE
        /\ UNCHANGED <<read, config, readVersion, opts, current>>
    BY <1>8 DEF StartMetricsLogFails, StopReturns, MainStep
  <2> QED BY <1>3, <2>1 DEF TypeOK, ReadInv
<1>11. CASE StartMetricsLog
  <2>1. /\ main' = "wait" /\ read' = Nil
        /\ UNCHANGED <<config, readVersion, opts, listening, current>>
    BY <1>11 DEF StartMetricsLog, MainStep, bootVars
  <2> QED BY <1>3, <2>1 DEF TypeOK, ReadInv
<1>9. CASE \/ BuildOptionsFails \/ StartFails \/ ReceiveExit \/ ReceiveReload
  <2>1. /\ main' \in {"failed", "wait", "stopping", "stat"}
        /\ UNCHANGED <<read, config, readVersion, opts, listening, current>>
    BY <1>9 DEF BuildOptionsFails, StartFails, ReceiveExit, ReceiveReload,
                MainStep, bootVars
  <2> QED BY <1>3, <2>1 DEF TypeOK, ReadInv
<1>10. CASE UpdateConfig
  <2>1. /\ main = "store" /\ main' = "wait" /\ config' = read.filter
        /\ current' = [c \in Callers |->
                          IF pc[c] = "idle" THEN current[c]
                          ELSE current[c] \cup {read.filter}]
        /\ read' = Nil /\ UNCHANGED <<readVersion, opts, listening>>
    BY <1>10 DEF UpdateConfig, MainStep, NewRules, bootVars
  <2>2. config' \in Configs
    BY <2>1, ConfigOf DEF ReadInv
  <2>3. /\ current' \in [Callers -> SUBSET Configs]
        /\ \A c \in Callers : current[c] \subseteq current'[c]
    BY <2>1, <2>2 DEF TypeOK
  <2>4. CallInv'
    <3> SUFFICES ASSUME NEW c \in Callers PROVE CallInv!(c)'
      BY DEF CallInv
    <3> QED BY <1>1, <2>3 DEF CallInv, callVars
  <2>5. ReadInv'
    BY <2>1, <2>2 DEF ReadInv
  <2>6. readVersion' \in 0..version'
    BY <1>1, <2>1 DEF TypeOK
  <2> QED BY <1>1, <1>2, <2>1, <2>2, <2>3, <2>4, <2>5, <2>6 DEF TypeOK, callVars
<1> QED BY <1>4, <1>5, <1>6, <1>7, <1>8, <1>9, <1>10, <1>11
        DEF run, readConfig, Boot

\* Filter's answer to a query it has looked at to the end.
LEMMA AllPass ==
  ASSUME NEW rules, NEW q \in Queries, q.parses
  PROVE  Permits(rules, q) <=>
             \A i \in 1..Len(q.stmts) : StmtPasses(rules, q.stmts[i])
<1>1. q.stmts \in Seq(Statements)
  BY QueriesAssumption
<1>2. DOMAIN q.stmts = 1..Len(q.stmts)
      /\ \A i \in 1..Len(q.stmts) : q.stmts[i] \in Statements
  BY <1>1
<1>3. \A i \in 1..Len(q.stmts) :
          StmtPasses(rules, q.stmts[i]) <=> StmtPermitted(rules, q.stmts[i])
  BY <1>2, RulesMatch
<1> QED BY <1>2, <1>3 DEF Permits

LEMMA HandlerTypes ==
  ASSUME TypeOK, ReadInv, CallInv, NEW c \in Callers, Handler(c)
  PROVE  TypeOK' /\ ReadInv' /\ CallInv'
<1> USE DEF mainVars, bootVars, fileVars, signalVars
<1>1. UNCHANGED <<fileVars, signalVars, mainVars>>
  BY DEF Handler, FilterCall, FilterParse, FilterStmt, HandlerReturns
<1>2. ReadInv'
  BY <1>1 DEF ReadInv
<1>3. ASSUME NEW v, Return(c, v), UNCHANGED <<query, cfg, current, next>>,
             pc[c] # "idle", v \in BOOLEAN, v = Permits(cfg[c], query[c])
      PROVE  TypeOK' /\ ReadInv' /\ CallInv'
  <2>1. /\ pc' = [pc EXCEPT ![c] = "done"]
        /\ verdict' = [verdict EXCEPT ![c] = v]
    BY <1>3 DEF Return
  <2>2. TypeOK'
    BY <1>1, <1>3, <2>1 DEF TypeOK
  <2>3. CallInv'
    <3> SUFFICES ASSUME NEW d \in Callers PROVE CallInv!(d)'
      BY DEF CallInv
    <3>1. CASE d = c
      <4>1. pc'[d] = "done" /\ verdict'[d] = v
        BY <2>1, <3>1 DEF TypeOK
      <4> QED BY <1>3, <3>1, <4>1 DEF CallInv
    <3>2. CASE d # c
      <4>1. pc'[d] = pc[d] /\ verdict'[d] = verdict[d]
        BY <2>1, <3>2 DEF TypeOK
      <4> QED BY <1>3, <4>1 DEF CallInv
    <3> QED BY <3>1, <3>2
  <2> QED BY <1>2, <2>2, <2>3
<1>4. ASSUME NEW q \in Queries, FilterCall(c, q)
      PROVE  TypeOK' /\ ReadInv' /\ CallInv'
  <2>1. /\ listening /\ pc' = [pc EXCEPT ![c] = "parse"]
        /\ query' = [query EXCEPT ![c] = q] /\ cfg' = [cfg EXCEPT ![c] = config]
        /\ current' = [current EXCEPT ![c] = {config}]
        /\ UNCHANGED <<next, verdict>>
    BY <1>4 DEF FilterCall
  <2>2. config \in Configs
    BY <2>1 DEF ReadInv
  <2>3. CallInv!(c)' /\ cfg'[c] \in Configs
    BY <2>1, <2>2 DEF TypeOK
  <2>4. ASSUME NEW d \in Callers, d # c
        PROVE  /\ pc'[d] = pc[d] /\ query'[d] = query[d] /\ cfg'[d] = cfg[d]
               /\ current'[d] = current[d]
    BY <2>1, <2>4 DEF TypeOK
  <2>5. TypeOK'
    BY <1>1, <2>1, <2>2, <2>3, <2>4 DEF TypeOK
  <2>6. CallInv'
    BY <2>1, <2>3, <2>4 DEF CallInv
  <2> QED BY <1>2, <2>5, <2>6
<1>5. CASE FilterParse(c)
  <2>1. CASE ~query[c].parses /\ Return(c, ParseErrorPasses(cfg[c]))
             /\ UNCHANGED next
    <3>1. ParseErrorPasses(cfg[c]) = Permits(cfg[c], query[c])
      BY <2>1 DEF ParseErrorPasses, Permits
    <3>2. ParseErrorPasses(cfg[c]) \in BOOLEAN
      BY DEF ParseErrorPasses
    <3> QED BY <1>3, <1>5, <2>1, <3>1, <3>2 DEF FilterParse
  <2>2. CASE /\ query[c].parses /\ pc' = [pc EXCEPT ![c] = "loop"]
             /\ next' = [next EXCEPT ![c] = 1] /\ UNCHANGED verdict
    <3>1. pc[c] = "parse" /\ UNCHANGED <<query, cfg, current>>
      BY <1>5 DEF FilterParse
    <3>2. TypeOK'
      BY <1>1, <2>2, <3>1 DEF TypeOK
    <3>3. Len(query[c].stmts) \in Nat
      BY <3>1, QueriesAssumption DEF CallInv
    <3>4. CallInv!(c)'
      <4>1. pc'[c] = "loop" /\ next'[c] = 1
        BY <2>2 DEF TypeOK
      <4>2. 1 \in 1..(Len(query[c].stmts) + 1) /\ 1..(1 - 1) = {}
        BY <3>3
      <4> QED BY <2>2, <3>1, <4>1, <4>2 DEF CallInv
    <3>5. ASSUME NEW d \in Callers, d # c
          PROVE  pc'[d] = pc[d] /\ next'[d] = next[d]
      BY <2>2, <3>5 DEF TypeOK
    <3>6. CallInv'
      BY <2>2, <3>1, <3>4, <3>5 DEF CallInv
    <3> QED BY <1>2, <3>2, <3>6
  <2> QED BY <1>5, <2>1, <2>2 DEF FilterParse, InUse
<1>6. CASE FilterStmt(c)
  <2> DEFINE n == next[c]
             stmts == query[c].stmts
  <2>1. /\ pc[c] = "loop" /\ UNCHANGED <<query, cfg, current>>
        /\ query[c] \in Queries /\ query[c].parses
        /\ n \in 1..(Len(stmts) + 1)
        /\ \A i \in 1..(n - 1) : StmtPasses(cfg[c], stmts[i])
    BY <1>6 DEF FilterStmt, CallInv
  <2>2. Len(stmts) \in Nat
    BY <2>1, QueriesAssumption
  <2>3. Permits(cfg[c], query[c]) <=>
            \A i \in 1..Len(stmts) : StmtPasses(cfg[c], stmts[i])
    BY <2>1, AllPass
  <2>4. Permits(cfg[c], query[c]) \in BOOLEAN
    BY <2>1 DEF Permits
  <2>5. CASE n > Len(stmts) /\ Return(c, TRUE) /\ UNCHANGED next
    <3>1. \A i \in 1..Len(stmts) : StmtPasses(cfg[c], stmts[i])
      <4>1. n - 1 = Len(stmts)
        BY <2>1, <2>2, <2>5
      <4> HIDE DEF n, stmts
      <4> QED BY <2>1, <4>1
    <3>2. Permits(cfg[c], query[c]) = TRUE
      BY <2>3, <2>4, <3>1
    <3> QED BY <1>3, <2>1, <2>5, <3>2
  <2>6. CASE /\ n <= Len(stmts) /\ ~StmtPasses(cfg[c], stmts[n])
             /\ Return(c, FALSE) /\ UNCHANGED next
    <3>1. n \in 1..Len(stmts)
      BY <2>1, <2>2, <2>6
    <3>2. Permits(cfg[c], query[c]) = FALSE
      BY <2>3, <2>4, <2>6, <3>1
    <3> QED BY <1>3, <2>1, <2>6, <3>2
  <2>7. CASE /\ n <= Len(stmts) /\ StmtPasses(cfg[c], stmts[n])
             /\ next' = [next EXCEPT ![c] = @ + 1]
             /\ UNCHANGED <<pc, verdict>>
    <3>1. /\ next'[c] = n + 1
          /\ \A d \in Callers : d # c => next'[d] = next[d]
          /\ next' \in [Callers -> Nat]
      BY <2>7 DEF TypeOK
    <3>2. TypeOK'
      BY <1>1, <2>1, <2>7, <3>1 DEF TypeOK
    <3>3. n + 1 \in 1..(Len(stmts) + 1)
      BY <2>1, <2>2, <2>7
    <3>4. \A i \in 1..((n + 1) - 1) : i \in 1..(n - 1) \/ i = n
      BY <2>1, <2>2
    <3>5. CallInv!(c)'
      BY <2>1, <2>7, <3>1, <3>3, <3>4 DEF CallInv
    <3>6. CallInv'
      BY <2>1, <2>7, <3>1, <3>5 DEF CallInv
    <3> QED BY <1>2, <3>2, <3>6
  <2> QED BY <1>6, <2>5, <2>6, <2>7 DEF FilterStmt, InUse
<1>7. CASE HandlerReturns(c)
  <2>1. /\ pc' = [pc EXCEPT ![c] = "idle"]
        /\ query' = [query EXCEPT ![c] = NoQuery]
        /\ next' = [next EXCEPT ![c] = 1]
        /\ verdict' = [verdict EXCEPT ![c] = FALSE]
        /\ UNCHANGED <<cfg, current>>
    BY <1>7 DEF HandlerReturns
  <2>2. TypeOK'
    BY <1>1, <2>1 DEF TypeOK
  <2>3. CallInv!(c)'
    BY <2>1 DEF TypeOK
  <2>4. ASSUME NEW d \in Callers, d # c
        PROVE  /\ pc'[d] = pc[d] /\ query'[d] = query[d] /\ next'[d] = next[d]
               /\ verdict'[d] = verdict[d]
    BY <2>1, <2>4 DEF TypeOK
  <2>5. ASSUME NEW d \in Callers, d # c PROVE CallInv!(d)'
    BY <2>1, <2>4, <2>5 DEF CallInv
  <2>6. CallInv'
    BY <2>3, <2>5 DEF CallInv
  <2> QED BY <1>2, <2>2, <2>6
<1> QED BY <1>4, <1>5, <1>6, <1>7 DEF Handler

LEMMA TypesHold == Spec => [](TypeOK /\ ReadInv /\ CallInv)
<1>1. TypeOK /\ ReadInv /\ CallInv /\ [Next]_vars =>
          TypeOK' /\ ReadInv' /\ CallInv'
  <2> SUFFICES ASSUME TypeOK, ReadInv, CallInv, [Next]_vars
               PROVE  TypeOK' /\ ReadInv' /\ CallInv'
    OBVIOUS
  <2>1. CASE UNCHANGED vars
    <3>1. CallInv' /\ ReadInv'
      BY <2>1, CallsQuiet DEF vars, mainVars, bootVars, ReadInv
    <3> QED BY <2>1, <3>1 DEF vars, fileVars, signalVars, mainVars, bootVars,
                              callVars, TypeOK
  <2>2. CASE Next
    BY <2>1, <2>2, OperatorTypes, runTypes, HandlerTypes
       DEF Next, Finished, Sighup, Sigterm
  <2> QED BY <2>1, <2>2
<1> QED BY <1>1, InitTypes, PTL DEF Spec

\* The rules in force, and those a call of Filter goes by, are at any time what
\* some version of the file says in full.
THEOREM TypeCorrect == Spec => []TypeOK
  BY TypesHold, PTL

\* Every verdict of Filter is the documented one under a configuration that
\* was in force during the call, for any number of callers and statements, any
\* syntax trees and any reloads in between.
THEOREM VerdictsSound == Spec => []VerdictSound
<1>1. CallInv => VerdictSound
  BY DEF CallInv, VerdictSound
<1> QED BY <1>1, TypesHold, PTL
=============================================================================
