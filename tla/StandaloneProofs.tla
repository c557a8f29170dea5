--------------------------- MODULE StandaloneProofs ---------------------------
(***************************************************************************)
(* What init_config and main promise of the configuration, for any         *)
(* environment and any command line, with and without OpenSSL.             *)
(***************************************************************************)
EXTENDS Standalone, TLAPS

\* po::store into an empty map takes a source as it is, and what is stored of
\* two sources is something either of them gives.
LEMMA MergeFacts ==
  ASSUME NEW old \in Sources, NEW src \in Sources
  PROVE  /\ Merge(old, src) \in Sources
         /\ (\A o \in Options : old[o] = "none") => Merge(old, src) = src
         /\ \A o \in Options :
              /\ old[o] # "none" => Merge(old, src)[o] = old[o]
              /\ Merge(old, src)[o] # "none" <=> old[o] # "none" \/ src[o] # "none"
BY DEF Merge, Sources

\* The first source and the second are the two that were given.
LEMMA SourcesAreGiven ==
  ASSUME TypeOK
  PROVE  /\ FirstSource \in Sources /\ SecondSource \in Sources
         /\ {FirstSource, SecondSource} = {env, cmd}
         /\ prio = "env" => FirstSource = env
BY DEF TypeOK, FirstSource, SecondSource, CommandLineFirst

\* The inductive invariant holds initially.
LEMMA InitIInv == Init => IInv
<1> SUFFICES ASSUME Init PROVE IInv
  OBVIOUS
<1>1. env \in Sources /\ cmd \in Sources
  BY InputsAreSources DEF Init
<1>2. vm \in Sources
  BY DEF Init, Sources, Values
<1> QED
  BY <1>1, <1>2 DEF Init, IInv, TypeOK, StoredInv, StartedInv, Backends

\* One round of po::store, from the first source or after it.
LEMMA StoreStep ==
  ASSUME IInv,
         \/ Store("store1", FirstSource, "store2")
         \/ Store("store2", SecondSource, "configure")
  PROVE  IInv'
<1> USE DEF IInv, TypeOK, StoredInv, StartedInv, Backends
<1>1. /\ env' = env /\ cmd' = cmd /\ prio' = prio /\ listening' = listening
      /\ FirstSource' = FirstSource /\ SecondSource' = SecondSource
  BY DEF Store, FirstSource, SecondSource, CommandLineFirst
<1>2. CASE Store("store1", FirstSource, "store2")
  <2>1. vm' = FirstSource
    <3>1. vm' = Merge(vm, FirstSource) /\ \A o \in Options : vm[o] = "none"
      BY <1>2 DEF Store
    <3> QED BY <3>1, MergeFacts, SourcesAreGiven
  <2>2. vm' \in Sources
    BY <2>1, SourcesAreGiven
  <2>3. pc' \in {"store2", "failed"} /\ listening = {}
    BY <1>2 DEF Store
  <2> QED BY <1>1, <2>1, <2>2, <2>3
<1>3. CASE Store("store2", SecondSource, "configure")
  <2>1. vm' = Merge(FirstSource, SecondSource) /\ listening = {}
    BY <1>3 DEF Store
  <2>2. vm' \in Sources
    BY <2>1, MergeFacts, SourcesAreGiven
  <2>3. \/ pc' = "failed"
        \/ pc' = "configure" /\ \A o \in Options : vm'[o] # "bad"
    BY <1>3 DEF Store
  <2>4. Merge(FirstSource, SecondSource)' = Merge(FirstSource, SecondSource)
    BY <1>1 DEF Merge
  <2> QED BY <1>1, <2>1, <2>2, <2>3, <2>4
<1> QED BY <1>2, <1>3

\* What the checks look at does not change once both sources are stored.
LEMMA ConfigStays ==
  ASSUME UNCHANGED <<env, cmd, prio, vm>>
  PROVE  /\ Merge(FirstSource, SecondSource)' = Merge(FirstSource, SecondSource)
         /\ FirstSource' = FirstSource
         /\ Acceptable' <=> Acceptable
         /\ \A b \in Backends : Enabled(b)' <=> Enabled(b)
BY DEF Merge, FirstSource, SecondSource, CommandLineFirst, Acceptable, Enabled

\* A server is constructed, or passed over, in the order of Backends.
LEMMA StartStep ==
  ASSUME IInv, NEW b \in Backends, NEW next,
         <<b, next>> \in {<<"tcp", "http">>, <<"http", "https">>, <<"https", "serving">>},
         StartServer(b, next)
  PROVE  IInv'
<1> USE DEF IInv, TypeOK, StoredInv, StartedInv
<1>1. UNCHANGED <<env, cmd, prio, vm>>
  BY DEF StartServer
<1>2. pc = b /\ pc' \in {next, "failed"}
  BY DEF StartServer
<1>3. TypeOK'
  BY <1>1, <1>2 DEF Backends, StartServer
<1>4. StoredInv'
  BY <1>1, <1>2, ConfigStays DEF Backends
<1>5. ASSUME pc' = next PROVE StartedInv'
  <2>1. Passed' = Passed \cup {b}
    BY <1>2, <1>5 DEF Passed, Backends
  <2>2. listening' = IF Enabled(b) /\ (b = "https" => HasOpenssl)
                     THEN listening \cup {b} ELSE listening
    BY <1>2, <1>5 DEF StartServer
  <2>3. listening = {x \in Passed : Enabled(x) /\ (x = "https" => HasOpenssl)}
    BY <1>2
  <2>4. Passed \subseteq Backends /\ b \notin Passed
    BY <1>2 DEF Passed, Backends
  <2>5. \A x \in Backends : Enabled(x)' <=> Enabled(x)
    BY <1>1, ConfigStays
  <2> HIDE DEF IInv, TypeOK, StoredInv
  <2> QED BY <2>1, <2>2, <2>3, <2>4, <2>5
<1>6. pc' = "failed" => StartedInv'
  BY DEF Backends
<1> QED BY <1>2, <1>3, <1>4, <1>5, <1>6

\* Every step preserves the inductive invariant.
LEMMA StepIInv == IInv /\ [Next]_vars => IInv'
<1> SUFFICES ASSUME IInv, [Next]_vars PROVE IInv'
  OBVIOUS
<1>1. CASE Store("store1", FirstSource, "store2") \/ Store("store2", SecondSource, "configure")
  BY <1>1, StoreStep
<1>2. CASE Configure
  <2>1. UNCHANGED <<env, cmd, prio, vm, listening>>
    BY <1>2 DEF Configure
  <2>2. pc = "configure" /\ (pc' = "failed" \/ (pc' = "models" /\ Acceptable))
    BY <1>2 DEF Configure
  <2> QED BY <2>1, <2>2, ConfigStays DEF IInv, TypeOK, StoredInv, StartedInv, Passed, Backends
<1>3. CASE PrepareModels
  <2>1. UNCHANGED <<env, cmd, prio, vm, listening>>
    BY <1>3 DEF PrepareModels
  <2>2. pc = "models" /\ pc' \in {"tcp", "failed"}
    BY <1>3 DEF PrepareModels
  <2> QED BY <2>1, <2>2, ConfigStays DEF IInv, TypeOK, StoredInv, StartedInv, Passed, Backends
<1>4. CASE StartServer("tcp", "http")
  BY <1>4, StartStep DEF Backends
<1>5. CASE StartServer("http", "https")
  BY <1>5, StartStep DEF Backends
<1>6. CASE StartServer("https", "serving")
  BY <1>6, StartStep DEF Backends
<1>7. CASE UNCHANGED vars
  <2>1. UNCHANGED <<env, cmd, prio, vm>> /\ pc' = pc /\ listening' = listening
    BY <1>7 DEF vars
  <2> QED BY <2>1, ConfigStays DEF IInv, TypeOK, StoredInv, StartedInv, Passed, Backends
<1> QED BY <1>1, <1>2, <1>3, <1>4, <1>5, <1>6, <1>7 DEF Next

\* The inductive invariant holds in every reachable state.
THEOREM ConfigInvariant == Spec => []IInv
  BY InitIInv, StepIInv, PTL DEF Spec

\* Types are respected, and nothing that does not parse gets past po::store.
THEOREM ConfigTypeCorrect == Spec => []TypeOK
<1>1. IInv => TypeOK
  BY DEF IInv
<1> QED BY <1>1, ConfigInvariant, PTL

\* A server that comes up listens on exactly the backends whose ports are given,
\* with the files they need, whatever the sources and their priority.
THEOREM ConfigServesAsConfigured == Spec => []ServesAsConfigured
<1>1. IInv => ServesAsConfigured
  <2> SUFFICES ASSUME IInv, pc = "serving" PROVE ServesAsConfigured
    BY DEF ServesAsConfigured
  <2>1. /\ vm = Merge(FirstSource, SecondSource) /\ Acceptable
        /\ listening = {b \in Backends : Enabled(b) /\ (b = "https" => HasOpenssl)}
    BY DEF IInv, StoredInv, StartedInv, Passed
  <2>2. \A o \in Options : vm[o] # "none" <=> env[o] # "none" \/ cmd[o] # "none"
    BY <2>1, MergeFacts, SourcesAreGiven DEF IInv
  <2>3. \A b \in Backends : Enabled(b) <=> env[Port(b)] # "none" \/ cmd[Port(b)] # "none"
    BY <2>2 DEF Enabled, Port, Options, Backends
  <2>4. listening # {}
    BY <2>1, HasOpensslIsBoolean DEF Acceptable, Backends
  <2>5. "https" \in listening =>
          \A o \in {"https-cert", "https-key"} : env[o] # "none" \/ cmd[o] # "none"
    BY <2>1, <2>2 DEF Acceptable, Options
  <2>6. vm["swagger-url-path"] # "reserved"
    BY <2>1 DEF Acceptable
  <2> QED BY <2>1, <2>3, <2>4, <2>5, <2>6 DEF ServesAsConfigured
<1> QED BY <1>1, ConfigInvariant, PTL

\* ONNX_SERVER_CONFIG_PRIORITY=env gives the environment the last word on every
\* option it mentions.
THEOREM ConfigEnvironmentWins == Spec => []EnvironmentWins
<1>1. IInv => EnvironmentWins
  <2> SUFFICES ASSUME IInv, pc = "serving", prio = "env",
                      NEW o \in Options, env[o] # "none"
               PROVE  vm[o] = env[o]
    BY DEF EnvironmentWins
  <2>1. vm = Merge(FirstSource, SecondSource) /\ FirstSource = env
    BY SourcesAreGiven DEF IInv, StoredInv
  <2> QED BY <2>1, MergeFacts, SourcesAreGiven DEF IInv
<1> QED BY <1>1, ConfigInvariant, PTL
=============================================================================
