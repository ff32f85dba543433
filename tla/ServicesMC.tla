----------------------------- MODULE ServicesMC -----------------------------
(***************************************************************************)
(* The parts of the system that share no state with one another, each on   *)
(* a small instance, checked side by side: a behaviour chooses one of them *)
(* and the others rest.                                                    *)
(***************************************************************************)
EXTENDS RollupCache, Breaker, PageWalk, ModelRegistry, LetterReplay, LoginThrottle,
        Enrolment, Baseline, Reading, TapeReplay

CONSTANT Machines                       \* those a behaviour may choose

VARIABLE active

(* Small instances. *)
CONSTANTS r1, r2, c1, c2, c3, d1, d2, w1, v1, v2, stuff, m1, m2, u1, a1, l1, l2, p1,
          t1, t2, t3, t4, ace, star, bat, camera, o1, o2

BothStuff    == v1 :> stuff @@ v2 :> stuff
HomeQueue    == m1 :> 1 @@ m2 :> 2
OneLetterEach == <<<<m1>>, <<m2>>>>
\* A pitcher and a batter who pitches meet from both sides; one event gives no
\* side and no device, another no batter either.
Pitchers     == t1 :> ace  @@ t2 :> star @@ t3 :> bat @@ t4 :> star
Batters      == t1 :> star @@ t2 :> ace  @@ t3 :> star @@ t4 :> Unnamed
Stands       == t1 :> "known" @@ t2 :> "known" @@ t3 :> Unknown @@ t4 :> Unknown
Cameras      == t1 :> camera @@ t2 :> camera @@ t3 :> Unnamed @@ t4 :> Unnamed
ReadDistances == -12..20
\* For every field a value inside its bounds, on an edge of them or just
\* outside.
Reports ==
  [f \in Field |->
     CASE f = "release_speed" -> {95, 200}
       [] f = "spin_axis"     -> {0, 200, 361}
       [] f = "pfx_x"         -> {10, 73}
       [] f = "plate_x"       -> {17, -97}
       [] f = "plate_z"       -> {84}
       [] f = "sz_top"        -> {48, 84}
       [] f = "sz_bot"        -> {36, 5}]
Line(u, a, p, i, r, s) ==
  [uid |-> u, atBat |-> a, pitch |-> p, inning |-> i, runners |-> r, strikes |-> s]
\* Two outings interleaved, the first one's pitches out of order.
ShuffledTape ==
  <<Line(o1, 1, 2, 1, FALSE, 0), Line(o1, 1, 1, 1, FALSE, 0), Line(o2, 5, 1, 3, TRUE, 2),
    Line(o1, 2, 1, 2, TRUE, 2), Line(o2, 6, 1, 3, FALSE, 0)>>
Dates  == o1 :> 0 @@ o2 :> Undated
Jitter == o1 :> <<-2, 4, 0, 1>> @@ o2 :> <<3, 0, -1, 2>>

----------------------------------------------------------------------------
servicesVars ==
  <<active, rollupVars, breakerVars, walkVars, registryVars, letterVars, throttleVars,
    enrolVars, outings, readingVars, tapeVars>>

\* A machine that rests rests in one initial state.
ServicesInit ==
  /\ active \in Machines
  /\ RollupInit /\ BreakerInit /\ LetterInit /\ ThrottleInit /\ EnrolInit
  /\ BaselineInit /\ TapeInit
  /\ WalkInit
  /\ active # "walk" => \A r \in Row : table[r] = NoKey
  /\ RegistryInit
  /\ active # "registry" => loaded = [k \in Variant |-> CHOOSE v \in Version : VariantOf[v] = k]
  /\ ReadingInit
  /\ active # "reading" => hands = [throws |-> "R", stand |-> "R"]

Turn(machine) == active = machine /\ UNCHANGED active

ServicesNext ==
  \/ /\ Turn("rollup") /\ RollupNext
     /\ UNCHANGED <<breakerVars, walkVars, registryVars, letterVars, throttleVars,
                    enrolVars, outings, readingVars, tapeVars>>
  \/ /\ Turn("breaker") /\ BreakerNext
     /\ UNCHANGED <<rollupVars, walkVars, registryVars, letterVars, throttleVars,
                    enrolVars, outings, readingVars, tapeVars>>
  \/ /\ Turn("walk") /\ WalkNext
     /\ UNCHANGED <<rollupVars, breakerVars, registryVars, letterVars, throttleVars,
                    enrolVars, outings, readingVars, tapeVars>>
  \/ /\ Turn("registry") /\ RegistryNext
     /\ UNCHANGED <<rollupVars, breakerVars, walkVars, letterVars, throttleVars,
                    enrolVars, outings, readingVars, tapeVars>>
  \/ /\ Turn("letters") /\ LetterNext
     /\ UNCHANGED <<rollupVars, breakerVars, walkVars, registryVars, throttleVars,
                    enrolVars, outings, readingVars, tapeVars>>
  \/ /\ Turn("throttle") /\ ThrottleNext
     /\ UNCHANGED <<rollupVars, breakerVars, walkVars, registryVars, letterVars,
                    enrolVars, outings, readingVars, tapeVars>>
  \/ /\ Turn("enrolment") /\ EnrolNext
     /\ UNCHANGED <<rollupVars, breakerVars, walkVars, registryVars, letterVars,
                    throttleVars, outings, readingVars, tapeVars>>
  \/ /\ Turn("baseline") /\ BaselineNext
     /\ UNCHANGED <<rollupVars, breakerVars, walkVars, registryVars, letterVars,
                    throttleVars, enrolVars, readingVars, tapeVars>>
  \/ /\ Turn("reading") /\ ReadingNext
     /\ UNCHANGED <<rollupVars, breakerVars, walkVars, registryVars, letterVars,
                    throttleVars, enrolVars, outings, tapeVars>>
  \/ /\ Turn("tape") /\ TapeNext
     /\ UNCHANGED <<rollupVars, breakerVars, walkVars, registryVars, letterVars,
                    throttleVars, enrolVars, outings, readingVars>>

ServicesSpec == ServicesInit /\ [][ServicesNext]_servicesVars

\* The machine that is at work keeps its types and bounds (each module's
\* TypeOK).  Of the baseline and the tape: lists are sorted as the theorems
\* about them suppose.
ServicesTypeOK ==
  CASE active = "rollup"    -> RollupTypeOK
    [] active = "breaker"   -> BreakerTypeOK
    [] active = "walk"      -> WalkTypeOK
    [] active = "registry"  -> RegistryTypeOK
    [] active = "letters"   -> LetterTypeOK
    [] active = "throttle"  -> ThrottleTypeOK
    [] active = "enrolment" -> EnrolTypeOK
    [] active = "baseline"  ->
         /\ Usable \in Seq(Int) /\ Sorts(Usable)
         /\ Len(Usable) >= MinWindowSessions => Sorts(Deviations(Usable))
    [] active = "reading"   -> ReadingTypeOK
    [] active = "tape"      -> TapeIsRead
    [] OTHER -> TRUE
=============================================================================
