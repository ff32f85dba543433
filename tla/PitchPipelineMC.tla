------------------------- MODULE PitchPipelineMC -------------------------
(***************************************************************************)
(* Small topics for checking PitchPipeline with TLC.                       *)
(***************************************************************************)
EXTENDS PitchPipeline, TLC

CONSTANTS p1, p2, a, b, c, s1, s2, w1, w2

\* One partition carrying one session: two pitches, the first sent twice.
OneLen       == p1 :> 3
OnePitchAt   == <<p1, 1>> :> a @@ <<p1, 2>> :> b @@ <<p1, 3>> :> a
OneSessionOf == a :> s1 @@ b :> s1
\* The same topic with a message that cannot be parsed in the second place.
SecondMsg    == {<<p1, 2>>}

\* Two partitions, one session each; the first pitch of the first session is
\* sent twice, the first message of the second fails validation.
TwoLen       == p1 :> 3 @@ p2 :> 2
TwoPitchAt   == <<p1, 1>> :> a @@ <<p1, 2>> :> b @@ <<p1, 3>> :> a
                @@ <<p2, 1>> :> c @@ <<p2, 2>> :> c
TwoSessionOf == a :> s1 @@ b :> s1 @@ c :> s2
FirstOfP2    == {<<p2, 1>>}
============================================================================
