--------------------------- MODULE CelldVersions ---------------------------
(***************************************************************************)
(* The rolling-safety table of internal/controller/rollout.go: which moves  *)
(* between two celld runtimes may run as a rolling update.  Pure operators; *)
(* FleetRollout uses them in its actions.                                   *)
(*                                                                         *)
(* An image is what minorOf reads from its tag (major, minor, and whether   *)
(* the tag parsed), plus a patch that only tells images apart.  A template  *)
(* is an image, the value of CELLD_DURABILITY, and the rest of what its     *)
(* hash covers (app version, config hash) as one opaque "config".           *)
(***************************************************************************)
EXTENDS Integers

Image == [ok : BOOLEAN, major : Nat, minor : Nat, patch : Nat]
Durability == {"fleet", "bucket", "unset"}

IsTemplate(t) ==
    /\ t.image \in Image
    /\ t.durability \in Durability

-----------------------------------------------------------------------------
minorVersion(major, minor) == [major |-> major, minor |-> minor]

cmp(v, o) ==
    IF v.major # o.major THEN v.major - o.major ELSE v.minor - o.minor

breakingBoundaries ==
    { [lower |-> minorVersion(0, 1), upper |-> minorVersion(0, 2),
       upward |-> TRUE, downward |-> TRUE],
      [lower |-> minorVersion(0, 2), upper |-> minorVersion(0, 3),
       upward |-> FALSE, downward |-> TRUE],
      [lower |-> minorVersion(0, 3), upper |-> minorVersion(0, 4),
       upward |-> TRUE, downward |-> TRUE],
      [lower |-> minorVersion(0, 4), upper |-> minorVersion(0, 5),
       upward |-> TRUE, downward |-> TRUE] }

\* Mutation: only the two releases next to the boundary cross it.
crossesUp_NextMinorOnly(from, to, b) == cmp(from, b.lower) = 0 /\ cmp(to, b.upper) = 0

crossesUp(from, to, b) == cmp(from, b.lower) <= 0 /\ cmp(to, b.upper) >= 0
crossesDown(from, to, b) == cmp(from, b.upper) >= 0 /\ cmp(to, b.lower) <= 0

\* The reasons joined by breakingReason, as the set of boundaries they name.
breakingReason(from, to) ==
    { b \in breakingBoundaries :
        /\ from.ok /\ to.ok
        /\ cmp(from, to) # 0
        /\ \/ b.upward /\ crossesUp(from, to, b)
           \/ b.downward /\ crossesDown(from, to, b) }

isBreakingUpgrade(from, to) == breakingReason(from, to) # {}

usesFleetDurability(t) == t.durability # "bucket"

crossesStreams(from, to) ==
    \/ cmp(from, minorVersion(0, 6)) < 0 /\ cmp(to, minorVersion(0, 6)) >= 0
    \/ cmp(from, minorVersion(0, 6)) >= 0 /\ cmp(to, minorVersion(0, 6)) < 0

\* fleetBreakingReason(existing, desired) # "".
fleetBreaking(existing, desired) ==
    \/ isBreakingUpgrade(existing.image, desired.image)
    \/ /\ existing.image.ok /\ desired.image.ok
       /\ crossesStreams(existing.image, desired.image)
       /\ usesFleetDurability(existing) \/ usesFleetDurability(desired)

\* Mutation: Recreate lifts the refusal of the lossy downgrade too.
runtimeChangeRefused_UnlessRecreate(old, new, strategy) ==
    /\ strategy # "Recreate"
    /\ \/ /\ old.ok /\ new.ok
          /\ cmp(old, minorVersion(0, 3)) >= 0
          /\ cmp(new, minorVersion(0, 3)) < 0
       \/ old # new /\ (~old.ok \/ ~new.ok)

\* runtimeChangeRefusal(app, oldImage) # "".
runtimeChangeRefused(old, new, strategy) ==
    \/ /\ old.ok /\ new.ok
       /\ cmp(old, minorVersion(0, 3)) >= 0
       /\ cmp(new, minorVersion(0, 3)) < 0
    \/ /\ old # new
       /\ ~old.ok \/ ~new.ok
       /\ strategy # "Recreate"

-----------------------------------------------------------------------------
(* What the table means, for the properties *)

\* Two templates whose pods must never serve in one fleet: the move between
\* them is refused whichever of the two is the newer one.
CannotMix(s, t) == fleetBreaking(s, t) /\ fleetBreaking(t, s)

\* A runtime that cannot read what the old one left (v0.3's replicated log
\* under an older binary).
LossyDowngrade(old, new) ==
    /\ old.ok /\ new.ok
    /\ cmp(old, minorVersion(0, 3)) >= 0
    /\ cmp(new, minorVersion(0, 3)) < 0

\* mid lies between from and to, whichever way the change goes.
Between(from, mid, to) ==
    \/ cmp(from, mid) <= 0 /\ cmp(mid, to) <= 0
    \/ cmp(from, mid) >= 0 /\ cmp(mid, to) >= 0

\* Whether a change of release is breaking does not depend on the releases it
\* passes through: a jump over several minors is refused exactly when one of the
\* two changes it can be split into is, wherever it is split, up or down.
JumpIsChecked(from, mid, to) ==
    from.ok /\ mid.ok /\ to.ok /\ Between(from, mid, to)
        => (isBreakingUpgrade(from, to)
              <=> isBreakingUpgrade(from, mid) \/ isBreakingUpgrade(mid, to))
=============================================================================
