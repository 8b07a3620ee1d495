----------------------------- MODULE MCUpdateFlow -----------------------------
(* UpdateFlow on small instances.                                            *)
EXTENDS UpdateFlow, TLC

CONSTANTS cg, ex,         \* a configured registry, a host-shaped name
          hub, exHost,    \* the hosts they stand for
          m1, m2, m3, ix  \* three images and an index that holds m1

MCConfigUrl == [r \in Configured |-> hub]
MCOwnHost   == [r \in HostShaped |-> exHost]

\* The images are single ones for this platform, ix is an index over m1.
MCHostImage == [m \in Manifests |-> IF m = ix THEN m1 ELSE m]

\* m2 is built for other platforms only, m1 and m3 for this one.
MCHostImageForeign == [m \in Manifests |-> IF m = m2 THEN NoMatch ELSE m]

\* Tag 2 is the dev build of tag 1.
MCVariants == {<<1, 2>>} \cap (Tags \X Tags)
===============================================================================
