--------------------------- MODULE DownloadRelease ---------------------------
(***************************************************************************)
(* What the manager promises of the dedicated downloads, without the       *)
(* parties that bring it about: a download is created live, its shutdown is *)
(* requested at most once, and from then on it is on its way to being      *)
(* released, for good.  Nothing brings a released download back.           *)
(***************************************************************************)
CONSTANT Downloads

VARIABLE phase

Phases == {"absent", "live", "closing", "released"}

ReleaseTypeOK == phase \in [Downloads -> Phases]

ReleaseInit == phase = [d \in Downloads |-> "absent"]

Create(d) ==
    /\ phase[d] = "absent"
    /\ phase' = [phase EXCEPT ![d] = "live"]

RequestShutdown(d) ==
    /\ phase[d] = "live"
    /\ phase' = [phase EXCEPT ![d] = "closing"]

Release(d) ==
    /\ phase[d] = "closing"
    /\ phase' = [phase EXCEPT ![d] = "released"]

ReleaseNext ==
    \E d \in Downloads : Create(d) \/ RequestShutdown(d) \/ Release(d)

ReleaseSpec == ReleaseInit /\ [][ReleaseNext]_phase

\* A requested shutdown is carried out.
FairReleaseSpec ==
    ReleaseSpec /\ \A d \in Downloads : WF_phase(Release(d))

==============================================================================
