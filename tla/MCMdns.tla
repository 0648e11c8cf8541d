------------------------------- MODULE MCMdns -------------------------------
(* Instances of MdnsIngest for TLC, explored in slices.                    *)
EXTENDS MdnsIngest

CONSTANTS Slices, Reporter, First, Home

VARIABLE slice

MCFilters == {Names, Names \ {First}}
On(z) == [on |-> TRUE, zone |-> z, pass |-> Names]
MCToml == On(Home)

Quiet(i) == stored[i] = None /\ m[i].at \in {"load", "wait"}

\* Two instances, one device, one zone.
SharedSlice ==
    /\ alive \subseteq {First}
    /\ stored[Holder] = On(Home) /\ stored[Reporter] \in {None, On(Home)}
    /\ \A r \in pub : r.zone = Home /\ r.name = First

\* The holder alone, two devices.
HolderSlice == Quiet(Reporter) /\ stored[Holder] = On(Home) /\ \A r \in pub : r.by = Curator => r.name = First

\* The holder alone, one device, any configuration.
RehomeSlice ==
    /\ Quiet(Reporter) /\ alive \subseteq {First} /\ \A r \in pub : r.by # Curator
    /\ stored[Holder] # None =>
           stored[Holder].pass = Names \/ (stored[Holder].on /\ stored[Holder].zone = Home)

InSlice ==
    CASE slice = "shared" -> SharedSlice
      [] slice = "holder" -> HolderSlice
      [] slice = "rehome" -> RehomeSlice

MCInit == Init /\ slice \in Slices /\ InSlice
MCNext == Next /\ UNCHANGED slice /\ InSlice'
MCSpec == MCInit /\ [][MCNext]_<<vars, slice>> /\ Fairness

=============================================================================
