----------------------------- MODULE MCBusOwner -----------------------------
(***************************************************************************)
(* Instances of BusOwner for TLC.  99 stands for the PEC byte.             *)
(***************************************************************************)
EXTENDS BusOwner

\* Bodies are <<completion code, b1, b2, b3, PEC>>; see the decoders.
simple == <<0, 0, 0, 0, 99>>     \* dynamic EID, simple endpoint
bridge == <<0, 0, 16, 0, 99>>    \* dynamic EID, bridge
static == <<0, 0, 1, 0, 99>>     \* static EID
accepts == <<0, 0, 0, 0, 99>>
rejects == <<0, 16, 0, 0, 99>>
wants(n) == <<0, 1, 0, n, 99>>   \* EID accepted, pool of n required
allocated == <<0, 0, 0, 0, 99>>
refused == <<0, 1, 0, 0, 99>>
failed == <<1, 99>>              \* an error response, too short to decode
busy == <<4, 0, 0, 0, 99>>       \* an error response

bodies(get, set, alloc) ==
  [c \in Commands |-> CASE c = "GetEndpointID" -> get
                        [] c = "SetEndpointID" -> set
                        [] c = "AllocateEndpointIDs" -> alloc
                        [] OTHER -> {}]

\* Every kind of answer; pools that fill the EID space above 0x80 and not.
AnyBodies == bodies({bridge, static, failed}, {accepts, rejects, wants(5), wants(126)},
                    {allocated, refused, busy})
\* Answers of a well-behaved bridge.
GoodBodies == bodies({simple, bridge, static}, {accepts, wants(5)}, {allocated})
\* A bridge that always wants the same pool.
BridgeBodies == bodies({bridge}, {wants(5)}, {allocated})
\* A bridge that manages a single EID.
SingleBodies == bodies({bridge}, {wants(1)}, {allocated})

request(cmd, body) == [len |-> "full", tag |-> new_header(0, 0, 0, TRUE), cmd |-> cmd,
                       body |-> body, ans |-> 0]
cut(len) == [len |-> len, tag |-> default_tag, cmd |-> "none", body |-> <<>>, ans |-> 0]

notify == request("DiscoveryNotify", <<99>>)
setEid == request("SetEndpointID", <<0, 50, 99>>)
getEid == request("GetEndpointID", <<99>>)

OnlyNotify == {notify}
Requests == {notify, setEid}
AllRequests == {notify, setEid, getEid, request("GetRoutingTableEntries", <<0, 99>>),
                request("GetEndpointUUID", <<99>>), request("SetEndpointID", <<99>>)}
Strange == {notify, request("Unknown", <<99>>), cut("empty"), cut("runt"), cut("short")}
=============================================================================
