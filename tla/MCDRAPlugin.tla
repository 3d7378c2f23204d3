----------------------------- MODULE MCDRAPlugin -----------------------------
(***************************************************************************)
(* Instances of DRAPlugin for TLC: messages in which every kind of nil and *)
(* empty value occurs, small enough to enumerate.                          *)
(***************************************************************************)
EXTENDS DRAPluginRefinement, TLC

MCClaim(n) == [namespace |-> "ns", uid |-> n, name |-> "c"]

\* A request without claims, one with an empty list, one with a nil claim.
MCRequests ==
  {[claims |-> Nil], [claims |-> <<>>],
   [claims |-> <<MCClaim("b"), Nil, MCClaim("a")>>]}

MCDeviceBase(n) ==
  [requestNames |-> <<n, "ns">>, poolName |-> "a", deviceName |-> n,
   cdiDeviceIds |-> <<>>]
MCDevice(v, n) ==
  IF v = "v1" THEN [requestNames |-> <<n, "ns">>, poolName |-> "a",
                    deviceName |-> n, cdiDeviceIds |-> <<>>, shareId |-> "c"]
              ELSE MCDeviceBase(n)

MCEntries(m, v) ==
  IF m = "NodePrepareResources"
    THEN {Nil, [devices |-> Nil, error |-> "c"], [devices |-> <<>>, error |-> ""],
          [devices |-> <<MCDevice(v, "b"), Nil, MCDevice(v, "c")>>, error |-> ""]}
    ELSE {Nil, [error |-> ""], [error |-> "c"]}

\* Nil and empty maps, and maps for one and for two claims.
MCAnswers(m, v) ==
  {[claims |-> f] :
     f \in {Nil} \cup UNION {[U -> MCEntries(m, v)] : U \in {{}, {"a"}, {"a", "b"}}}}

\* For runs about the order of events: one answer per method and version, which
\* tells the plugins apart that may run before and after an upgrade.
MCFewAnswers(m, v) ==
  LET own == IF v = "v1" THEN "c" ELSE "b"
  IN  {[claims |-> ("a" :> IF m = "NodePrepareResources"
                             THEN [devices |-> <<MCDevice(v, own)>>, error |-> ""]
                             ELSE [error |-> own])]}
MCOneRequest == {[claims |-> <<MCClaim("a")>>]}

\* "Unknown" stands for every code that has no meaning of its own.
MCCodes == {"Unimplemented", "Unknown"}
MCFewCodes == {"Unimplemented"}

MCPaths == Path

\* Plugins that define both methods or only the second.
MCFewPlugins ==
  {p \in Plugin : p.implements \in {Methods, {"NodeUnprepareResources"}}}
\* Complete plugins of either version.
MCSoundPlugins ==
  {p \in Plugin : p.implements = Methods /\ p.embeds = "value"}

\* For the order of events: a connection of either version, each with a method
\* of its own; a complete plugin of the older version, and one of the newer that
\* lacks the first method and embeds a nil pointer for it, so that it serves
\* only behind a wrapper.
MCOrderPaths ==
  {p \in Path : p.api = "v1" /\ (p.method = "NodePrepareResources" <=> p.wire = "v1")}
MCOrderPlugins ==
  {p \in Plugin :
     <<p.api, p.embeds, p.implements>> \in
       {<<"v1beta1", "value", Methods>>,
        <<"v1", "nil pointer", {"NodeUnprepareResources"}>>}}
=============================================================================
