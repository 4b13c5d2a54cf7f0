--------------------------- MODULE MC_NetlinkDump ---------------------------
(* Model values for NetlinkDump: the default socket and one joined        *)
(* namespace, a kernel sending links, routes, netns replies and Done.     *)
EXTENDS NetlinkDump

MC_DefaultNsid == -1

MC_JoinedNsids == {0}

MC_KernelKinds == {"link", "route", "netns", "done"}

\* Command lines covering: no selection (dump everything), a selection,
\* all namespaces with a selection, an unknown token, help after a
\* selection, and an unknown token after all-nsid.
MC_ArgLists ==
  { <<>>,
    <<"-all-nsid">>,
    <<"--all-nsid", "route", "netns">>,
    <<"link", "-h">>,
    <<"all-nsid", "neighor">> }
=============================================================================
