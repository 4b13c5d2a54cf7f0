---------------------------- MODULE MC_VxlanOptions ----------------------------
(***************************************************************************)
(* Value classes of the options of "ip link add ... type vxlan".           *)
(***************************************************************************)
EXTENDS VxlanOptions

\* Every way a value can be rejected, beside a good one.
MC_IdAll == {"ok", "big", "bad", "missing"}
MC_AddrSome == {"none", "v4", "bad"}
MC_LocalSome == {"v6", "bad"}
MC_DevAll == {"known", "unknown"}
MC_U8All == {"inherit", "bad"}
MC_NumAll == {"ok", "bad"}
MC_SrcportAll == {"ok", "nocolon"}
MC_NoFlags == {}
MC_FlagAll == {"none", "set", "unset"}
MC_GAll == {"none", "set"}

\* Well-formed commands: every option absent or given a good value.
MC_IdOk == {"ok"}
MC_AddrOk == {"none", "v4", "v6"}
MC_LocalOk == {"none", "v4", "v6"}
MC_DevOk == {"none", "known"}
MC_U8Ok == {"none", "ok"}
MC_NumOk == {"ok"}
MC_SrcportOk == {"none", "ok"}
MC_SomeFlags == {"learning", "l3miss", "remcsumrx"}
=============================================================================
