------------------------------- MODULE NodeInfo -------------------------------
(***************************************************************************)
(* What a process finds out about its node (libsrc/hwdesc/nodeinfo2.c):    *)
(* how many sockets, NUMA regions and cores there are, and on which of     *)
(* them it runs.  A machine m has m.nsock sockets of m.nnuma regions of    *)
(* m.ncore cores each; hwloc sees caches of m.ncache cores.  A description *)
(* is the sequence of the levels found.                                    *)
(***************************************************************************)
EXTENDS Distrib, SequencesExt, FiniteSetsExt

Unknown == "unknown"
Positive(n) == IF n > 0 THEN n ELSE 0
Remainder(a, b) == IF a >= 0 THEN a % b ELSE -((-a) % b)

(* An entry of objinfo: the objects under one parent and on the node, with *)
(* the process's own among them.                                           *)
Obj(kind, nobj, nodenobj) ==
    [kind |-> kind, nobj |-> nobj, objidx |-> -1, nodenobj |-> nodenobj,
     nodeobjidx |-> -1, asrc |-> Unknown]

(* addfullobj                                                              *)
FullObj(kind, rawidx, idx, nobj, nodeidx, nodenobj, asrc) ==
    [Obj(kind, nobj, nodenobj) EXCEPT
        !.nodeobjidx = IF rawidx >= 0 THEN nodeidx ELSE @,
        !.objidx = IF idx >= 0 THEN idx ELSE @,
        !.asrc = IF Max({idx, rawidx, nodeidx}) >= 0 THEN asrc ELSE @]

LevelOf(hwc, kind) == SelectInSeq(hwc, LAMBDA o : o.kind = kind)

(* addnodeconfignew: the counts on the node and under each parent, and the *)
(* raw ones, of which those that are not known leave their level out.      *)
AddNodeConfig(node, parent, raw) ==
    LET kinds == <<"socket", "numa", "core">>
        found == SelectSeq(<<1, 2, 3>>, LAMBDA k : raw[k] > 0)
    IN  [i \in DOMAIN found |->
            Obj(kinds[found[i]], Positive(parent[found[i]]), Positive(node[found[i]]))]

-----------------------------------------------------------------------------
(* The configuration: rc is negative when another method is to be tried.   *)
Cores(m) == m.nsock * m.nnuma * m.ncore

(* BENV_HwdescNodeConfigSysctl                                             *)
ConfigSysctl(m) ==
    [rc |-> 0, hwc |-> AddNodeConfig(<<m.nsock, -1, Cores(m)>>,
                                     <<m.nsock, -1, Cores(m) \div m.nsock>>,
                                     <<m.nsock, -1, Cores(m)>>)]

(* BENV_HwdescNodeConfigEnv; -1 is a variable that is not set.             *)
ConfigEnv(env) ==
    LET nsock == IF env.nsock = -1 THEN 1 ELSE env.nsock
        split == env.nnuma > 0
    IN  IF env.ncore <= 0 \/ nsock <= 0 THEN [rc |-> 1, hwc |-> <<>>]
        ELSE [rc |-> 0,
              hwc |-> AddNodeConfig(
                        <<nsock, IF split THEN env.nnuma * nsock ELSE -1, nsock * env.ncore>>,
                        <<nsock, env.nnuma, IF split THEN env.ncore \div env.nnuma ELSE env.ncore>>,
                        <<nsock, env.nnuma, env.ncore>>)]

(* The objects above processing unit cpu, each with its siblings: hwloc    *)
(* groups the cores of a socket that has several NUMA regions.             *)
Above(m) ==
    LET grouped == m.nnuma > 1
    IN  <<[type |-> "pu", nsib |-> 1],
          [type |-> "core", nsib |-> m.ncache],
          [type |-> "cache", nsib |-> m.ncore \div m.ncache]>>
        \o (IF grouped THEN <<[type |-> "group", nsib |-> m.nnuma]>> ELSE <<>>)
        \o <<[type |-> "socket", nsib |-> m.nsock], [type |-> "machine", nsib |-> 1]>>

(* What the walk up these objects counts.                                  *)
Walk(m) ==
    LET up(c, o) ==
            CASE o.type = "core" -> [c EXCEPT !.ninparent = o.nsib, !.ncore = o.nsib]
              [] o.type = "group" -> [c EXCEPT !.ncore = c.ninparent, !.nnuma = o.nsib,
                                              !.ninparent = o.nsib, !.group = TRUE]
              [] o.type = "socket" -> [c EXCEPT !.ncore = IF c.group THEN @ ELSE c.ninparent,
                                               !.ninparent = 1]
              [] OTHER -> [c EXCEPT !.ninparent = @ * o.nsib]
    IN  FoldLeft(up, [ninparent |-> 1, ncore |-> 0, nnuma |-> 0, group |-> FALSE], Above(m))

(* BENV_HwdescNodeConfigHwloc; `asks` where sched_getcpu tells the cpu.    *)
ConfigHwloc(m, cpu, asks) ==
    LET counts == Walk(m)
        numa == cpu \div m.ncore
        socket == IF asks THEN FullObj("socket", 0, -1, m.nsock, -1, m.nsock, "hwloc")
                  ELSE FullObj("socket", -1, -1, m.nsock, -1, m.nsock, Unknown)
        region == IF asks
                  THEN FullObj("numa", numa, numa % counts.nnuma, counts.nnuma,
                               numa, m.nsock * m.nnuma, "hwloc")
                  ELSE FullObj("numa", -1, -1, counts.nnuma, -1, m.nsock * m.nnuma, Unknown)
        core == IF asks
                THEN FullObj("core", cpu, cpu % counts.ncore, counts.ncore,
                             cpu, Cores(m), "sched_getcpu")
                ELSE FullObj("core", -1, -1, counts.ncore, -1, Cores(m), Unknown)
    IN  [rc |-> 0, hwc |-> IF counts.group THEN <<socket, region, core>> ELSE <<socket, core>>]

(* BENV_HwdescNodeGetConfig: a method is followed by the next one only if  *)
(* its result is negative, which none of these is.                         *)
NodeGetConfig(build, m, cpu, env) ==
    IF "hwloc" \in build THEN ConfigHwloc(m, cpu, "sched_getcpu" \in build)
    ELSE IF "sysctl" \in build THEN ConfigSysctl(m)
    ELSE ConfigEnv(env)

-----------------------------------------------------------------------------
(* The assignment.  Levels that have one keep it.                          *)
Assign(hwc, kinds, Set(_)) ==
    [i \in DOMAIN hwc |-> IF hwc[i].asrc = Unknown /\ hwc[i].kind \in kinds
                          THEN Set(hwc[i]) ELSE hwc[i]]

(* BENV_HwdescNodeInfoGetcpu and BENV_HwdescNodeInfoSchedgetcpu; numa is   *)
(* -1 where the second can not tell it.                                    *)
InfoGetcpu(hwc, cpu, numa, asrc) ==
    Assign(hwc, {"numa", "core"},
           LAMBDA o : [o EXCEPT !.nodeobjidx = IF o.kind = "core" THEN cpu ELSE numa,
                                !.asrc = asrc])

InfoSchedgetcpu(hwc, cpu, numa) ==
    [rc |-> IF \E i \in DOMAIN hwc : hwc[i].asrc = Unknown /\ hwc[i].kind \in {"numa", "core"}
            THEN 0 ELSE -1,
     hwc |-> InfoGetcpu(hwc, cpu, numa, "sched_getcpu")]

(* The counts of the levels that are there, one for each of the others.    *)
CountOf(hwc, kind) == LET l == LevelOf(hwc, kind) IN IF l = 0 THEN 1 ELSE hwc[l].nobj

(* Where a policy puts a rank: the sockets get its processes by the first  *)
(* rule, the NUMA regions of a socket by the second (in blocks, if there   *)
(* is none), and the cores of a region in turn when it has more processes  *)
(* than cores.                                                             *)
PolicyPlace(hwc, rank, np, rules) ==
    LET nsock == CountOf(hwc, "socket")
        nnuma == CountOf(hwc, "numa")
        ncore == CountOf(hwc, "core")
        bsock == GetBlocksize(rules[1], np, nsock)
        sock == ObjIdx(rank, nsock, bsock)
        rank1 == RankInObj(rank, nsock, bsock)
        np1 == NpInObj(np, sock, nsock, bsock)
        bnuma == GetBlocksize(IF Len(rules) > 1 THEN rules[2] ELSE Block, np1, nnuma)
        numa == ObjIdx(rank1, nnuma, bnuma)
        rank2 == IF nnuma > 1 THEN RankInObj(rank1, nnuma, bnuma) ELSE rank1
        np2 == IF nnuma > 1 THEN NpInObj(np1, numa, nnuma, bnuma) ELSE np1
    IN  [socket |-> sock, numa |-> IF nnuma > 1 THEN numa ELSE 0,
         core |-> IF np2 > ncore THEN ObjIdx(rank2, ncore, 1) ELSE rank2]

(* BENV_HwdescNodeInfoPolicy                                               *)
InfoPolicy(hwc, rank, np, rules) ==
    LET place == PolicyPlace(hwc, rank, np, rules)
    IN  IF GetBlocksize(rules[1], np, CountOf(hwc, "socket")) <= 0
        THEN [rc |-> 1, hwc |-> hwc]
        ELSE [rc |-> 0,
              hwc |-> Assign(hwc, {"socket", "numa", "core"},
                             LAMBDA o : [o EXCEPT !.objidx = place[o.kind],
                                                  !.nodeobjidx = IF o.kind = "socket"
                                                                 THEN place.socket ELSE @,
                                                  !.asrc = "policy"])]

(* BENV_HwdescNodeGetInfo: the next method only if the result is negative. *)
NodeGetInfo(build, hwc, cpu, numa, rank, np, rules) ==
    LET sched == InfoSchedgetcpu(hwc, cpu, IF "libnuma" \in build THEN numa ELSE -1)
    IN  IF "getcpu" \in build
        THEN [rc |-> 0, hwc |-> InfoGetcpu(hwc, cpu, numa, "getcpu")]
        ELSE IF "sched_getcpu" \in build /\ sched.rc = 0 THEN sched
        ELSE InfoPolicy(hwc, rank, np, rules)

-----------------------------------------------------------------------------
(* Counts on the node become counts under the parent where a method gave   *)
(* none of the latter (BENV_HwdescNodeNormalizeConfig).                    *)
NormalizeConfig(hwc) ==
    LET onNode(kind) == LET l == LevelOf(hwc, kind) IN IF l = 0 THEN 0 ELSE hwc[l].nodenobj
        nnuma == IF LevelOf(hwc, "numa") = 0 THEN 0
                 ELSE IF CountOf(hwc, "numa") > 0 THEN onNode("numa")
                 ELSE onNode("numa") \div onNode("socket")
        count(o) == CASE o.kind = "socket" -> o.nodenobj
                      [] o.kind = "numa" -> nnuma
                      [] o.kind = "core" -> (o.nodenobj \div onNode("socket"))
                                            \div Max({nnuma, 1})
    IN  [i \in DOMAIN hwc |-> [hwc[i] EXCEPT !.nobj = IF @ <= 0 THEN count(hwc[i]) ELSE @]]

(* Slip (used by no definition): the cores under one parent are divided.   *)
SlipSocketOfCore(hwc, sock, core) ==
    Min({core.nodeobjidx \div Max({core.nobj \div sock.nodenobj, 1}), sock.nobj - 1})

(* The socket of the core that the process runs on; a number that is too   *)
(* large is made the last.                                                 *)
SocketOfCore(hwc, sock, core) ==
    Min({core.nodeobjidx \div (core.nodenobj \div sock.nodenobj), sock.nobj - 1})

(* Indices on the node become indices under the parent                     *)
(* (BENV_HwdescNodeNormalizeAssign).                                       *)
NormalizeAssign(hwc) ==
    LET sock == hwc[LevelOf(hwc, "socket")]
        core == hwc[LevelOf(hwc, "core")]
        index(o) == IF o.kind /= "socket" THEN Remainder(o.nodeobjidx, o.nobj)
                    ELSE IF o.nodeobjidx >= 0 THEN o.nodeobjidx
                    ELSE SocketOfCore(hwc, sock, core)
        normal(o) == IF o.objidx >= 0 THEN o
                     ELSE [o EXCEPT !.objidx = index(o),
                                    !.nodeobjidx = IF o.kind = "socket" THEN index(o) ELSE @]
    IN  [i \in DOMAIN hwc |-> normal(hwc[i])]

(* BENV_HwdescGetNodeDesc for the rank-th of np processes on the node.     *)
(* Without a socket level both normalisations use objinfo[-1].             *)
Wild == "objinfo[-1]"
GetNodeDesc(build, m, cpu, env, rank, np, rules) ==
    LET config == NodeGetConfig(build, m, cpu, env)
        counted == IF config.rc = 0 THEN NormalizeConfig(config.hwc) ELSE config.hwc
        info == NodeGetInfo(build, counted, cpu, cpu \div m.ncore, rank, np, rules)
    IN  IF info.rc = 0 /\ LevelOf(info.hwc, "socket") = 0
        THEN [rc |-> Wild, hwc |-> <<>>]
        ELSE [rc |-> info.rc,
              hwc |-> IF info.rc = 0 THEN NormalizeAssign(info.hwc) ELSE info.hwc]

(* BENV_HwdescNodeGetSockNumaCore: what it leaves unchanged is -1 here.    *)
GetSockNumaCore(hwc) ==
    LET at(kind, f) == LET l == LevelOf(hwc, kind) IN IF l = 0 THEN -1 ELSE hwc[l][f]
    IN  [nobjs |-> <<at("socket", "nobj"), at("numa", "nobj"), at("core", "nobj")>>,
         objidx |-> <<at("socket", "objidx"), at("numa", "objidx"), at("core", "objidx")>>]
=============================================================================
