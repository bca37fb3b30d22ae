---------------------------- MODULE ConfigAlign ----------------------------
(***************************************************************************)
(* The configuration of model resources (resources.yaml, with API keys) is *)
(* edited on any station and copied between them: an alignment thread asks *)
(* each peer for its configuration, compares time stamps and then pushes   *)
(* or pulls (station_controller, station_routes_resources).  A copy is     *)
(* encrypted with the mesh token, of which a process holds three copies    *)
(* that are meant to be one (auth, secret_sync, station_routes_common).    *)
(*                                                                         *)
(* Clocks agree.  Time stamps are kept as ranks among those still in use;  *)
(* 0 stands for none.                                                      *)
(***************************************************************************)
EXTENDS Naturals, FiniteSets

CONSTANTS Nodes,       \* stations
          Contents,    \* what a configuration with keys may say (all of the same size)
          NoKeys,      \* a configuration without keys, which is never sent
          MaxSaves,    \* bound: configurations saved by hand
          MaxFaults    \* bound: lost calls, restarts and elections

ASSUME AlignAssumption ==
    /\ IsFiniteSet(Nodes) /\ "" \notin Nodes
    /\ NoKeys \notin Contents
    /\ MaxSaves \in Nat /\ MaxFaults \in Nat

VARIABLES auth,   \* security.auth_enabled
          explicit, \* config.yaml names a token that all nodes share
          config, \* config[n]: resources.yaml of node n
          file,   \* file[n]: the token in its file mesh_token
          mem,    \* mem[n]: _mesh_token of its controller, which it also signs calls with
          api,    \* api[n]: _mesh_auth_token of its routes
          thread, \* thread[n]: its alignment thread
          saves, faults,
          kept    \* history: what was saved by hand on a quiet and aligned mesh

settings == <<auth, explicit>>
vars == <<auth, explicit, config, file, mem, api, thread, saves, faults, kept>>
tokens == <<file, mem, api>>

Shared == "shared"
Tokens == Nodes \cup {Shared}
Idle   == [peers |-> {}, mine |-> [content |-> NoKeys, ts |-> 0], peer |-> "", act |-> ""]

Stamps(c, t) == {c[n].ts : n \in Nodes} \cup {t[n].mine.ts : n \in Nodes}
MaxStamp == 2 * Cardinality(Nodes)

Configs == [content : Contents \cup {NoKeys}, ts : 0..MaxStamp]

TypeOK ==
    /\ auth \in BOOLEAN /\ explicit \in BOOLEAN
    /\ config \in [Nodes -> Configs]
    /\ file \in [Nodes -> Tokens] /\ mem \in [Nodes -> Tokens] /\ api \in [Nodes -> Tokens]
    /\ thread \in [Nodes -> [peers : SUBSET Nodes, mine : Configs, peer : Nodes \cup {""},
                             act : {"", "push", "pull"}]]
    /\ saves \in 0..MaxSaves /\ faults \in 0..MaxFaults
    /\ kept \in Contents \cup {NoKeys}

\* Files written by hand have no time stamp; get_mesh_token makes a token where there is none.
Init ==
    /\ auth \in BOOLEAN /\ explicit \in BOOLEAN
    /\ config \in [Nodes -> [content : Contents \cup {NoKeys}, ts : {0}]]
    /\ file = [n \in Nodes |-> n]
    /\ mem = IF explicit THEN [n \in Nodes |-> Shared] ELSE file
    /\ api = mem
    /\ thread = [n \in Nodes |-> Idle]
    /\ saves = 0 /\ faults = 0
    /\ kept = NoKeys

Fault == faults < MaxFaults /\ faults' = faults + 1

Rank(t, c, th) == Cardinality({u \in Stamps(c, th) \ {0} : u <= t})

\* The state after a step, with its time stamps as ranks again.
Becomes(c, th) ==
    /\ UNCHANGED settings
    /\ config' = [n \in Nodes |-> [c[n] EXCEPT !.ts = Rank(@, c, th)]]
    /\ thread' = [n \in Nodes |-> [th[n] EXCEPT !.mine.ts = Rank(@, c, th)]]

\* save_config stamps what it writes with the time of writing.
Stamp(n, content) == [content |-> content, ts |-> MaxStamp + 1]

Aligned == \A n, p \in Nodes : config[n].content = config[p].content
Quiet   == \A n \in Nodes : thread[n] = Idle

-----------------------------------------------------------------------------
(* Boss saves a configuration; the thread that follows is any Start.       *)

SaveByHand(n, content) ==
    /\ saves < MaxSaves
    /\ saves' = saves + 1
    /\ Becomes([config EXCEPT ![n] = Stamp(n, content)], thread)
    /\ kept' = IF Quiet /\ Aligned THEN content ELSE NoKeys
    /\ UNCHANGED <<tokens, faults>>

Restart(n) ==
    /\ Fault
    /\ mem' = [mem EXCEPT ![n] = IF explicit THEN Shared ELSE file[n]]
    /\ api' = [api EXCEPT ![n] = mem'[n]]
    /\ Becomes(config, [thread EXCEPT ![n] = Idle])
    /\ UNCHANGED <<file, saves, kept>>

-----------------------------------------------------------------------------
(* The alignment thread: it reads its own configuration once, for all      *)
(* peers.  It asks all of them after a save, at start, every minute and on *)
(* demand, and one that is new.                                            *)

Start(n, peers) ==
    /\ thread[n] = Idle
    /\ Becomes(config, [thread EXCEPT ![n] = [Idle EXCEPT !.peers = peers, !.mine = config[n]]])
    /\ UNCHANGED <<tokens, saves, faults, kept>>

StartAll(n) == Start(n, Nodes \ {n})

SyncWithNewPeer(n, p) == n # p /\ Start(n, {p})

\* Go on with the other peers, or end.
Following(n) == IF thread[n].peers = {} THEN Idle ELSE [thread[n] EXCEPT !.peer = "", !.act = ""]

\* Faulty: the older one is spread.
OlderWins(mine, theirs) ==
    IF mine.ts = theirs.ts THEN "" ELSE IF mine.ts < theirs.ts THEN "push" ELSE "pull"

\* A missing stamp is older than any.  With equal stamps the larger one wins; contents with
\* keys are all of one size here.
Arbitrate(mine, theirs) ==
    CASE mine.ts > theirs.ts -> "push"
      [] mine.ts < theirs.ts -> "pull"
      [] mine.ts = theirs.ts /\ mine.content = NoKeys -> "pull"
      [] OTHER -> ""

\* GET /api/secrets/fetch, which gives nothing if there are no keys.
Probe(n, p) ==
    /\ p \in thread[n].peers /\ thread[n].act = ""
    /\ LET mine == thread[n].mine
           t    == [thread[n] EXCEPT !.peers = @ \ {p}, !.peer = p, !.act = Arbitrate(mine, config[p])]
           skip == config[p].content \in {NoKeys, mine.content} \/ t.act = ""
           next == IF ~skip THEN t
                   ELSE IF t.peers = {} THEN Idle ELSE [t EXCEPT !.peer = "", !.act = ""]
       IN  Becomes(config, [thread EXCEPT ![n] = next])
    /\ UNCHANGED <<tokens, saves, faults, kept>>

\* An unchanged configuration is not written again.
Apply(n, content) ==
    IF config[n].content = content THEN config ELSE [config EXCEPT ![n] = Stamp(n, content)]

\* _converge_mesh_token: fetch the token of p's routes, and keep it in file and controller.
Adopt(n, p) ==
    IF api[p] = mem[n] THEN UNCHANGED <<file, mem>>
    ELSE file' = [file EXCEPT ![n] = api[p]] /\ mem' = [mem EXCEPT ![n] = api[p]]

\* POST /api/secrets/receive at p of what n has now.  Time stamps are not compared again.  If
\* p cannot decrypt it, it adopts n's token and tries once more.
Push(n) ==
    /\ thread[n].act = "push"
    /\ LET p        == thread[n].peer
           refused  == config[n].content = NoKeys \/ (auth /\ mem[n] # api[p])
           readable == api'[p] = mem[n]
       IN  /\ IF refused \/ api[p] = mem[n] THEN UNCHANGED tokens
              ELSE Adopt(p, n) /\ api' = [api EXCEPT ![p] = file'[p]]
           /\ Becomes(IF ~refused /\ readable THEN Apply(p, config[n].content) ELSE config,
                      [thread EXCEPT ![n] = Following(n)])
    /\ UNCHANGED <<saves, faults, kept>>

\* Faulty: pulling gives up when the keys differ.
AdoptNever(n, p) == UNCHANGED <<file, mem>>

AdoptOnPull(n, p) == IF file[n] = api[p] THEN UNCHANGED <<file, mem>> ELSE Adopt(n, p)

\* GET /api/secrets/fetch again; decrypted with the token in the file.
Pull(n) ==
    /\ thread[n].act = "pull"
    /\ LET p        == thread[n].peer
           readable == config[p].content # NoKeys /\ file'[n] = api[p]
       IN  /\ IF config[p].content = NoKeys THEN UNCHANGED <<file, mem>> ELSE AdoptOnPull(n, p)
           /\ Becomes(IF readable THEN Apply(n, config[p].content) ELSE config,
                      [thread EXCEPT ![n] = Following(n)])
    /\ UNCHANGED <<api, saves, faults, kept>>

\* A call that fails is left to the next round.
Lose(n) ==
    /\ thread[n].act # ""
    /\ Fault
    /\ Becomes(config, [thread EXCEPT ![n] = Following(n)])
    /\ UNCHANGED <<tokens, saves, kept>>

\* After an election, or having stepped down, n takes the token of the Secretary p.
ConvergeToken(n, p) ==
    /\ n # p
    /\ Fault
    /\ Adopt(n, p)
    /\ UNCHANGED <<settings, config, api, thread, saves, kept>>

-----------------------------------------------------------------------------
Next ==
    \/ \E n \in Nodes, c \in Contents : SaveByHand(n, c)
    \/ \E n \in Nodes : Restart(n) \/ StartAll(n) \/ Push(n) \/ Pull(n) \/ Lose(n)
    \/ \E n, p \in Nodes : SyncWithNewPeer(n, p) \/ Probe(n, p) \/ ConvergeToken(n, p)

\* _align_loop never ends, and asks every peer.
Fairness ==
    \A n \in Nodes : SF_vars(StartAll(n)) /\ WF_vars(Push(n)) /\ WF_vars(Pull(n))
                     /\ \A p \in Nodes : SF_vars(Probe(n, p))

Spec == Init /\ [][Next]_vars /\ Fairness

-----------------------------------------------------------------------------
(* Properties.                                                             *)

\* A configuration that Boss saves while all nodes agree and no alignment is under way is not
\* lost by aligning, as long as nothing else is saved.
SavedIsKept == kept # NoKeys => \E n \in Nodes : config[n].content = kept

Disagree(n, p) == config[n].content # config[p].content

\* The nodes agree from some time on, although copies cross, calls fail, processes restart and
\* tokens differ; except for two files without stamp, between which nothing decides, and for a
\* node without keys where the token is in config.yaml (see FreshNodeServed).
Agreement ==
    <>[]\A n, p \in Nodes : Disagree(n, p) => \/ config[n].ts = 0 /\ config[p].ts = 0
                                              \/ explicit /\ config[n].content = NoKeys
                                              \/ explicit /\ config[p].content = NoKeys

\* What the design promises of new hosts: they get the configuration of the others.
FreshNodeServed ==
    <>[]((\E n \in Nodes : config[n].content # NoKeys) => \A n \in Nodes : config[n].content # NoKeys)

=============================================================================
