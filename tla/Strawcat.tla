-------------------------------- MODULE Strawcat --------------------------------
(***************************************************************************)
(* A peer of a strawcat pipe from its start to its end                     *)
(* (src/src/bin/strawcat.rs, p2p/peer.rs, and the part of manage in        *)
(* p2p/session.rs that decides what the peer offers): it may measure its   *)
(* NAT, binds at the relay, accepts the holder of its token or dials the   *)
(* issuer of one, hands the connection to a path manager, and pipes stdin  *)
(* and stdout over it.  PathManager models what the manager does next.     *)
(*                                                                         *)
(* The address in a token belongs to its issuer only while the issuer's    *)
(* bind session lasts: the relay gives it to somebody else afterwards.     *)
(***************************************************************************)
EXTENDS NatProbe

CONSTANTS
    Issuer,         \* the key that the token pins
    Other_,         \* the key of another listener at the same relay
    None,
    PipeConfigs,    \* bound: the configurations that the model follows into the pipe
    Chunks          \* bound: chunks of stdin

ASSUME CatAssumption == Chunks \in Nat /\ None \notin {Issuer, Other_} /\ Issuer # Other_

VARIABLES
    args,       \* the command, and whether --stun-detect was given
    main,       \* where the process is
    remote,     \* the key at the other end of the inner connection
    cfg,        \* the PunchConfig
    mgr,        \* where the path manager is
    offers,     \* the kinds of candidates that were advertised
    pipe        \* the two halves of the pipe

peer == <<remote, cfg, mgr, offers>>
cat == <<args, main, peer, pipe>>

\* The options that decide about the punch.
Options == [strategy : {"basic", "predict"}, portMap : BOOLEAN, direct : {"reflexive", "full", "off"}]

\* A value for PipeConfigs: the pipe shares nothing with the punch, so TLC
\* follows it for the default configuration alone.
DefaultOnly == {[strategy |-> "basic", portMap |-> FALSE, direct |-> "reflexive"]}

\* DirectMode, and is_punchable of a measured mapping.
OffersHost(direct) == direct = "full"
Punches(direct) == direct # "off"
Punchable(mapped) == mapped \in {"open", "eim"}

CatInit ==
    /\ ProbeInit
    /\ args \in [command : {"listen", "connect"}, stun : BOOLEAN]
    /\ dual => args.stun
    /\ args.stun \/ nat = "open"
    /\ main = "start"
    /\ remote = None
    /\ cfg = None /\ mgr = "none" /\ offers = {}
    /\ pipe = [up |-> "copy", down |-> "copy", written |-> 0, arrived |-> 0,
               peerFin |-> FALSE, lost |-> FALSE]

Proceed(from, to) == main = from /\ main' = to

-------------------------------------------------------------------------------
(***************************************************************************)
(* Up to the inner connection.                                             *)
(***************************************************************************)

\* report_nat_mapping; an error is reported, and the verdict is None.
StartDetection ==
    /\ args.stun
    /\ Proceed("start", "detect")
    /\ Detect
    /\ UNCHANGED <<args, peer, pipe>>

LoadIdentity ==
    /\ \/ ~args.stun /\ main = "start"
       \/ main = "detect" /\ step = "idle"
    /\ main' \in {IF args.command = "listen" THEN "relay" ELSE "token", "failed"}
    /\ UNCHANGED <<args, peer, pipe, probe>>

\* TokenV2::decode and is_expired: a text that is no token of this version, or
\* one past its lifetime, is refused.
DecodeToken ==
    /\ main = "token"
    /\ main' \in {"relay", "failed"}
    /\ UNCHANGED <<args, peer, pipe, probe>>

\* relay_access: one of the ways to trust the relay has to be given.
RelayAccess ==
    /\ main = "relay"
    /\ main' \in {"bind", "failed"}
    /\ UNCHANGED <<args, peer, pipe, probe>>

\* BindClient::connect and the endpoint over its session.
Bind ==
    /\ main = "bind"
    /\ main' \in {IF args.command = "listen" THEN "accept" ELSE "dial", "failed"}
    /\ UNCHANGED <<args, peer, pipe, probe>>

\* check_pin: a pin that is expected is enforced, else any is learned.
PinAccepts(expected, key) == key # None /\ (expected = None \/ key = expected)

\* The dialer pins the issuer's key; nobody, or somebody else, may be there.
Dial ==
    /\ main = "dial"
    /\ \E holder \in {Issuer, Other_, None} :
         IF PinAccepts(Issuer, holder)
         THEN remote' = holder /\ main' = "session"
         ELSE UNCHANGED remote /\ main' = "failed"
    /\ UNCHANGED <<args, cfg, mgr, offers, pipe, probe>>

\* The listener takes one inner connection, of whoever holds its token; when
\* that handshake fails, the listener ends.
Accept ==
    /\ main = "accept"
    /\ \/ \E key \in {Issuer, Other_} : PinAccepts(None, key) /\ remote' = key /\ main' = "session"
       \/ UNCHANGED remote /\ main' = "failed"
    /\ UNCHANGED <<args, cfg, mgr, offers, pipe, probe>>

\* punch_config and Session::start.  The other strategies only warn, and are
\* the basic one.
StartSession ==
    /\ Proceed("session", "best")
    /\ cfg' \in Options
    /\ mgr' = "start"
    /\ UNCHANGED <<args, remote, offers, pipe, probe>>

-------------------------------------------------------------------------------
(***************************************************************************)
(* The path manager, up to what it advertises.                             *)
(***************************************************************************)

\* punch_is_futile.
Futile ==
    /\ verdict # "none" /\ ~Punchable(verdict)
    /\ ~cfg.portMap /\ cfg.strategy # "predict" /\ ~OffersHost(cfg.direct)

\* No multipath, or --direct=off.
Pinned ==
    /\ mgr = "start"
    /\ mgr' = "pinned"
    /\ UNCHANGED <<args, main, remote, cfg, offers, pipe, probe>>

Skip ==
    /\ mgr = "start" /\ Punches(cfg.direct) /\ Futile
    /\ mgr' = "futile"
    /\ UNCHANGED <<args, main, remote, cfg, offers, pipe, probe>>

\* request_port_map.
AskGateway ==
    /\ mgr = "start" /\ Punches(cfg.direct) /\ ~Futile
    /\ mgr' = IF cfg.portMap THEN "map" ELSE "gather"
    /\ IF cfg.portMap THEN MapUdp ELSE UNCHANGED probe
    /\ UNCHANGED <<args, main, remote, cfg, offers, pipe>>

\* native_punch::candidates and predicted_candidates: a route towards the relay
\* may name no usable host address, and the samples no predictable port.
Candidates(observed, predicted, host) ==
    {c \in {"mapped", "reflexive", "host", "predicted"} :
        CASE c = "mapped" -> mapping # 0
          [] c = "reflexive" -> observed
          [] c = "host" -> OffersHost(cfg.direct) /\ host
          [] c = "predicted" -> cfg.strategy = "predict" /\ predicted}

\* What there is to offer is advertised; with nothing, or when the connection
\* does not take it, the peer stays on the relay.
Offer ==
    /\ mgr = "gather" \/ (mgr = "map" /\ step = "idle")
    /\ \E observed, predicted, host \in BOOLEAN :
         \/ /\ Candidates(observed, predicted, host) # {}
            /\ offers' = Candidates(observed, predicted, host)
            /\ mgr' = "punch"
         \/ mgr' = "pinned" /\ UNCHANGED offers
    /\ UNCHANGED <<args, main, remote, cfg, pipe, probe>>

-------------------------------------------------------------------------------
(***************************************************************************)
(* The pipe.                                                               *)
(***************************************************************************)

\* best_path returns, with a direct path or without; the stream is opened or
\* accepted.
OpenPipe ==
    /\ cfg \in PipeConfigs
    /\ Proceed("best", "pipe")
    /\ UNCHANGED <<args, peer, pipe, probe>>

\* No stream, or VPN mode, which the modules of the tunnel model.
NoPipe ==
    /\ cfg \in PipeConfigs
    /\ main = "best"
    /\ main' \in {"failed", "vpn"}
    /\ UNCHANGED <<args, peer, pipe, probe>>

InPipe(next) ==
    /\ main = "pipe"
    /\ pipe' = next
    /\ UNCHANGED <<args, main, peer, probe>>

Upload ==
    /\ pipe.up = "copy" /\ pipe.written < Chunks /\ ~pipe.lost
    /\ InPipe([pipe EXCEPT !.written = @ + 1])

\* Each half runs to its own end: of stdin, which finishes the stream, and of
\* what the peer sends.
UploadDone ==
    /\ pipe.up = "copy" /\ pipe.written = Chunks
    /\ InPipe([pipe EXCEPT !.up = "done"])

DownloadDone ==
    /\ pipe.down = "copy" /\ pipe.peerFin
    /\ InPipe([pipe EXCEPT !.down = "done"])

\* A copy that fails ends its half as well, and its error is dropped: stdin
\* cannot be read, the peer stops the stream, or the connection is lost; stdout
\* is closed, the peer resets the stream, or the connection is lost.
UploadFails ==
    /\ pipe.up = "copy"
    /\ InPipe([pipe EXCEPT !.up = "failed"])

DownloadFails ==
    /\ pipe.down = "copy"
    /\ InPipe([pipe EXCEPT !.down = "failed"])

\* What was written reaches the peer; the peer ends its stream; or the
\* connection is lost.
Arrives == pipe.arrived < pipe.written /\ InPipe([pipe EXCEPT !.arrived = @ + 1])
PeerFinishes == ~pipe.peerFin /\ InPipe([pipe EXCEPT !.peerFin = TRUE])
ConnectionLost == ~pipe.lost /\ InPipe([pipe EXCEPT !.lost = TRUE])

\* Mutant of PipeEnds: the pipe ends with the first of its halves.
PipeEnds_First ==
    /\ pipe.up # "copy" \/ pipe.down # "copy"
    /\ Proceed("pipe", "exit")
    /\ mgr' = "aborted"
    /\ UNCHANGED <<args, remote, cfg, offers, pipe, probe>>

\* Both halves have ended: run returns, and the connection goes with the process.
PipeEnds ==
    /\ pipe.up # "copy" /\ pipe.down # "copy"
    /\ Proceed("pipe", "exit")
    /\ mgr' = "aborted"
    /\ UNCHANGED <<args, remote, cfg, offers, pipe, probe>>

-------------------------------------------------------------------------------
\* After the decision to exit nothing of the process runs.
Alive == main \notin {"exit", "failed"}

Main ==
    \/ StartDetection \/ LoadIdentity \/ DecodeToken \/ RelayAccess \/ Bind \/ Dial \/ Accept \/ StartSession
    \/ OpenPipe \/ NoPipe
    \/ Upload \/ UploadDone \/ DownloadDone \/ UploadFails \/ DownloadFails \/ PipeEnds

ManagerRuns == Alive /\ (Pinned \/ Skip \/ AskGateway \/ Offer)
Probes == Alive /\ Transaction /\ UNCHANGED cat
Environment ==
    \/ Alive /\ Servers /\ UNCHANGED cat
    \/ Arrives \/ PeerFinishes \/ ConnectionLost

CatNext == Main \/ ManagerRuns \/ Probes \/ Environment

CatSpec == CatInit /\ [][CatNext]_<<probe, cat>>

-------------------------------------------------------------------------------
(***************************************************************************)
(* Properties.                                                             *)
(***************************************************************************)

\* Every variable has its type, and only one function probes at a time.
CatTypeOK ==
    /\ args \in [command : {"listen", "connect"}, stun : BOOLEAN]
    /\ main \in {"start", "detect", "token", "relay", "bind", "dial", "accept", "session", "best",
                 "pipe", "vpn", "exit", "failed"}
    /\ mgr \in {"none", "start", "pinned", "futile", "map", "gather", "punch", "aborted"}
    /\ remote \in {Issuer, Other_, None}
    /\ pipe.arrived <= pipe.written /\ pipe.written <= Chunks
    /\ attempt <= Attempts
    /\ step \in Tests => main = "detect"
    /\ step \in Asks => mgr \in {"map", "aborted"} \/ ~Alive

\* "The peer finishing its send (recv EOF) must not cut off our still-draining
\* send" (pipe_stdio), nor the other way round, and neither must a half that
\* fails: when the process ends, an upload whose own copy met no error has
\* written all of stdin, and such a download has read up to the peer's FIN.
NothingCutOff ==
    main = "exit" =>
        /\ pipe.up # "failed" => pipe.written = Chunks
        /\ pipe.down # "failed" => pipe.peerFin

\* "So we always let the upload reach stdin EOF" (pipe_stdio): when the process
\* ends on a connection that was not lost, all of stdin was written.
UploadReachesEof == main = "exit" /\ ~pipe.lost => pipe.written = Chunks

\* "Graceful FIN so all buffered bytes are delivered before close"
\* (pipe_stdio): when the process ends on a connection that was not lost, the
\* peer has everything that was written.
WrittenHasArrived == main = "exit" /\ ~pipe.lost => pipe.arrived = pipe.written
================================================================================
