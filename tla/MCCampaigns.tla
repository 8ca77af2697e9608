----------------------------- MODULE MCCampaigns ----------------------------
(***************************************************************************)
(* Setup, confirmation and stand-alone campaigns, each on its own: `focus` *)
(* names the one that moves.  One run explores the sum of their states.    *)
(* The modules with theorems are extended, the others instantiated.        *)
(***************************************************************************)
EXTENDS PaperConfirmation, LegacyKeeper, LivePilot, ManagementHold,
        PaperSession, OwnedFork

VARIABLE focus
VARIABLES setupNow, setupFork, marketGas, target, profile, version,
          cache, busy, stops, campaignRow, tab
VARIABLES lchain, liveForks, checkpoint, walletRow, allocations,
          outbox, reviews, liveJobs, reviewer, client
VARIABLES kchain, kforks, life, pending, preview, book, adoptions,
          passLock, proc, adopter

setupVars == <<setupNow, setupFork, marketGas, target, profile, version,
               cache, busy, stops, campaignRow, tab>>
lvVars == <<lchain, liveForks, checkpoint, walletRow, allocations,
            outbox, reviews, liveJobs, reviewer, client>>
runtimeVars == <<kchain, kforks, life, pending, preview, book, adoptions,
                 passLock, proc, adopter>>

Setup == INSTANCE PaperSetup WITH
    Browsers <- {1, 2}, Kind <- <<"static", "rangekeeper">>, Prices <- {1, 3},
    MaxAge <- 1, CacheSize <- 1, MaxSetupTime <- 1, MaxSetupForks <- 1,
    MaxTargets <- 2, MaxVersions <- 1, MaxStops <- 1
Review == INSTANCE LiveReview WITH
    Requests <- {1, 2}, Budget <- 1, MaxAge <- 1, Confirmations <- 0,
    StartBalance <- 1, MaxHeight <- 2, MaxLiveForks <- 1, MaxReviews <- 2
Runtime == INSTANCE KeeperRuntime WITH
    Workers <- {1, 2}, Adopters <- {1, 2}, Builds <- {1, 2, 3}, Deployed <- {1, 2},
    Ticks <- {0}, Persistence <- 1, MaxGap <- 1, MaxKeeperBlock <- 3,
    MaxKeeperForks <- 0, MaxBook <- 3, MaxAdoptions <- 2
Recenter == INSTANCE KeeperRuntime WITH
    Workers <- {1, 2}, Adopters <- {1, 2}, Builds <- {1}, Deployed <- {1},
    Ticks <- {0, 1, 2}, Persistence <- 1, MaxGap <- 1, MaxKeeperBlock <- 4,
    MaxKeeperForks <- 1, MaxBook <- 4, MaxAdoptions <- 2

MCInit ==
    /\ focus \in {"confirmation", "fork", "setup", "review", "keeper", "pilot",
                  "session", "runtime", "recenter", "hold"}
    /\ ConfInit
    /\ ForkInit
    /\ Setup!SetupInit
    /\ Review!LiveInit
    /\ KeeperInit
    /\ PilotInit
    /\ SessionInit
    /\ Runtime!KeeperInit
    /\ HoldInit
    /\ focus # "session" => ~sessions[1].held

ConfStep ==
    /\ focus = "confirmation" /\ ConfNext
    /\ UNCHANGED <<focus, forkVars, setupVars, lvVars, keeperVars, pilotVars,
                   sessionVars, runtimeVars, holdVars>>
ForkStep ==
    /\ focus = "fork" /\ ForkNext
    /\ UNCHANGED <<focus, confVars, setupVars, lvVars, keeperVars, pilotVars,
                   sessionVars, runtimeVars, holdVars>>
SetupStep ==
    /\ focus = "setup" /\ Setup!SetupNext
    /\ UNCHANGED <<focus, confVars, forkVars, lvVars, keeperVars, pilotVars,
                   sessionVars, runtimeVars, holdVars>>
ReviewStep ==
    /\ focus = "review" /\ Review!LiveNext
    /\ UNCHANGED <<focus, confVars, forkVars, setupVars, keeperVars, pilotVars,
                   sessionVars, runtimeVars, holdVars>>
LegacyStep ==
    /\ focus = "keeper" /\ KeeperNext
    /\ UNCHANGED <<focus, confVars, forkVars, setupVars, lvVars, pilotVars,
                   sessionVars, runtimeVars, holdVars>>
PilotStep ==
    /\ focus = "pilot" /\ PilotNext
    /\ UNCHANGED <<focus, confVars, forkVars, setupVars, lvVars, keeperVars,
                   sessionVars, runtimeVars, holdVars>>
SessionStep ==
    /\ focus = "session" /\ SessionNext
    /\ UNCHANGED <<focus, confVars, forkVars, setupVars, lvVars, keeperVars,
                   pilotVars, runtimeVars, holdVars>>
RuntimeStep ==
    /\ focus = "runtime" /\ Runtime!KeeperNext
    /\ UNCHANGED <<focus, confVars, forkVars, setupVars, lvVars, keeperVars,
                   pilotVars, sessionVars, holdVars>>
RecenterStep ==
    /\ focus = "recenter" /\ Recenter!KeeperNext
    /\ UNCHANGED <<focus, confVars, forkVars, setupVars, lvVars, keeperVars,
                   pilotVars, sessionVars, holdVars>>
HoldStep ==
    /\ focus = "hold" /\ HoldNext
    /\ UNCHANGED <<focus, confVars, forkVars, setupVars, lvVars, keeperVars,
                   pilotVars, sessionVars, runtimeVars>>

MCNext ==
    \/ ConfStep
    \/ ForkStep
    \/ SetupStep
    \/ ReviewStep
    \/ LegacyStep
    \/ PilotStep
    \/ SessionStep
    \/ RuntimeStep
    \/ RecenterStep
    \/ HoldStep

\* A campaign is set up once, on what was reviewed: a saved paper draft was
\* priced on its own source and funded at admission, a live review reserves what
\* the wallet had, and a retry is told what its first attempt did.
SetupsAdmitted == Setup!DraftsSound /\ Review!AdmissionSound

\* Across releases a paper campaign's book is unbroken, and a range is given
\* up only after the price stayed outside it and asked for the same range
\* twice.
ReleasesSound == Runtime!BookUnbroken /\ Recenter!RecenterEarned
============================================================================
