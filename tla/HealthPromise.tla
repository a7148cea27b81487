---------------------------- MODULE HealthPromise ----------------------------
(***************************************************************************)
(* What the exit of a container's health check promises (healthcheck/        *)
(* main.go).  The check and Augur Canis, which answers it, are in            *)
(* HealthCheck.                                                              *)
(***************************************************************************)
EXTENDS RedisPromise

CONSTANT Probes  \* healthcheck processes, each a request of its own

VARIABLES
  probe,  \* where each check is; "healthy" and "unhealthy" are its exits 0 and 1
  hurt    \* history: checks one of whose own connections failed

\* A command to Redis for one request.
Cmd(op, h) == <<op, h>>

\* A container is reported healthy because Augur Canis answered this very request or Redis
\* answered the ping, and unhealthy only if its own Redis connections failed: neither Augur
\* Canis being down, slow or restarted nor another container's check makes it unhealthy.  The
\* header of the file says exit 1 for a timeout; main pings Redis then and exits 0 if it answers.
ExitIsFounded ==
  \A h \in Probes :
    /\ probe[h] = "healthy" => Cmd("result", h) \in executed \/ Cmd("ping", h) \in executed
    /\ probe[h] = "unhealthy" => h \in hurt
=============================================================================
