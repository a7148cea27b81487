---------------------------- MODULE RedisPromise -----------------------------
(***************************************************************************)
(* What a call of the Redis client (redis.go) promises the goroutine that    *)
(* makes it.  How the client keeps it is in RedisClient.                     *)
(***************************************************************************)
EXTENDS Sequences

CONSTANT Goroutines

VARIABLES
  call,      \* goroutine -> its call: where it is, its commands, the replies read
  acked,     \* goroutine -> the commands its last call says have succeeded
  executed   \* commands Redis has executed

\* Goroutines that share a client, calls that failed half way through a pipeline and replies
\* that come late: a call is never given the reply to another command.
OwnReply ==
  \A g \in Goroutines : call[g].read = SubSeq(call[g].cmds, 1, Len(call[g].read))

\* A command reported as done was executed by Redis.  The converse is false: a command
\* reported as failed may have been executed, or be executed later.
AckedIsExecuted == \A g \in Goroutines : acked[g] \subseteq executed
=============================================================================
