------------------------- MODULE MCDispatchPromise --------------------------
(* An instance of WorkerDispatch with its fairness, for the promise to the *)
(* caller of a dispatch and the pools of workers that come back promptly.  *)
EXTENDS MCWorkerDispatch

VARIABLE scene
sceneVars == <<vars, scene>>

(* One worker that comes back before the server has noticed that it was    *)
(* gone, or two that come back afterwards.                                 *)
Prompt(s) == (sock[s] = "unused" /\ sock'[s] # "unused") => EarlierSocketsCleanedUp(WorkerOf[s])
SceneInit == Init /\ scene \in {"hasty", "prompt"}
SceneNext ==
  /\ Next
  /\ UNCHANGED scene
  /\ IF scene = "hasty" THEN sock'[s3] = "unused" ELSE \A s \in Socks : Prompt(s)
SceneFairSpec == SceneInit /\ [][SceneNext]_sceneVars /\ Fairness

(* The pools of workers that come back promptly: see PoolsAreExact. *)
PromptPoolsAreExact == scene = "prompt" => PoolsAreExact
=============================================================================
