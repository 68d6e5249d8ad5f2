-------------------------- MODULE DriverTransport --------------------------
(***************************************************************************)
(* How the validated input travels from the provider to the driver of its  *)
(* Ray job: inline in an environment variable, or, above INLINE_LIMIT, in  *)
(* a package that Ray uploads, named by another variable.  Environments    *)
(* are reduced to these two variables.                                     *)
(***************************************************************************)
EXTENDS Naturals

CONSTANTS
  INLINE_LIMIT,  \* characters that still travel inline
  Absent         \* a variable that is not set, an input that cannot be read

PACKAGE == "tributo_ray_driver_input"

\* An encoded input: its text, of which only the length matters, and an
\* environment: the values of DRIVER_ENV and RESOURCE_ENV.
Encoded(text, len) == [text |-> text, len |-> len]
Env(inline, resource) == [inline |-> inline, resource |-> resource]
Clean == Env(Absent, Absent)

\* _non_sensitive_env: DRIVER_ENV is reserved, RESOURCE_ENV is not.
Accepted(env_vars) == env_vars.inline = Absent

\* Bug: what env_vars says about the transport is kept.
PackKeeps(encoded, env_vars) ==
  IF encoded.len <= INLINE_LIMIT
    THEN [env |-> [env_vars EXCEPT !.inline = encoded.text], package |-> Absent]
    ELSE [env |-> [env_vars EXCEPT !.resource = PACKAGE], package |-> encoded.text]

\* driver_transport: neither variable of env_vars survives.
Pack(encoded, env_vars) ==
  IF encoded.len <= INLINE_LIMIT
    THEN [env |-> Env(encoded.text, Absent), package |-> Absent]
    ELSE [env |-> Env(Absent, PACKAGE), package |-> encoded.text]

\* The variables of the job on top of those of the node it runs on.
Overlay(node, env) ==
  Env(IF env.inline # Absent THEN env.inline ELSE node.inline,
      IF env.resource # Absent THEN env.resource ELSE node.resource)

\* read_driver_input; Absent stands for the ValueError, or the missing file.
Read(env, package) ==
  IF env.inline # Absent /\ env.resource # Absent THEN Absent
  ELSE IF env.inline # Absent THEN env.inline
  ELSE IF env.resource = PACKAGE THEN package ELSE Absent

=============================================================================
