--------------------------- MODULE MCSecretStore ---------------------------
(* Two writers, and three targets: my-lab and my_lab, of one variable, and *)
(* prod.  The server's environment has only that variable; in .env it stands *)
(* three times: read, behind "export", and read again with another value.  *)
(* Writers and passwords are interchangeable.                              *)
EXTENDS SecretStore, TLC

CONSTANTS w1, w2, dashed, underscored, prod, labKey, prodKey, v1, v2, pw1, pw2

MCWriters    == {w1, w2}
MCNames      == {dashed, underscored, prod}
MCValues     == {v1, v2}
MCPasswords  == {pw1, pw2}
MCEnvKeys    == {labKey, prodKey}
MCEnvKey     == [n \in MCNames |-> IF n = prod THEN prodKey ELSE labKey]
MCImportName == (labKey :> dashed) @@ (prodKey :> prod)

EnvLine(k, v, read) == [key |-> k, value |-> v, read |-> read]
MCLines == << EnvLine(labKey, v1, TRUE), EnvLine(prodKey, v1, TRUE),
              EnvLine(labKey, v1, FALSE), EnvLine(labKey, v2, TRUE) >>

MCEnvironment == {labKey}

MCFirstMaps == { (dashed :> v2) @@ (underscored :> None) @@ (prod :> None),
                 (dashed :> None) @@ (underscored :> v1) @@ (prod :> v2) }

MCSymmetry == Permutations(MCWriters) \cup Permutations(MCPasswords)
=============================================================================
