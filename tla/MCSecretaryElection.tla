------------------------ MODULE MCSecretaryElection ------------------------
(* Model checking of SecretaryElection.                                    *)
EXTENDS SecretaryElection
=============================================================================
