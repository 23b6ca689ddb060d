------------------------------ MODULE MCQflow -------------------------------
(* The qflow driver over a few runs, some seconds apart.                    *)
EXTENDS Qflow
=============================================================================
