-------------------------- MODULE MCConfigurator --------------------------
(* Configurator with one setting of each kind.                            *)
EXTENDS Configurator

MCSteps == <<"smart", "wheel", "dpi", "button">>
=============================================================================
