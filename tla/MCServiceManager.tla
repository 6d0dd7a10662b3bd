-------------------------- MODULE MCServiceManager --------------------------
EXTENDS ServiceManager, TLC
CONSTANTS s1, s2, t1, t2
\* Two services that share one of their topics.
MCTopicsOf == (s1 :> {t1}) @@ (s2 :> {t1, t2})
=============================================================================
