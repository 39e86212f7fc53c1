---- MODULE MCAssetScan ----
EXTENDS AssetScan
CONSTANTS d1, d2, w1, w2
MCWindowOf == (d1 :> w1) @@ (d2 :> w2)
MCOrder == <<d1, d2>>
====
