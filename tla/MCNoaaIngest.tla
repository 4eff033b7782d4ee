----------------------------- MODULE MCNoaaIngest -----------------------------
EXTENDS NoaaIngest

\* get_gfs_and_nam_model_run_hours
MCRunHours == <<0, 6, 12, 18>>
=============================================================================
