------------------------------- MODULE TaskTable -------------------------------
(***************************************************************************)
(* The tasks list-tasks.py defines, with the names of their dependencies   *)
(* split at the dot: <<phase, task>>, or <<task>> where none is written.   *)
(***************************************************************************)
EXTENDS Sequences

\* Each phase with its tasks, each task with its dependencies.
tasks == <<
  <<"phase1_foundation", <<
      <<"directory_structure", {}>>,
      <<"database_schema", {<<"directory_structure">>}>>,
      <<"environment_config", {<<"directory_structure">>}>> >> >>,
  <<"phase2_services", <<
      <<"document_processor", {<<"phase1_foundation", "database_schema">>,
                               <<"phase1_foundation", "environment_config">>}>>,
      <<"search_api", {<<"phase1_foundation", "database_schema">>,
                       <<"phase1_foundation", "environment_config">>}>>,
      <<"docker_integration", {<<"phase2_services", "embedding_service">>,
                               <<"phase2_services", "document_processor">>,
                               <<"phase2_services", "search_api">>}>> >> >>,
  <<"phase3_testing", <<
      <<"local_deployment", {<<"phase2_services", "docker_integration">>}>>,
      <<"document_processing_test", {<<"phase3_testing", "local_deployment">>}>>,
      <<"search_functionality_test", {<<"phase3_testing", "document_processing_test">>}>> >> >>,
  <<"phase4_kubernetes", <<
      <<"helm_chart_update", {<<"phase3_testing", "search_functionality_test">>}>>,
      <<"ansible_playbook_update", {<<"phase4_kubernetes", "helm_chart_update">>}>>,
      <<"production_deployment", {<<"phase4_kubernetes", "ansible_playbook_update">>}>> >> >>,
  <<"phase5_integration", <<
      <<"cli_commands_update", {<<"phase4_kubernetes", "production_deployment">>}>>,
      <<"cli_testing", {<<"phase5_integration", "cli_commands_update">>}>>,
      <<"documentation_update", {<<"phase5_integration", "cli_testing">>}>> >> >> >>
=============================================================================
